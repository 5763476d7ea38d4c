------------------------------ MODULE Workflow ------------------------------
(***************************************************************************)
(* A workflow template (the DSL file of one saga) as the engine sees it:   *)
(* an array of tasks, each one hop "service `from` publishes `topic`,      *)
(* service `to` must consume it within `timeout`".  Every instance copies  *)
(* this array when it starts and never changes it afterwards, so the       *)
(* template is a constant of the model.                                    *)
(***************************************************************************)
EXTENDS Integers

CONSTANTS NumTasks,    \* length of the tasks array
          Topic,       \* event names
          Service,     \* service names
          TopicOf,     \* task index -> topic
          ToOf,        \* task index -> consuming service
          TimeoutOf    \* task index -> timeout, in clock units

(* Task indexes are the array positions 0 .. #tasks-1.                     *)
Task == 0 .. (NumTasks - 1)

(* What templating.Validate accepts: at least one task, a positive timeout *)
(* everywhere, and no two tasks with the same (topic, to) pair.  ParseDSL  *)
(* refuses to start the process otherwise.                                 *)
ASSUME WorkflowValid ==
  /\ NumTasks \in Nat \ {0}
  /\ TopicOf \in [Task -> Topic]
  /\ ToOf \in [Task -> Service]
  /\ TimeoutOf \in [Task -> Nat \ {0}]
  /\ \A i, j \in Task : TopicOf[i] = TopicOf[j] /\ ToOf[i] = ToOf[j] => i = j

Action == {"publish", "consume", "fail"}

(* Mutant: a publish, too, names only the task of one consumer.            *)
ResolveOne(action, topic, service) ==
  {i \in Task : TopicOf[i] = topic /\ ToOf[i] = service}

(* Task resolution: a publish names every task with its topic, a consume   *)
(* or a fail the task with its topic and its consuming service.            *)
Resolve(action, topic, service) ==
  {i \in Task : TopicOf[i] = topic /\ (action = "publish" \/ ToOf[i] = service)}
=============================================================================
