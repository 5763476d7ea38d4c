---------------------------- MODULE SagaContract -----------------------------
(***************************************************************************)
(* What the engine promises its clients, without handlers, script calls,   *)
(* wires, reapers and their batches: every report takes effect in one      *)
(* step, completely or not at all, on the state the saga has at that       *)
(* moment.  InstanceEngine implements this specification; the race of a    *)
(* report with another report, with its own re-sent copy or with a reaper  *)
(* tick is nothing but an order of these steps.                            *)
(***************************************************************************)
EXTENDS Workflow, ZSet

CONSTANTS Instance, Body, NoBody

VARIABLES
  inst,      \* NONE, PENDING, COMPLETED, FAILED or GONE (deleted)
  states,    \* the state of every task
  payload,   \* what the last publish of its topic carried
  due,       \* when each waiting task times out
  owed,      \* [archive, webhook]: the jobs that endings have called for
  now

Waiting(id) == {i \in Task : states[id][i] = "PUBLISHED"}

Init ==
  /\ inst = [id \in Instance |-> "NONE"]
  /\ states = [id \in Instance |-> [i \in Task |-> "PENDING"]]
  /\ payload = [id \in Instance |-> [i \in Task |-> NoBody]]
  /\ due = EmptyZSet
  /\ owed = [archive |-> {}, webhook |-> {}]
  /\ now = 0

Start(id) ==
  /\ inst[id] = "NONE"
  /\ inst' = [inst EXCEPT ![id] = "PENDING"]
  /\ UNCHANGED <<states, payload, due, owed, now>>

Delete(id) ==
  /\ inst[id] \notin {"NONE", "GONE"}
  /\ inst' = [inst EXCEPT ![id] = "GONE"]
  /\ states' = [states EXCEPT ![id] = [i \in Task |-> "PENDING"]]
  /\ payload' = [payload EXCEPT ![id] = [i \in Task |-> NoBody]]
  /\ due' = ZRem(due, {id} \X Task)
  /\ UNCHANGED <<owed, now>>

(* A publish moves every task of its topic; a repeated one gives those     *)
(* that are still waiting the new payload and a new window.  The window    *)
(* counts from some moment between the report and its effect.              *)
Publish(id, topic, at, body) ==
  LET T   == {i \in Task : TopicOf[i] = topic}
      arm == {i \in T : states[id][i] \in {"PENDING", "PUBLISHED"}}
  IN /\ inst[id] = "PENDING"
     /\ (\A i \in T : states[id][i] = "PENDING") \/ (\A i \in T : states[id][i] # "PENDING")
     /\ arm # {} /\ at <= now
     /\ states' = [states EXCEPT ![id] = [i \in Task |-> IF i \in arm THEN "PUBLISHED" ELSE @[i]]]
     /\ payload' = [payload EXCEPT ![id] = [i \in Task |-> IF i \in arm THEN body ELSE @[i]]]
     /\ due' = ZAdd(due, [k \in {id} \X arm |-> at + TimeoutOf[k[2]]])
     /\ UNCHANGED <<inst, owed, now>>

(* Mutant: a task of an instance that has ended is consumed all the same.  *)
ConsumeEnded(id, t) ==
  /\ inst[id] # "GONE" /\ t \in Waiting(id)
  /\ states' = [states EXCEPT ![id][t] = "COMPLETED"]
  /\ due' = ZRem(due, {<<id, t>>})
  /\ UNCHANGED <<inst, payload, owed, now>>

(* A task is consumed; the last one completes the instance, which then has *)
(* to be archived.                                                         *)
Consume(id, t) ==
  LET last == \A i \in Task \ {t} : states[id][i] = "COMPLETED"
  IN /\ inst[id] = "PENDING" /\ t \in Waiting(id)
     /\ states' = [states EXCEPT ![id][t] = "COMPLETED"]
     /\ inst' = IF last THEN [inst EXCEPT ![id] = "COMPLETED"] ELSE inst
     /\ due' = ZRem(due, {<<id, t>>})
     /\ owed' = IF last THEN [owed EXCEPT !.archive = @ \cup {id}] ELSE owed
     /\ UNCHANGED <<payload, now>>

(* The tasks W fail, at most one of an instance.  Each takes its instance  *)
(* with it: no deadline of that instance remains, it has to be archived,   *)
(* and the publisher of the failed task has to be told.                    *)
Fails(W) ==
  LET failed == {w[1] : w \in W}
  IN /\ \A w \in W : inst[w[1]] = "PENDING" /\ w[2] \in Waiting(w[1])
     /\ \A v, w \in W : v[1] = w[1] => v = w
     /\ states' = [id \in Instance |-> [i \in Task |->
                     IF <<id, i>> \in W THEN "FAILED" ELSE states[id][i]]]
     /\ inst' = [id \in Instance |-> IF id \in failed THEN "FAILED" ELSE inst[id]]
     /\ due' = ZRem(due, failed \X Task)
     /\ owed' = [archive |-> owed.archive \cup failed, webhook |-> owed.webhook \cup W]
     /\ UNCHANGED <<payload, now>>

Fail(id, t) == Fails({<<id, t>>})

(* Time: a set of overdue tasks fails at once.                             *)
Expire(W) == Fails(W) /\ \A w \in W : due[w] <= now

Tick == now' = now + 1 /\ UNCHANGED <<inst, states, payload, due, owed>>

Next ==
  \/ \E id \in Instance : Start(id) \/ Delete(id)
  \/ \E id \in Instance, topic \in Topic, at \in 0 .. now, body \in Body :
       Publish(id, topic, at, body)
  \/ \E id \in Instance, t \in Task : Consume(id, t) \/ Fail(id, t)
  \/ \E W \in SUBSET DOMAIN due : Expire(W)
  \/ Tick

Spec == Init /\ [][Next]_<<inst, states, payload, due, owed, now>>
=============================================================================
