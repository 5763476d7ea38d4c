--------------------------- MODULE InstanceEngine ---------------------------
(***************************************************************************)
(* The instance engine of Sagawise: workflow instances in Redis, the       *)
(* /start_instance and /update_instance handlers, the atomic transition    *)
(* script (transition.lua) that both the handlers and the deadline reaper  *)
(* run, and the reaper.                                                    *)
(*                                                                         *)
(* What is atomic is what Redis makes atomic: one script call.  A handler  *)
(* reads the document, resolves the report to task indexes, reads its      *)
(* clock, and only then sends the script call; other handlers, other       *)
(* replicas, the reapers and the clock move in between.  The call can be   *)
(* answered, lost, or executed after its sender stopped waiting for it.    *)
(***************************************************************************)
EXTENDS Workflow, ZSet, FiniteSetsExt

CONSTANTS Instance,      \* instance ids (UUIDs; never reused)
          Body,          \* publish bodies
          NoBody,        \* a task that has no payload
          Call,          \* slots for concurrent /update_instance handlers
          Reaper,        \* reaper loops, one per replica
          BatchLimit,    \* reaperBatch
          MaxResend,     \* how often the Redis client re-sends a failed call
          MaxLate,       \* bound: script calls outliving their sender's wait
          MaxTime        \* bound: the model's clock stops here

ASSUME EngineAssumption ==
  /\ NoBody \notin Body
  /\ BatchLimit \in Nat \ {0}
  /\ MaxResend \in Nat
  /\ MaxLate \in Nat
  /\ MaxTime \in Nat

VARIABLES
  inst,        \* instance document: $.state, or NONE / GONE when there is none
  states,      \* instance document: $.tasks[*].state
  payload,     \* instance document: $.tasks[*].payload
  deadlines,   \* sorted set task_deadlines, members <<id, task>>
  archive,     \* sorted set archive_pending, members id
  webhooks,    \* sorted set webhook_pending, members <<id, task>>
  now,         \* the engine clock
  call,        \* what each handler slot is doing
  wire,        \* script calls still to be executed that nobody waits for
  reaper,      \* what each reaper loop is doing
  told         \* history: the task states that 200 answers have reported

docVars   == <<inst, states, payload>>
queueVars == <<deadlines, archive, webhooks>>
redisVars == <<inst, states, payload, deadlines, archive, webhooks>>
vars == <<inst, states, payload, deadlines, archive, webhooks, now,
          call, wire, reaper, told>>

-----------------------------------------------------------------------------
TaskState     == {"PENDING", "PUBLISHED", "COMPLETED", "FAILED"}
Terminal      == {"COMPLETED", "FAILED"}
InstanceState == {"PENDING"} \cup Terminal
TaskKey       == Instance \X Task

Exists(id) == inst[id] \in InstanceState
Live(id)   == inst[id] = "PENDING"

(* A script call of a report: KEYS[1] and ARGV of the transition script.   *)
Request == [from    : Call,
            action  : Action,
            retry   : BOOLEAN,
            id      : Instance,
            targets : SUBSET Task,
            at      : Nat,
            body    : Body \cup {NoBody}]

(* A handler is idle, has a script call outstanding ("sent"), or has seen  *)
(* it fail ("lost": a timeout or a connection error).  `sends` counts the  *)
(* attempts; `ran` is history: an attempt the client believes lost has     *)
(* changed the instance.                                                   *)
Idle == [phase |-> "idle"]
Busy == [phase : {"sent", "lost"}, req : Request,
         sends : 0 .. MaxResend, ran : BOOLEAN]

NoTick == -1

TypeOK ==
  /\ inst \in [Instance -> InstanceState \cup {"NONE", "GONE"}]
  /\ states \in [Instance -> [Task -> TaskState]]
  /\ payload \in [Instance -> [Task -> Body \cup {NoBody}]]
  /\ IsZSet(deadlines, TaskKey, Nat)
  /\ IsZSet(archive, Instance, Nat)
  /\ IsZSet(webhooks, TaskKey, Nat)
  /\ now \in Nat
  /\ call \in [Call -> {Idle} \cup Busy]
  /\ wire \subseteq Request \X (0 .. MaxResend)
  /\ reaper \in [Reaper -> Nat \cup {NoTick}]
  /\ told \subseteq TaskKey \X TaskState

AllPending == [i \in Task |-> "PENDING"]
NoPayloads == [i \in Task |-> NoBody]

Init ==
  /\ inst = [id \in Instance |-> "NONE"]
  /\ states = [id \in Instance |-> AllPending]
  /\ payload = [id \in Instance |-> NoPayloads]
  /\ deadlines = EmptyZSet
  /\ archive = EmptyZSet
  /\ webhooks = EmptyZSet
  /\ now = 0
  /\ call = [r \in Call |-> Idle]
  /\ wire = {}
  /\ reaper = [p \in Reaper |-> NoTick]
  /\ told = {}

-----------------------------------------------------------------------------
(* The transition table of `decide`: the state each action moves a task    *)
(* from and to, and the states in which it is a duplicate.  A batch reap   *)
(* calls `run` with the action "reap_batch", which `decide` treats in its  *)
(* last branch, the one of `fail`.                                         *)
MovesFrom ==
  [publish |-> "PENDING", consume |-> "PUBLISHED",
   fail |-> "PUBLISHED", reap_batch |-> "PUBLISHED"]

(* Mutant: a consumed task gets a state of its own.                        *)
MovesToConsumed ==
  [publish |-> "PUBLISHED", consume |-> "CONSUMED",
   fail |-> "FAILED", reap_batch |-> "FAILED"]

MovesTo ==
  [publish |-> "PUBLISHED", consume |-> "COMPLETED",
   fail |-> "FAILED", reap_batch |-> "FAILED"]

Repeats ==
  [publish |-> {"PUBLISHED", "COMPLETED", "FAILED"}, consume |-> {"COMPLETED"},
   fail |-> {"FAILED"}, reap_batch |-> {"FAILED"}]

TaskAlready ==
  [PUBLISHED |-> "TASK_ALREADY_PUBLISHED",
   COMPLETED |-> "TASK_ALREADY_COMPLETED",
   FAILED    |-> "TASK_ALREADY_FAILED"]

(* Mutant: a retry is a transition instead of a no-op.                     *)
DecideRetryMoves(action, retry, state) ==
  IF state = MovesFrom[action] \/ (retry /\ state # "PENDING") THEN "OK"
  ELSE IF state = "PENDING" THEN "TASK_NOT_PUBLISHED"
  ELSE TaskAlready[state]

Decide(action, retry, state) ==
  IF state = MovesFrom[action] THEN "OK"
  ELSE IF retry /\ state \in Repeats[action] THEN "IDEMPOTENT"
  ELSE IF state = "PENDING" THEN "TASK_NOT_PUBLISHED"
  ELSE TaskAlready[state]

(* The part of `run` that decides: the code it returns for call m.  Every  *)
(* target is evaluated before the instance is looked at, and the first     *)
(* target that refuses is the answer.                                      *)
Decision(m, i) == Decide(m.action, m.retry, states[m.id][i])

Refusing(m) == {i \in m.targets : Decision(m, i) \notin {"OK", "IDEMPOTENT"}}
Moving(m)   == {i \in m.targets : Decision(m, i) = "OK"}

Outcome(m) ==
  IF ~ Exists(m.id) THEN "NOT_FOUND"
  ELSE IF Refusing(m) # {} THEN Decision(m, Min(Refusing(m)))
  ELSE IF Moving(m) = {} THEN "IDEMPOTENT"
  ELSE IF inst[m.id] \in Terminal THEN "INSTANCE_TERMINAL"
  ELSE "OK"

Accepted(m) == Outcome(m) \in {"OK", "IDEMPOTENT"}

(* Mutants: the terminal check is missing, or a retry passes it.           *)
WritesEnded(m)        == Exists(m.id) /\ Refusing(m) = {}
WritesEndedOnRetry(m) == Accepted(m) /\ (Live(m.id) \/ m.retry)

(* The part of `run` that writes.  It is reached by accepted calls on a    *)
(* live instance: a publish (re)places the payload and (re)arms the        *)
(* deadline of every target that is or becomes PUBLISHED; a task that ends *)
(* loses its deadline, a failed one queues its webhook; and the instance   *)
(* transition follows from the new states, in the same step.               *)
Writes(m) == Accepted(m) /\ Live(m.id)

(* Mutants: a publish arms only what it re-publishes, or all its targets.  *)
ArmingRepeatsOnly(m) ==
  {i \in m.targets : m.action = "publish" /\ states[m.id][i] = "PUBLISHED"}
ArmingAll(m) == {i \in m.targets : m.action = "publish"}

Arming(m) ==
  {i \in m.targets : m.action = "publish"
                     /\ (Decision(m, i) = "OK" \/ states[m.id][i] = "PUBLISHED")}

StatesAfter(m) ==
  [i \in Task |-> IF i \in Moving(m) THEN MovesTo[m.action] ELSE states[m.id][i]]

InstanceAfter(m) ==
  IF Moving(m) = {} THEN inst[m.id]
  ELSE IF \E i \in Task : StatesAfter(m)[i] = "FAILED" THEN "FAILED"
  ELSE IF \A i \in Task : StatesAfter(m)[i] = "COMPLETED" THEN "COMPLETED"
  ELSE inst[m.id]

(* Mutant: the siblings of a failed task keep their deadlines.             *)
DisarmingOwnOnly(m) == {i \in Moving(m) : MovesTo[m.action] \in Terminal}

(* The members a call removes from task_deadlines: those of the tasks that *)
(* end, and of every task once the instance has failed.                    *)
Disarming(m) ==
  IF InstanceAfter(m) = "FAILED" THEN Task
  ELSE {i \in Moving(m) : MovesTo[m.action] \in Terminal}

(* Mutant: only a failed instance is archived.                             *)
EndingFailedOnly(m) == {id \in {m.id} : InstanceAfter(m) = "FAILED"}

Failing(m) == {i \in Moving(m) : MovesTo[m.action] = "FAILED"}
Ending(m)  == {id \in {m.id} : InstanceAfter(m) \in Terminal}

Run(m) ==
  IF Writes(m)
  THEN /\ states' = [states EXCEPT ![m.id] = StatesAfter(m)]
       /\ payload' = [payload EXCEPT ![m.id] =
                        [i \in Task |-> IF i \in Arming(m) THEN m.body ELSE @[i]]]
       /\ inst' = [inst EXCEPT ![m.id] = InstanceAfter(m)]
       /\ deadlines' = ZAdd(ZRem(deadlines, {m.id} \X Disarming(m)),
                            [k \in {m.id} \X Arming(m) |-> m.at + TimeoutOf[k[2]]])
       /\ webhooks' = ZAdd(webhooks, [k \in {m.id} \X Failing(m) |-> m.at])
       /\ archive' = ZAdd(archive, [id \in Ending(m) |-> m.at])
  ELSE UNCHANGED redisVars

(* Whether call m changes anything: a transition, or a re-armed deadline.  *)
Changes(m) == Writes(m) /\ (Moving(m) # {} \/ Arming(m) # {})

-----------------------------------------------------------------------------
(* /start_instance: a new document with every task PENDING.  An answer     *)
(* that gets lost leaves the same state, an instance nobody reports to.    *)
StartInstance(id) ==
  /\ inst[id] = "NONE"
  /\ inst' = [inst EXCEPT ![id] = "PENDING"]
  /\ UNCHANGED <<states, payload, queueVars, now, call, wire, reaper, told>>

(* External: an operator deletes the document.  The engine itself never    *)
(* does, but the script and the workers all handle it.                     *)
DeleteInstance(id) ==
  /\ Exists(id)
  /\ inst' = [inst EXCEPT ![id] = "GONE"]
  /\ states' = [states EXCEPT ![id] = AllPending]
  /\ payload' = [payload EXCEPT ![id] = NoPayloads]
  /\ UNCHANGED <<queueVars, now, call, wire, reaper, told>>

(* UpdateInstance up to the script call.  The refusals before it (missing  *)
(* parameters, unknown instance, no such task) answer without touching     *)
(* anything.  A slot does not repeat a call that is still on the wire with *)
(* the same clock reading: a clock unit is shorter than a handler.         *)
Report(r, action, retry, id, topic, service, body) ==
  LET m == [from |-> r, action |-> action, retry |-> retry, id |-> id,
            targets |-> Resolve(action, topic, service), at |-> now,
            body |-> IF action = "publish" THEN body ELSE NoBody]
  IN /\ call[r] = Idle
     /\ Exists(id)
     /\ m.targets # {}
     /\ \A n \in 0 .. MaxResend : <<m, n>> \notin wire
     /\ call' = [call EXCEPT ![r] =
                   [phase |-> "sent", req |-> m, sends |-> 0, ran |-> FALSE]]
     /\ UNCHANGED <<redisVars, now, wire, reaper, told>>

(* The script runs and its reply arrives; a 200 carries the states of the  *)
(* targets as they are after the call.                                     *)
Answer(r) ==
  /\ call[r].phase = "sent"
  /\ Run(call[r].req)
  /\ told' = told \cup
       IF Accepted(call[r].req)
       THEN {<<<<call[r].req.id, i>>, states'[call[r].req.id][i]>> :
               i \in call[r].req.targets}
       ELSE {}
  /\ call' = [call EXCEPT ![r] = Idle]
  /\ UNCHANGED <<now, wire, reaper>>

(* External: the client gives up waiting for this attempt (read timeout,   *)
(* broken connection).  Redis may never see the call, or run it later.     *)
SendFails(r) ==
  /\ call[r].phase = "sent"
  /\ call' = [call EXCEPT ![r].phase = "lost"]
  /\ \/ wire' = wire
     \/ /\ Cardinality(wire) < MaxLate
        /\ wire' = wire \cup {<<call[r].req, call[r].sends>>}
  /\ UNCHANGED <<redisVars, now, reaper, told>>

(* External: a call whose sender no longer waits is executed.              *)
LateRun(w) ==
  /\ w \in wire
  /\ Run(w[1])
  /\ wire' = wire \ {w}
  /\ call' = [r \in Call |->
                IF call[r] # Idle /\ call[r].req = w[1] /\ Changes(w[1])
                THEN [call[r] EXCEPT !.ran = TRUE] ELSE call[r]]
  /\ UNCHANGED <<now, reaper, told>>

(* External: the Redis client re-sends a failed call, with the clock       *)
(* reading it was built with.                                              *)
Resend(r) ==
  /\ call[r].phase = "lost"
  /\ call[r].sends < MaxResend
  /\ call' = [call EXCEPT ![r].phase = "sent", ![r].sends = @ + 1]
  /\ UNCHANGED <<redisVars, now, wire, reaper, told>>

(* The client returns the error and the handler answers INTERNAL.  A       *)
(* process that dies with a call outstanding leaves the same state.        *)
Error(r) ==
  /\ call[r].phase = "lost"
  /\ call' = [call EXCEPT ![r] = Idle]
  /\ UNCHANGED <<redisVars, now, wire, reaper, told>>

-----------------------------------------------------------------------------
(* Mutant: the clock reading is rounded up.                                *)
ReapReadRoundsUp(p) ==
  /\ reaper[p] = NoTick
  /\ reaper' = [reaper EXCEPT ![p] = now + 1]
  /\ UNCHANGED <<redisVars, now, call, wire, told>>

(* The reaper: a tick reads the clock, then makes one reap_batch call.     *)
ReapRead(p) ==
  /\ reaper[p] = NoTick
  /\ reaper' = [reaper EXCEPT ![p] = now]
  /\ UNCHANGED <<redisVars, now, call, wire, told>>

(* The call `run` makes for one member of the batch.                       *)
ReapCall(k, at) ==
  [action |-> "reap_batch", retry |-> FALSE, id |-> k[1], targets |-> {k[2]},
   at |-> at, body |-> NoBody]

(* The members of batch B that are reaped: the script goes through B by    *)
(* rising deadline, and the first member of an instance that `run` accepts *)
(* fails the instance, which refuses the others.                           *)
Reapable(B, at) == {k \in B : Outcome(ReapCall(k, at)) = "OK"}

(* Mutant: the batch is not ordered by deadline.                           *)
ReapChoicesUnordered(B, at) ==
  {W \in SUBSET Reapable(B, at) :
      \A k \in Reapable(B, at) :
        \E w \in W : w[1] = k[1] /\ \A v \in W : v[1] = k[1] => v = w}

ReapChoices(B, at) ==
  {W \in SUBSET Reapable(B, at) :
      \A k \in Reapable(B, at) :
        \E w \in W : /\ \A v \in W : v[1] = k[1] => v = w
                     /\ w[1] = k[1]
                     /\ deadlines[w] <= deadlines[k]}

(* Mutant: members whose document is gone stay.                            *)
UnresolvableKept(B, at) == {}

(* Members whose document is gone are dropped.  A member that `run`        *)
(* refuses for any other reason stays where it is.                         *)
Unresolvable(B, at) == {k \in B : Outcome(ReapCall(k, at)) = "NOT_FOUND"}

ReapBatch(at) ==
  \E B \in DueBatches(deadlines, at, BatchLimit) :
    \E W \in ReapChoices(B, at) :
      LET ended == {w[1] : w \in W}
      IN /\ states' = [id \in Instance |-> [i \in Task |->
                         IF <<id, i>> \in W THEN "FAILED" ELSE states[id][i]]]
         /\ inst' = [id \in Instance |->
                       IF id \in ended THEN "FAILED" ELSE inst[id]]
         /\ deadlines' = ZRem(deadlines, Unresolvable(B, at) \cup (ended \X Task))
         /\ webhooks' = ZAdd(webhooks, [k \in W |-> at])
         /\ archive' = ZAdd(archive, [id \in ended |-> at])
         /\ UNCHANGED payload

(* A tick whose reply is lost has run all the same.                        *)
ReapTick(p) ==
  /\ reaper[p] # NoTick
  /\ ReapBatch(reaper[p])
  /\ reaper' = [reaper EXCEPT ![p] = NoTick]
  /\ UNCHANGED <<now, call, wire, told>>

(* The tick's call never runs: a Redis error, or the process dies.         *)
ReapError(p) ==
  /\ reaper[p] # NoTick
  /\ reaper' = [reaper EXCEPT ![p] = NoTick]
  /\ UNCHANGED <<redisVars, now, call, wire, told>>

ClockTick ==
  /\ now < MaxTime
  /\ now' = now + 1
  /\ UNCHANGED <<redisVars, call, wire, reaper, told>>

Next ==
  \/ \E id \in Instance : StartInstance(id) \/ DeleteInstance(id)
  \/ \E r \in Call, action \in Action, retry \in BOOLEAN, id \in Instance,
        topic \in Topic, service \in Service, body \in Body :
       Report(r, action, retry, id, topic, service, body)
  \/ \E r \in Call : Answer(r) \/ SendFails(r) \/ Resend(r) \/ Error(r)
  \/ \E w \in wire : LateRun(w)
  \/ \E p \in Reaper : ReapRead(p) \/ ReapTick(p) \/ ReapError(p)
  \/ ClockTick

Spec == Init /\ [][Next]_vars

(* The clock advances; a reaper loop keeps ticking; and its calls do not   *)
(* all fail for ever (Redis comes back), so a tick that is possible again  *)
(* and again is made.                                                      *)
Fairness ==
  /\ WF_vars(ClockTick)
  /\ \A p \in Reaper : WF_vars(ReapRead(p)) /\ SF_vars(ReapTick(p))

FairSpec == Spec /\ Fairness

-----------------------------------------------------------------------------
(* T5: the deadline set and the documents agree after every script call.   *)
(* Exactly the PUBLISHED tasks of live instances have a deadline: a task   *)
(* that ended or a sibling of a failed task can no longer time out, and no *)
(* published task is forgotten, whichever handlers and reapers interleave. *)
DeadlineExact ==
  \A id \in Instance : inst[id] # "GONE" =>
    \A i \in Task : <<id, i>> \in DOMAIN deadlines
                      <=> Live(id) /\ states[id][i] = "PUBLISHED"

(* I1, I2, D1: an instance is COMPLETED exactly when all its tasks are and *)
(* FAILED exactly when one of them is, and then only one is: concurrent    *)
(* failures, reaped or reported, never fail a second task.                 *)
InstanceMatchesTasks ==
  \A id \in Instance : Exists(id) =>
    /\ inst[id] = "COMPLETED" <=> \A i \in Task : states[id][i] = "COMPLETED"
    /\ inst[id] = "FAILED" <=> \E i \in Task : states[id][i] = "FAILED"
    /\ \A i, j \in Task :
         states[id][i] = "FAILED" /\ states[id][j] = "FAILED" => i = j

(* I3, W1, A1: a terminal instance and no other is queued for archiving,   *)
(* and the failed task and no other is queued for its webhook: the jobs    *)
(* were written with the transition, and nothing queues them again.        *)
JobsMatchEnding ==
  \A id \in Instance : inst[id] # "GONE" =>
    /\ id \in DOMAIN archive <=> inst[id] \in Terminal
    /\ \A i \in Task : <<id, i>> \in DOMAIN webhooks <=>
                        Exists(id) /\ states[id][i] = "FAILED"

(* T2, T3, TO2: tasks sharing a topic are published by the same report.    *)
(* None stays PENDING when another has been published, and as long as two  *)
(* are waiting to be consumed they carry the same payload and deadlines    *)
(* that count from the same moment, retries included.                      *)
TopicMovesTogether ==
  \A id \in Instance : Exists(id) =>
    \A i, j \in Task : TopicOf[i] = TopicOf[j] =>
      /\ states[id][i] = "PENDING" <=> states[id][j] = "PENDING"
      /\ Live(id) /\ states[id][i] = "PUBLISHED" /\ states[id][j] = "PUBLISHED" =>
           /\ payload[id][i] = payload[id][j]
           /\ deadlines[<<id, i>>] - TimeoutOf[i] = deadlines[<<id, j>>] - TimeoutOf[j]

(* W2: the webhook of a failed task always has a payload to carry; a task  *)
(* has a payload exactly from its publication on.                          *)
PayloadPresent ==
  \A id \in Instance, i \in Task : Exists(id) =>
    (payload[id][i] = NoBody <=> states[id][i] = "PENDING")

(* T1, T4: what a 200 answer reported of a task is never contradicted: a   *)
(* task reported COMPLETED or FAILED is so for as long as its document     *)
(* exists, one reported PUBLISHED is never PENDING again.  With two        *)
(* racing reports, therefore, only one can have been told it won.          *)
AnswersStayTrue ==
  \A id \in Instance, i \in Task, s \in TaskState :
    <<<<id, i>>, s>> \in told /\ Exists(id) =>
      IF s \in Terminal THEN states[id][i] = s ELSE states[id][i] # "PENDING"

(* T1, I4, I5: nothing about a terminal instance changes again except by   *)
(* deleting it: no task state, no payload, no deadline, and no job with a  *)
(* new due time, whatever late report, retry or reaper tick still runs.    *)
TerminalFrozen ==
  [][\A id \in Instance :
       inst[id] \in Terminal /\ inst'[id] # "GONE" =>
         /\ inst'[id] = inst[id]
         /\ states'[id] = states[id]
         /\ payload'[id] = payload[id]
         /\ archive'[id] = archive[id]
         /\ \A i \in Task :
              /\ <<id, i>> \notin DOMAIN deadlines'
              /\ <<id, i>> \in DOMAIN webhooks <=> <<id, i>> \in DOMAIN webhooks'
              /\ <<id, i>> \in DOMAIN webhooks =>
                   webhooks'[<<id, i>>] = webhooks[<<id, i>>]]_vars

(* TO3: the reaper fails a task no earlier than the deadline the task has  *)
(* at that moment, and so not before a full timeout has passed since the   *)
(* publish that armed it; a tick that read its clock before a retried      *)
(* publish moved the deadline does not use the old one.                    *)
ReapedOnlyOverdue ==
  [][\A p \in Reaper : ReapTick(p) =>
       \A id \in Instance, i \in Task :
         states[id][i] # states'[id][i] => deadlines[<<id, i>>] <= now]_vars

(* The engine implements the contract: the documents are what they are, a  *)
(* deadline counts as long as its document exists, and the jobs owed are   *)
(* those ever queued.  Every step of a handler, a wire, a reaper or the    *)
(* clock is one step of the contract, or none.                             *)
LiveDeadlines ==
  [k \in {d \in DOMAIN deadlines : inst[d[1]] # "GONE"} |-> deadlines[k]]
JobsOwed == [archive |-> DOMAIN archive, webhook |-> DOMAIN webhooks]

Contract == INSTANCE SagaContract WITH due <- LiveDeadlines, owed <- JobsOwed

ImplementsContract == Contract!Spec

(* TO3, TO5: every deadline that the clock can reach is eventually spent,  *)
(* re-armed beyond the horizon of the model, or removed with its task, a   *)
(* batch limit smaller than the backlog, failed ticks and dropped members  *)
(* notwithstanding.                                                        *)
DeadlineResolved ==
  \A k \in TaskKey :
    (k \in DOMAIN deadlines /\ deadlines[k] <= MaxTime)
      ~> (k \notin DOMAIN deadlines \/ deadlines[k] > MaxTime)

-----------------------------------------------------------------------------
(* What api.md says of a refusal and the code does not do; TLC refutes it. *)

(* api.md:75: a 409 means "The state machine refuses it [...] The instance *)
(* is unchanged."  The client library re-sends a call whose reply was      *)
(* lost, so the refusal can be of the report's own first execution.        *)
RefusalMeansUnchanged ==
  [][\A r \in Call :
       Answer(r) /\ ~ Accepted(call[r].req) => ~ call[r].ran]_vars
=============================================================================
