------------------------ MODULE InstanceEngineProofs ------------------------
(***************************************************************************)
(* Proofs about InstanceEngine, for every workflow that Validate accepts   *)
(* and any number of instances, handlers, reapers and lost calls.          *)
(***************************************************************************)
EXTENDS InstanceEngine, WellFoundedInduction, TLAPS

USE DEF Terminal, InstanceState, TaskState, Action

-----------------------------------------------------------------------------
(* Type correctness.                                                       *)

(* The part of TypeOK about Redis.                                         *)
DataTypeOK ==
  /\ inst \in [Instance -> InstanceState \cup {"NONE", "GONE"}]
  /\ states \in [Instance -> [Task -> TaskState]]
  /\ payload \in [Instance -> [Task -> Body \cup {NoBody}]]
  /\ IsZSet(deadlines, TaskKey, Nat)
  /\ IsZSet(archive, Instance, Nat)
  /\ IsZSet(webhooks, TaskKey, Nat)

(* Every action has a defined target state.                                *)
LEMMA MovesToType ==
  ASSUME NEW a \in Action
  PROVE  MovesTo[a] \in TaskState
BY DEF MovesTo

(* What a writing script call does, member by member and task by task.     *)
Effect(m) ==
  /\ \A id \in Instance \ {m.id} :
       inst'[id] = inst[id] /\ states'[id] = states[id] /\ payload'[id] = payload[id]
  /\ inst'[m.id] = InstanceAfter(m)
  /\ \A i \in Task :
       /\ states'[m.id][i] = StatesAfter(m)[i]
       /\ payload'[m.id][i] = IF i \in Arming(m) THEN m.body ELSE payload[m.id][i]
  /\ DOMAIN deadlines' = (DOMAIN deadlines \ ({m.id} \X Disarming(m)))
                           \cup ({m.id} \X Arming(m))
  /\ \A i \in Arming(m) : deadlines'[<<m.id, i>>] = m.at + TimeoutOf[i]
  /\ \A k \in (DOMAIN deadlines \ ({m.id} \X Disarming(m))) \ ({m.id} \X Arming(m)) :
       deadlines'[k] = deadlines[k]
  /\ DOMAIN webhooks' = DOMAIN webhooks \cup ({m.id} \X Failing(m))
  /\ \A k \in DOMAIN webhooks \ ({m.id} \X Failing(m)) : webhooks'[k] = webhooks[k]
  /\ DOMAIN archive' = DOMAIN archive \cup Ending(m)
  /\ \A id \in DOMAIN archive \ Ending(m) : archive'[id] = archive[id]

(* A script call that writes has exactly this effect.                      *)
LEMMA RunEffect ==
  ASSUME DataTypeOK, NEW m \in Request, Run(m), Writes(m)
  PROVE  DataTypeOK' /\ Effect(m)
<1> DEFINE arm  == [k \in {m.id} \X Arming(m) |-> m.at + TimeoutOf[k[2]]]
           hook == [k \in {m.id} \X Failing(m) |-> m.at]
           arch == [id \in Ending(m) |-> m.at]
           kept == ZRem(deadlines, {m.id} \X Disarming(m))
           pay  == [i \in Task |-> IF i \in Arming(m) THEN m.body ELSE payload[m.id][i]]
<1>1. /\ states' = [states EXCEPT ![m.id] = StatesAfter(m)]
      /\ payload' = [payload EXCEPT ![m.id] = pay]
      /\ inst' = [inst EXCEPT ![m.id] = InstanceAfter(m)]
      /\ deadlines' = ZAdd(kept, arm)
      /\ webhooks' = ZAdd(webhooks, hook)
      /\ archive' = ZAdd(archive, arch)
  BY DEF Run
<1>2. m.id \in Instance /\ m.at \in Nat /\ m.body \in Body \cup {NoBody} /\ m.action \in Action
  BY DEF Request
<1>3. StatesAfter(m) \in [Task -> TaskState]
  BY <1>2, MovesToType DEF StatesAfter, DataTypeOK
<1>4. InstanceAfter(m) \in InstanceState \cup {"NONE", "GONE"}
  BY <1>2 DEF InstanceAfter, DataTypeOK
<1>5. Arming(m) \subseteq Task /\ Failing(m) \subseteq Task /\ Ending(m) \subseteq Instance
  BY <1>2 DEF Arming, Failing, Ending, Moving, Request
<1>6. pay \in [Task -> Body \cup {NoBody}]
  BY <1>2 DEF DataTypeOK
<1>7. IsZSet(arm, TaskKey, Nat) /\ DOMAIN arm = {m.id} \X Arming(m)
      /\ \A i \in Arming(m) : arm[<<m.id, i>>] = m.at + TimeoutOf[i]
  BY <1>2, <1>5, WorkflowValid DEF IsZSet, TaskKey
<1>8. IsZSet(hook, TaskKey, Nat) /\ DOMAIN hook = {m.id} \X Failing(m)
  BY <1>2, <1>5 DEF IsZSet, TaskKey
<1>9. IsZSet(arch, Instance, Nat) /\ DOMAIN arch = Ending(m)
  BY <1>2, <1>5 DEF IsZSet
<1> HIDE DEF arm, hook, arch, pay
<1>10. /\ IsZSet(kept, TaskKey, Nat)
       /\ DOMAIN kept = DOMAIN deadlines \ ({m.id} \X Disarming(m))
       /\ \A k \in DOMAIN deadlines \ ({m.id} \X Disarming(m)) : kept[k] = deadlines[k]
  <2>1. IsZSet(deadlines, TaskKey, Nat)  BY DEF DataTypeOK
  <2> QED BY ONLY <2>1 DEF kept, ZRem, IsZSet
<1> HIDE DEF kept
<1>11. /\ IsZSet(deadlines', TaskKey, Nat)
       /\ DOMAIN deadlines' = DOMAIN kept \cup DOMAIN arm
       /\ \A k \in DOMAIN arm : deadlines'[k] = arm[k]
       /\ \A k \in DOMAIN kept \ DOMAIN arm : deadlines'[k] = kept[k]
  BY ONLY <1>1, <1>7, <1>10 DEF ZAdd, IsZSet
<1>12. /\ IsZSet(webhooks', TaskKey, Nat)
       /\ DOMAIN webhooks' = DOMAIN webhooks \cup DOMAIN hook
       /\ \A k \in DOMAIN webhooks \ DOMAIN hook : webhooks'[k] = webhooks[k]
  <2>1. IsZSet(webhooks, TaskKey, Nat)  BY DEF DataTypeOK
  <2> QED BY ONLY <1>1, <1>8, <2>1 DEF ZAdd, IsZSet
<1>13. /\ IsZSet(archive', Instance, Nat)
       /\ DOMAIN archive' = DOMAIN archive \cup DOMAIN arch
       /\ \A k \in DOMAIN archive \ DOMAIN arch : archive'[k] = archive[k]
  <2>1. IsZSet(archive, Instance, Nat)  BY DEF DataTypeOK
  <2> QED BY ONLY <1>1, <1>9, <2>1 DEF ZAdd, IsZSet
<1>14. DataTypeOK'
  <2>1. inst' \in [Instance -> InstanceState \cup {"NONE", "GONE"}]
    BY <1>1, <1>4 DEF DataTypeOK
  <2>2. states' \in [Instance -> [Task -> TaskState]]
    BY <1>1, <1>3 DEF DataTypeOK
  <2>3. payload' \in [Instance -> [Task -> Body \cup {NoBody}]]
    BY <1>1, <1>6 DEF DataTypeOK
  <2> QED BY <2>1, <2>2, <2>3, <1>11, <1>12, <1>13 DEF DataTypeOK
<1>15. \A id \in Instance \ {m.id} :
         inst'[id] = inst[id] /\ states'[id] = states[id] /\ payload'[id] = payload[id]
  BY <1>1 DEF DataTypeOK
<1>16. /\ inst'[m.id] = InstanceAfter(m)
       /\ states'[m.id] = StatesAfter(m)
       /\ payload'[m.id] = pay
  BY <1>1, <1>2 DEF DataTypeOK
<1>17. \A i \in Task : pay[i] = IF i \in Arming(m) THEN m.body ELSE payload[m.id][i]
  BY DEF pay
<1>18. \A i \in Arming(m) : deadlines'[<<m.id, i>>] = m.at + TimeoutOf[i]
  BY <1>7, <1>11
<1>19. DOMAIN deadlines' = (DOMAIN deadlines \ ({m.id} \X Disarming(m)))
                              \cup ({m.id} \X Arming(m))
  BY <1>7, <1>10, <1>11
<1>20. \A k \in (DOMAIN deadlines \ ({m.id} \X Disarming(m))) \ ({m.id} \X Arming(m)) :
         deadlines'[k] = deadlines[k]
  BY <1>7, <1>10, <1>11
<1> QED
  BY <1>8, <1>9, <1>12, <1>13, <1>14, <1>15, <1>16, <1>17, <1>18, <1>19, <1>20 DEF Effect

(* One script call of a report leaves well-typed data behind.              *)
LEMMA RunType ==
  ASSUME DataTypeOK, NEW m \in Request, Run(m)
  PROVE  DataTypeOK'
<1>1. CASE ~ Writes(m)
  BY <1>1 DEF Run, redisVars, DataTypeOK
<1>2. CASE Writes(m)
  BY <1>2, RunEffect
<1> QED BY <1>1, <1>2

-----------------------------------------------------------------------------
(* The inductive invariant.                                                *)

(* A report in flight names at least one task of an existing or vanished   *)
(* instance: a publish all the tasks of one topic, a consume or a fail a   *)
(* single one, because no two tasks have the same topic and consumer.      *)
WellFormed(m) ==
  /\ m.targets # {}
  /\ m.action = "publish" =>
       /\ m.body \in Body
       /\ \E topic \in Topic : m.targets = {i \in Task : TopicOf[i] = topic}
  /\ m.action # "publish" => \E i \in Task : m.targets = {i}

Resolved(m) == inst[m.id] # "NONE" /\ WellFormed(m)

(* Instances that have not started have untouched documents.               *)
Fresh ==
  \A id \in Instance : inst[id] = "NONE" =>
    states[id] = AllPending /\ payload[id] = NoPayloads

DataInv ==
  /\ DataTypeOK
  /\ Fresh
  /\ DeadlineExact
  /\ InstanceMatchesTasks
  /\ JobsMatchEnding
  /\ TopicMovesTogether
  /\ PayloadPresent

(* The smallest refusing index is a refusing index.                        *)
LEMMA MinInSet ==
  ASSUME NEW S \in SUBSET Nat, S # {}
  PROVE  Min(S) \in S
<1>1. PICK x \in S : \A y \in S : ~ (<<y, x>> \in OpToRel(<, Nat))
  BY NatLessThanWellFounded, WFMin
<1>2. ASSUME NEW y \in S PROVE x =< y
  <2>1. <<y, x>> \in Nat \X Nat  OBVIOUS
  <2>2. <<y, x>> \notin {ss \in Nat \X Nat : ss[1] < ss[2]}  BY <1>1 DEF OpToRel
  <2> QED BY <2>1, <2>2
<1> QED BY <1>2 DEF Min

(* The transition table, row by row.                                       *)
LEMMA DecideTable ==
  ASSUME NEW retry \in BOOLEAN, NEW s \in TaskState
  PROVE  /\ Decide("publish", retry, s) = "OK" <=> s = "PENDING"
         /\ Decide("consume", retry, s) = "OK" <=> s = "PUBLISHED"
         /\ Decide("consume", retry, s) = "IDEMPOTENT" => s = "COMPLETED"
         /\ Decide("fail", retry, s) = "OK" <=> s = "PUBLISHED"
         /\ Decide("fail", retry, s) = "IDEMPOTENT" => s = "FAILED"
         /\ Decide("reap_batch", retry, s) = "OK" <=> s = "PUBLISHED"
BY DEF Decide, MovesFrom, Repeats, TaskAlready

(* An accepted call names an existing instance and no target refuses it.   *)
LEMMA AcceptedTargets ==
  ASSUME DataTypeOK, NEW m \in Request, Accepted(m)
  PROVE  /\ Exists(m.id)
         /\ \A i \in m.targets : Decision(m, i) \in {"OK", "IDEMPOTENT"}
<1>1. Exists(m.id)
  BY DEF Accepted, Outcome
<1>2. ASSUME Refusing(m) # {} PROVE FALSE
  <2>1. Refusing(m) \in SUBSET Nat
    BY WorkflowValid DEF Refusing, Request, Task
  <2>2. Min(Refusing(m)) \in Refusing(m)
    BY <1>2, <2>1, MinInSet
  <2>3. Outcome(m) = Decision(m, Min(Refusing(m)))
    BY <1>1, <1>2 DEF Outcome
  <2> QED BY <2>2, <2>3 DEF Refusing, Accepted
<1> QED BY <1>1, <1>2 DEF Refusing

(* A call that writes is on a live instance and none of its targets        *)
(* refuses.                                                                *)
LEMMA WritesMeansAccepted ==
  ASSUME DataTypeOK, NEW m \in Request, Writes(m)
  PROVE  /\ inst[m.id] = "PENDING"
         /\ \A i \in m.targets : Decision(m, i) \in {"OK", "IDEMPOTENT"}
BY AcceptedTargets DEF Writes, Live

(* A publish on a live instance never ends it: it arms its pending and     *)
(* published targets and nothing else.                                     *)
LEMMA PublishFacts ==
  ASSUME DataTypeOK, InstanceMatchesTasks, NEW m \in Request, Writes(m),
         m.action = "publish"
  PROVE  /\ \A i \in Task : i \in Moving(m) <=>
                i \in m.targets /\ states[m.id][i] = "PENDING"
         /\ \A i \in Task : i \in Arming(m) <=>
                i \in m.targets /\ states[m.id][i] \in {"PENDING", "PUBLISHED"}
         /\ \A i \in Task : StatesAfter(m)[i] =
                IF i \in Arming(m) THEN "PUBLISHED" ELSE states[m.id][i]
         /\ InstanceAfter(m) = "PENDING"
         /\ Arming(m) \subseteq Task
         /\ Disarming(m) = {} /\ Failing(m) = {} /\ Ending(m) = {}
<1>1. inst[m.id] = "PENDING" /\ m.id \in Instance /\ m.targets \subseteq Task /\ m.retry \in BOOLEAN
  BY WritesMeansAccepted DEF Request
<1>2. \A i \in Task : states[m.id][i] \in TaskState
  BY <1>1 DEF DataTypeOK
<1>3. MovesTo[m.action] = "PUBLISHED"
  BY DEF MovesTo
<1>4. \A i \in m.targets : Decision(m, i) = "OK" <=> states[m.id][i] = "PENDING"
  BY <1>1, <1>2, DecideTable DEF Decision
<1>5. /\ Moving(m) = {i \in m.targets : states[m.id][i] = "PENDING"}
      /\ Arming(m) = {i \in m.targets : states[m.id][i] \in {"PENDING", "PUBLISHED"}}
  BY <1>4 DEF Moving, Arming
<1>6. \A i \in Task : StatesAfter(m)[i] =
        IF i \in Arming(m) THEN "PUBLISHED" ELSE states[m.id][i]
  BY <1>3, <1>5 DEF StatesAfter
<1>7. \A i \in Task : states[m.id][i] # "FAILED"
  BY <1>1 DEF InstanceMatchesTasks, Exists
<1>8. InstanceAfter(m) = "PENDING"
  BY <1>1, <1>5, <1>6, <1>7 DEF InstanceAfter
<1>9. Disarming(m) = {} /\ Failing(m) = {} /\ Ending(m) = {}
  BY <1>3, <1>8 DEF Disarming, Failing, Ending
<1> QED BY <1>1, <1>5, <1>6, <1>8, <1>9

(* A consume on a live instance either repeats a consume, and moves        *)
(* nothing, or completes its one target; the instance completes with its   *)
(* last task.                                                              *)
LEMMA ConsumeFacts ==
  ASSUME DataTypeOK, InstanceMatchesTasks, NEW m \in Request, Writes(m),
         m.action = "consume", NEW t \in Task, m.targets = {t}
  PROVE  /\ Arming(m) = {} /\ Failing(m) = {}
         /\ \/ /\ states[m.id][t] = "COMPLETED"
               /\ Moving(m) = {} /\ Disarming(m) = {} /\ Ending(m) = {}
               /\ InstanceAfter(m) = "PENDING"
               /\ \A i \in Task : StatesAfter(m)[i] = states[m.id][i]
            \/ /\ states[m.id][t] = "PUBLISHED"
               /\ Moving(m) = {t} /\ Disarming(m) = {t}
               /\ \A i \in Task : StatesAfter(m)[i] =
                     IF i = t THEN "COMPLETED" ELSE states[m.id][i]
               /\ InstanceAfter(m) =
                    IF \A i \in Task : StatesAfter(m)[i] = "COMPLETED"
                    THEN "COMPLETED" ELSE "PENDING"
               /\ Ending(m) = IF InstanceAfter(m) = "COMPLETED" THEN {m.id} ELSE {}
<1>1. inst[m.id] = "PENDING" /\ m.id \in Instance /\ m.retry \in BOOLEAN
  BY WritesMeansAccepted DEF Request
<1>2. \A i \in Task : states[m.id][i] \in TaskState
  BY <1>1 DEF DataTypeOK
<1>3. MovesTo[m.action] = "COMPLETED"
  BY DEF MovesTo
<1>4. Decision(m, t) \in {"OK", "IDEMPOTENT"}
  BY WritesMeansAccepted
<1>5. \A i \in Task : states[m.id][i] # "FAILED"
  BY <1>1 DEF InstanceMatchesTasks, Exists
<1>6. Arming(m) = {} /\ Failing(m) = {}
  BY <1>3 DEF Arming, Failing
<1>7. CASE Decision(m, t) = "IDEMPOTENT"
  <2>1. states[m.id][t] = "COMPLETED"
    BY <1>1, <1>2, <1>7, DecideTable DEF Decision
  <2>2. Moving(m) = {}
    BY <1>7 DEF Moving
  <2> QED BY <1>1, <1>6, <2>1, <2>2 DEF Disarming, Ending, InstanceAfter, StatesAfter
<1>8. CASE Decision(m, t) = "OK"
  <2>1. states[m.id][t] = "PUBLISHED"
    BY <1>1, <1>2, <1>8, DecideTable DEF Decision
  <2>2. Moving(m) = {t}
    BY <1>8 DEF Moving
  <2>3. \A i \in Task : StatesAfter(m)[i] = IF i = t THEN "COMPLETED" ELSE states[m.id][i]
    BY <1>3, <2>2 DEF StatesAfter
  <2>4. InstanceAfter(m) = IF \A i \in Task : StatesAfter(m)[i] = "COMPLETED"
                           THEN "COMPLETED" ELSE "PENDING"
    BY <1>1, <1>5, <2>2, <2>3 DEF InstanceAfter
  <2>5. Disarming(m) = {t}
    BY <1>3, <2>2, <2>4 DEF Disarming
  <2>6. Ending(m) = IF InstanceAfter(m) = "COMPLETED" THEN {m.id} ELSE {}
    BY <2>4 DEF Ending
  <2> QED BY <1>6, <2>1, <2>2, <2>3, <2>4, <2>5, <2>6
<1> QED BY <1>4, <1>7, <1>8

(* A fail on a live instance always moves: it fails its one target and the *)
(* instance, and disarms every task.                                       *)
LEMMA FailFacts ==
  ASSUME DataTypeOK, InstanceMatchesTasks, NEW m \in Request, Writes(m),
         m.action = "fail", NEW t \in Task, m.targets = {t}
  PROVE  /\ Arming(m) = {} /\ Failing(m) = {t} /\ Moving(m) = {t}
         /\ states[m.id][t] = "PUBLISHED"
         /\ \A i \in Task : StatesAfter(m)[i] =
               IF i = t THEN "FAILED" ELSE states[m.id][i]
         /\ InstanceAfter(m) = "FAILED"
         /\ Disarming(m) = Task /\ Ending(m) = {m.id}
<1>1. inst[m.id] = "PENDING" /\ m.id \in Instance /\ m.retry \in BOOLEAN
  BY WritesMeansAccepted DEF Request
<1>2. \A i \in Task : states[m.id][i] \in TaskState
  BY <1>1 DEF DataTypeOK
<1>3. MovesTo[m.action] = "FAILED"
  BY DEF MovesTo
<1>4. Decision(m, t) \in {"OK", "IDEMPOTENT"}
  BY WritesMeansAccepted
<1>5. \A i \in Task : states[m.id][i] # "FAILED"
  BY <1>1 DEF InstanceMatchesTasks, Exists
<1>6. Decision(m, t) = "OK" /\ states[m.id][t] = "PUBLISHED"
  BY <1>1, <1>2, <1>4, <1>5, DecideTable DEF Decision
<1>7. Moving(m) = {t}
  BY <1>6 DEF Moving
<1>8. \A i \in Task : StatesAfter(m)[i] = IF i = t THEN "FAILED" ELSE states[m.id][i]
  BY <1>3, <1>7 DEF StatesAfter
<1>9. InstanceAfter(m) = "FAILED"
  BY <1>7, <1>8 DEF InstanceAfter
<1> QED
  BY <1>3, <1>6, <1>7, <1>8, <1>9 DEF Arming, Failing, Disarming, Ending

(* A script call touches only the instance it names.                       *)
LEMMA RunLeavesOthers ==
  ASSUME DataTypeOK, NEW m \in Request, Run(m), Writes(m),
         NEW id \in Instance, id # m.id
  PROVE  /\ inst'[id] = inst[id] /\ states'[id] = states[id] /\ payload'[id] = payload[id]
         /\ id \in DOMAIN archive' <=> id \in DOMAIN archive
         /\ \A i \in Task :
              /\ <<id, i>> \in DOMAIN deadlines' <=> <<id, i>> \in DOMAIN deadlines
              /\ <<id, i>> \in DOMAIN deadlines => deadlines'[<<id, i>>] = deadlines[<<id, i>>]
              /\ <<id, i>> \in DOMAIN webhooks' <=> <<id, i>> \in DOMAIN webhooks
<1>1. Effect(m)
  BY RunEffect
<1>2. id \notin Ending(m) /\ \A i \in Task, X \in {Arming(m), Disarming(m), Failing(m)} :
        <<id, i>> \notin {m.id} \X X
  BY DEF Ending
<1> QED BY <1>1, <1>2 DEF Effect

(* One script call of a report preserves the invariant, instance by        *)
(* instance: only the one it names changes, and for that one the cases are *)
(* the three actions.                                                      *)
LEMMA RunInv ==
  ASSUME DataInv, NEW m \in Request, Resolved(m), Run(m)
  PROVE  DataInv'
<1>1. CASE ~ Writes(m)
  BY <1>1 DEF Run, redisVars, DataInv, DataTypeOK, Fresh, DeadlineExact, InstanceMatchesTasks,
     JobsMatchEnding, TopicMovesTogether, PayloadPresent, Live, Exists
<1>2. CASE Writes(m)
  <2> USE <1>2
  <2>1. /\ DataTypeOK /\ Fresh /\ DeadlineExact /\ InstanceMatchesTasks
        /\ JobsMatchEnding /\ TopicMovesTogether /\ PayloadPresent
    BY DEF DataInv
  <2>2. m.id \in Instance /\ m.targets \subseteq Task /\ m.at \in Nat /\ m.action \in Action
    BY DEF Request
  <2>3. inst[m.id] = "PENDING"
    BY <2>1, WritesMeansAccepted
  <2>4. DataTypeOK'
    BY <2>1, RunEffect
  <2>5. ASSUME NEW id \in Instance, id # m.id, Exists(id)',
                NEW i \in Task, NEW j \in Task, TopicOf[i] = TopicOf[j]
         PROVE  /\ states'[id][i] = "PENDING" <=> states'[id][j] = "PENDING"
                /\ Live(id)' /\ states'[id][i] = "PUBLISHED" /\ states'[id][j] = "PUBLISHED" =>
                     /\ payload'[id][i] = payload'[id][j]
                     /\ deadlines'[<<id, i>>] - TimeoutOf[i] = deadlines'[<<id, j>>] - TimeoutOf[j]
    BY <2>1, <2>5, RunLeavesOthers DEF TopicMovesTogether, DeadlineExact, Exists, Live
  <2>6. CASE m.action = "publish"
    <3>1. PICK topic \in Topic : m.targets = {i \in Task : TopicOf[i] = topic}
      BY <2>6 DEF Resolved, WellFormed
    <3>2. m.body # NoBody
      BY <2>6, EngineAssumption DEF Resolved, WellFormed
    <3>3. /\ \A i \in Task : i \in Arming(m) <=>
                i \in m.targets /\ states[m.id][i] \in {"PENDING", "PUBLISHED"}
          /\ Arming(m) \subseteq Task
          /\ Failing(m) = {} /\ Ending(m) = {} /\ Disarming(m) = {}
          /\ \A i \in Task : states'[m.id][i] =
                IF i \in Arming(m) THEN "PUBLISHED" ELSE states[m.id][i]
          /\ \A i \in Task : payload'[m.id][i] =
                IF i \in Arming(m) THEN m.body ELSE payload[m.id][i]
          /\ inst'[m.id] = "PENDING"
      <4>1. Effect(m)  BY <2>1, RunEffect
      <4> QED BY <2>1, <2>6, <4>1, PublishFacts DEF Effect
    <3>4. /\ \A i \in Task : <<m.id, i>> \in DOMAIN deadlines' <=>
                 <<m.id, i>> \in DOMAIN deadlines \/ i \in Arming(m)
          /\ \A i \in Arming(m) : deadlines'[<<m.id, i>>] = m.at + TimeoutOf[i]
          /\ \A i \in Task \ Arming(m) : <<m.id, i>> \in DOMAIN deadlines =>
                 deadlines'[<<m.id, i>>] = deadlines[<<m.id, i>>]
      <4>1. Effect(m)  BY <2>1, RunEffect
      <4> QED BY <3>3, <4>1 DEF Effect
    <3>5. DOMAIN webhooks' = DOMAIN webhooks /\ DOMAIN archive' = DOMAIN archive
      BY <2>1, <3>3, RunEffect DEF Effect
    <3>6. Fresh'
      BY <2>1, <3>3, RunLeavesOthers DEF Fresh
    <3>7. DeadlineExact'
      BY <2>1, <2>2, <2>3, <3>3, <3>4, RunLeavesOthers DEF DeadlineExact, Live
    <3>8. InstanceMatchesTasks'
      <4> SUFFICES ASSUME NEW id \in Instance, id = m.id
                   PROVE  /\ \E i \in Task : states'[id][i] # "COMPLETED"
                          /\ \A i \in Task : states'[id][i] # "FAILED"
        BY <2>1, <3>3, RunLeavesOthers DEF InstanceMatchesTasks, Exists
      <4> QED BY <2>1, <2>2, <2>3, <3>3 DEF InstanceMatchesTasks, Exists
    <3>9. JobsMatchEnding'
      BY <2>1, <2>2, <2>3, <3>3, <3>5, RunLeavesOthers DEF JobsMatchEnding, Exists
    <3>10. TopicMovesTogether'
      <4>1. ASSUME NEW i \in Task, NEW j \in Task, TopicOf[i] = TopicOf[j]
            PROVE  /\ states'[m.id][i] = "PENDING" <=> states'[m.id][j] = "PENDING"
                   /\ states'[m.id][i] = "PUBLISHED" /\ states'[m.id][j] = "PUBLISHED" =>
                        /\ payload'[m.id][i] = payload'[m.id][j]
                        /\ deadlines'[<<m.id, i>>] - TimeoutOf[i] = deadlines'[<<m.id, j>>] - TimeoutOf[j]
        <5>1. i \in m.targets <=> j \in m.targets
          BY <3>1, <4>1
        <5>2. states[m.id][i] = "PENDING" <=> states[m.id][j] = "PENDING"
          BY <2>1, <2>2, <2>3, <4>1 DEF TopicMovesTogether, Exists
        <5>3. states'[m.id][i] = "PENDING" <=> states'[m.id][j] = "PENDING"
          BY <3>3, <5>1, <5>2
        <5>4. CASE i \in m.targets
          BY <5>1, <5>4, <3>3, <3>4, <5>3, <2>2, WorkflowValid
        <5>5. CASE i \notin m.targets
          <6>1. i \notin Arming(m) /\ j \notin Arming(m)
            BY <5>1, <5>5, <3>3
          <6>2. states[m.id][i] = "PUBLISHED" /\ states[m.id][j] = "PUBLISHED" =>
                  /\ <<m.id, i>> \in DOMAIN deadlines /\ <<m.id, j>> \in DOMAIN deadlines
                  /\ payload[m.id][i] = payload[m.id][j]
                  /\ deadlines[<<m.id, i>>] - TimeoutOf[i] = deadlines[<<m.id, j>>] - TimeoutOf[j]
            BY <2>1, <2>2, <2>3, <4>1 DEF TopicMovesTogether, DeadlineExact, Exists, Live
          <6> QED BY <6>1, <6>2, <3>3, <3>4, <5>3
        <5> QED BY <5>4, <5>5
      <4> QED BY <2>5, <4>1 DEF TopicMovesTogether
    <3>11. PayloadPresent'
      BY <2>1, <2>2, <2>3, <3>2, <3>3, RunLeavesOthers DEF PayloadPresent, Exists
    <3> QED BY <2>4, <3>6, <3>7, <3>8, <3>9, <3>10, <3>11 DEF DataInv
  <2>7. CASE m.action = "consume"
    <3>1. PICK t \in Task : m.targets = {t}
      BY <2>7 DEF Resolved, WellFormed
    <3>2. Effect(m)
      BY <2>1, RunEffect
    <3>3. /\ Arming(m) = {} /\ Failing(m) = {}
          /\ \/ /\ Disarming(m) = {} /\ Ending(m) = {}
                /\ inst'[m.id] = "PENDING"
                /\ \A i \in Task : states'[m.id][i] = states[m.id][i]
             \/ /\ states[m.id][t] = "PUBLISHED" /\ Disarming(m) = {t}
                /\ \A i \in Task : states'[m.id][i] = IF i = t THEN "COMPLETED" ELSE states[m.id][i]
                /\ inst'[m.id] = IF \A i \in Task : states'[m.id][i] = "COMPLETED"
                                 THEN "COMPLETED" ELSE "PENDING"
                /\ Ending(m) = IF inst'[m.id] = "COMPLETED" THEN {m.id} ELSE {}
      BY <2>1, <2>7, <3>1, <3>2, ConsumeFacts DEF Effect
    <3>4. /\ \A i \in Task : <<m.id, i>> \in DOMAIN deadlines' <=>
                 <<m.id, i>> \in DOMAIN deadlines /\ i \notin Disarming(m)
          /\ \A i \in Task : <<m.id, i>> \in DOMAIN deadlines' =>
                 deadlines'[<<m.id, i>>] = deadlines[<<m.id, i>>]
          /\ \A i \in Task : payload'[m.id][i] = payload[m.id][i]
          /\ DOMAIN webhooks' = DOMAIN webhooks
          /\ DOMAIN archive' = DOMAIN archive \cup Ending(m)
      BY <3>2, <3>3 DEF Effect
    <3>5. \A i \in Task : states[m.id][i] \in TaskState /\ states[m.id][i] # "FAILED"
      BY <2>1, <2>2, <2>3 DEF DataTypeOK, InstanceMatchesTasks, Exists
    <3>6. Fresh'
      BY <2>1, <3>3, RunLeavesOthers DEF Fresh
    <3>7. DeadlineExact'
      <4>1. \A i \in Task : <<m.id, i>> \in DOMAIN deadlines <=> states[m.id][i] = "PUBLISHED"
        BY <2>1, <2>2, <2>3 DEF DeadlineExact, Live
      <4>2. \A i \in Task : <<m.id, i>> \in DOMAIN deadlines' <=>
               inst'[m.id] = "PENDING" /\ states'[m.id][i] = "PUBLISHED"
        BY <3>3, <3>4, <3>5, <4>1
      <4> QED BY <2>1, <4>2, RunLeavesOthers DEF DeadlineExact, Live
    <3>8. InstanceMatchesTasks'
      <4>1. /\ inst'[m.id] \in {"PENDING", "COMPLETED"}
            /\ inst'[m.id] = "COMPLETED" <=> \A i \in Task : states'[m.id][i] = "COMPLETED"
            /\ \A i \in Task : states'[m.id][i] # "FAILED"
        BY <2>1, <2>2, <2>3, <3>3, <3>5 DEF InstanceMatchesTasks, Exists
      <4> QED BY <2>1, <4>1, RunLeavesOthers DEF InstanceMatchesTasks, Exists
    <3>9. JobsMatchEnding'
      <4>1. m.id \in DOMAIN archive' <=> inst'[m.id] \in Terminal
        BY <2>1, <2>2, <2>3, <3>3, <3>4 DEF JobsMatchEnding
      <4>2. \A i \in Task : states'[m.id][i] # "FAILED" /\ <<m.id, i>> \notin DOMAIN webhooks'
        BY <2>1, <2>2, <2>3, <3>3, <3>4, <3>5 DEF JobsMatchEnding
      <4> QED BY <2>1, <4>1, <4>2, RunLeavesOthers DEF JobsMatchEnding, Exists
    <3>10. TopicMovesTogether'
      <4>1. ASSUME NEW i \in Task, NEW j \in Task, TopicOf[i] = TopicOf[j]
            PROVE  /\ states'[m.id][i] = "PENDING" <=> states'[m.id][j] = "PENDING"
                   /\ Live(m.id)' /\ states'[m.id][i] = "PUBLISHED" /\ states'[m.id][j] = "PUBLISHED" =>
                        /\ payload'[m.id][i] = payload'[m.id][j]
                        /\ deadlines'[<<m.id, i>>] - TimeoutOf[i] = deadlines'[<<m.id, j>>] - TimeoutOf[j]
        <5>1. /\ states[m.id][i] = "PENDING" <=> states[m.id][j] = "PENDING"
              /\ states[m.id][i] = "PUBLISHED" /\ states[m.id][j] = "PUBLISHED" =>
                  /\ <<m.id, i>> \in DOMAIN deadlines /\ <<m.id, j>> \in DOMAIN deadlines
                  /\ payload[m.id][i] = payload[m.id][j]
                  /\ deadlines[<<m.id, i>>] - TimeoutOf[i] = deadlines[<<m.id, j>>] - TimeoutOf[j]
          BY <2>1, <2>2, <2>3, <4>1 DEF TopicMovesTogether, DeadlineExact, Exists, Live
        <5> QED BY <3>3, <3>4, <5>1
      <4> QED BY <2>5, <4>1 DEF TopicMovesTogether
    <3>11. PayloadPresent'
      <4>1. \A i \in Task : payload'[m.id][i] = NoBody <=> states'[m.id][i] = "PENDING"
        BY <2>1, <2>2, <2>3, <3>3, <3>4 DEF PayloadPresent, Exists
      <4> QED BY <2>1, <4>1, RunLeavesOthers DEF PayloadPresent, Exists
    <3> QED BY <2>4, <3>6, <3>7, <3>8, <3>9, <3>10, <3>11 DEF DataInv
  <2>8. CASE m.action = "fail"
    <3>1. PICK t \in Task : m.targets = {t}
      BY <2>8 DEF Resolved, WellFormed
    <3>2. Effect(m)
      BY <2>1, RunEffect
    <3>3. /\ Arming(m) = {} /\ Failing(m) = {t} /\ Disarming(m) = Task /\ Ending(m) = {m.id}
          /\ states[m.id][t] = "PUBLISHED"
          /\ \A i \in Task : states'[m.id][i] = IF i = t THEN "FAILED" ELSE states[m.id][i]
          /\ inst'[m.id] = "FAILED"
      BY <2>1, <2>8, <3>1, <3>2, FailFacts DEF Effect
    <3>4. /\ \A i \in Task : <<m.id, i>> \notin DOMAIN deadlines'
          /\ \A i \in Task : payload'[m.id][i] = payload[m.id][i]
          /\ \A i \in Task : <<m.id, i>> \in DOMAIN webhooks' <=>
                 <<m.id, i>> \in DOMAIN webhooks \/ i = t
          /\ m.id \in DOMAIN archive'
      BY <3>2, <3>3 DEF Effect
    <3>5. \A i \in Task : states[m.id][i] # "FAILED" /\ <<m.id, i>> \notin DOMAIN webhooks
      BY <2>1, <2>2, <2>3 DEF JobsMatchEnding, InstanceMatchesTasks, Exists
    <3>6. Fresh'
      BY <2>1, <3>3, RunLeavesOthers DEF Fresh
    <3>7. DeadlineExact'
      BY <2>1, <3>3, <3>4, RunLeavesOthers DEF DeadlineExact, Live
    <3>8. InstanceMatchesTasks'
      <4>1. /\ \E i \in Task : states'[m.id][i] = "FAILED"
            /\ \A i \in Task : states'[m.id][i] = "FAILED" => i = t
        BY <3>3, <3>5
      <4> QED BY <2>1, <3>3, <4>1, RunLeavesOthers DEF InstanceMatchesTasks, Exists
    <3>9. JobsMatchEnding'
      <4>1. \A i \in Task : <<m.id, i>> \in DOMAIN webhooks' <=> states'[m.id][i] = "FAILED"
        BY <3>3, <3>4, <3>5
      <4> QED BY <2>1, <3>3, <3>4, <4>1, RunLeavesOthers DEF JobsMatchEnding, Exists
    <3>10. TopicMovesTogether'
      <4>1. ASSUME NEW i \in Task, NEW j \in Task, TopicOf[i] = TopicOf[j]
            PROVE  states'[m.id][i] = "PENDING" <=> states'[m.id][j] = "PENDING"
        <5>1. states[m.id][i] = "PENDING" <=> states[m.id][j] = "PENDING"
          BY <2>1, <2>2, <2>3, <4>1 DEF TopicMovesTogether, Exists
        <5>2. (states[m.id][j] # "PENDING" /\ states[m.id][i] # "PENDING") \/ (i # t /\ j # t)
          BY <3>3, <5>1
        <5> QED BY <3>3, <5>1, <5>2
      <4>2. ~ Live(m.id)'
        BY <3>3 DEF Live
      <4> QED BY <2>5, <4>1, <4>2 DEF TopicMovesTogether
    <3>11. PayloadPresent'
      <4>1. \A i \in Task : payload'[m.id][i] = NoBody <=> states'[m.id][i] = "PENDING"
        BY <2>1, <2>2, <2>3, <3>3, <3>4 DEF PayloadPresent, Exists
      <4> QED BY <2>1, <4>1, RunLeavesOthers DEF PayloadPresent, Exists
    <3> QED BY <2>4, <3>6, <3>7, <3>8, <3>9, <3>10, <3>11 DEF DataInv
  <2> QED BY <2>2, <2>6, <2>7, <2>8
<1> QED BY <1>1, <1>2

(* A member is reaped only if its task is PUBLISHED and its instance live, *)
(* and dropped only if there is no document.                               *)
LEMMA ReapOutcome ==
  ASSUME DataTypeOK, NEW k \in TaskKey, NEW at \in Nat
  PROVE  /\ Outcome(ReapCall(k, at)) = "OK" =>
              inst[k[1]] = "PENDING" /\ states[k[1]][k[2]] = "PUBLISHED"
         /\ Outcome(ReapCall(k, at)) = "NOT_FOUND" => inst[k[1]] \in {"NONE", "GONE"}
<1> DEFINE m == ReapCall(k, at)
<1>1. /\ m.id = k[1] /\ m.targets = {k[2]} /\ m.action = "reap_batch" /\ m.retry = FALSE
      /\ k[1] \in Instance /\ k[2] \in Task
  BY DEF ReapCall, TaskKey
<1> HIDE DEF m
<1>2. inst[k[1]] \in InstanceState \cup {"NONE", "GONE"} /\ states[k[1]][k[2]] \in TaskState
  BY <1>1 DEF DataTypeOK
<1>3. Decision(m, k[2]) = Decide("reap_batch", FALSE, states[k[1]][k[2]])
  BY <1>1 DEF Decision
<1>4. Decision(m, k[2]) = "OK" => states[k[1]][k[2]] = "PUBLISHED"
  BY <1>2, <1>3, DecideTable
<1>5. Decision(m, k[2]) # "NOT_FOUND"
  BY <1>2, <1>3 DEF Decide, MovesFrom, Repeats, TaskAlready
<1>6. CASE ~ Exists(k[1])
  BY <1>1, <1>2, <1>6 DEF Outcome, Exists, m
<1>7. CASE Exists(k[1]) /\ Refusing(m) # {}
  <2>1. Refusing(m) \in SUBSET Nat /\ Refusing(m) \subseteq {k[2]}
    BY <1>1, WorkflowValid DEF Refusing, Task
  <2>2. Min(Refusing(m)) = k[2] /\ k[2] \in Refusing(m)
    BY <1>7, <2>1, MinInSet
  <2>3. Outcome(m) = Decision(m, k[2])
    BY <1>1, <1>7, <2>2 DEF Outcome
  <2> QED BY <1>5, <2>2, <2>3 DEF Refusing, m
<1>8. CASE Exists(k[1]) /\ Refusing(m) = {}
  <2>1. Outcome(m) = "OK" => Moving(m) # {} /\ inst[m.id] \notin Terminal
    BY <1>1, <1>8 DEF Outcome
  <2>2. Moving(m) # {} => Decision(m, k[2]) = "OK"
    BY <1>1 DEF Moving
  <2>3. Outcome(m) # "NOT_FOUND"
    BY <1>1, <1>8 DEF Outcome
  <2> QED BY <1>1, <1>4, <1>8, <2>1, <2>2, <2>3 DEF Exists, m
<1> QED BY <1>6, <1>7, <1>8

(* What one reap_batch call does, given the members it reaps (W) and the   *)
(* members it drops (D): it fails one published task of each instance it   *)
(* reaps, and nothing of any other instance.                               *)
ReapEffect(W, D) ==
  /\ W \subseteq TaskKey /\ D \subseteq TaskKey
  /\ \A w \in W : inst[w[1]] = "PENDING" /\ states[w[1]][w[2]] = "PUBLISHED"
                  /\ w \in DOMAIN deadlines
  /\ \A v, w \in W : v[1] = w[1] => v = w
  /\ \A k \in D : inst[k[1]] \in {"NONE", "GONE"}
  /\ payload' = payload
  /\ \A id \in Instance :
       /\ (\A i \in Task : <<id, i>> \notin W) =>
            /\ inst'[id] = inst[id] /\ states'[id] = states[id]
            /\ id \in DOMAIN archive' <=> id \in DOMAIN archive
            /\ id \in DOMAIN archive => archive'[id] = archive[id]
            /\ \A i \in Task :
                 /\ <<id, i>> \in DOMAIN webhooks' <=> <<id, i>> \in DOMAIN webhooks
                 /\ <<id, i>> \in DOMAIN deadlines' <=> <<id, i>> \in DOMAIN deadlines \ D
                 /\ <<id, i>> \in DOMAIN deadlines' =>
                      deadlines'[<<id, i>>] = deadlines[<<id, i>>]
       /\ \A t \in Task : <<id, t>> \in W =>
            /\ inst'[id] = "FAILED" /\ id \in DOMAIN archive'
            /\ \A i \in Task :
                 /\ states'[id][i] = IF i = t THEN "FAILED" ELSE states[id][i]
                 /\ <<id, i>> \in DOMAIN webhooks' <=> <<id, i>> \in DOMAIN webhooks \/ i = t
                 /\ <<id, i>> \notin DOMAIN deadlines'
  /\ \A k \in DOMAIN webhooks \ W : webhooks'[k] = webhooks[k]

(* A reap_batch call has this effect for some W and D.                     *)
LEMMA ReapBatchEffect ==
  ASSUME DataTypeOK, NEW at \in Nat, ReapBatch(at)
  PROVE  /\ DataTypeOK'
         /\ \E W, D \in SUBSET DOMAIN deadlines :
              ReapEffect(W, D) /\ \A w \in W : deadlines[w] <= at
<1>1. PICK B \in DueBatches(deadlines, at, BatchLimit) :
        \E W \in ReapChoices(B, at) :
          LET ended == {w[1] : w \in W}
          IN /\ states' = [id \in Instance |-> [i \in Task |->
                             IF <<id, i>> \in W THEN "FAILED" ELSE states[id][i]]]
             /\ inst' = [id \in Instance |->
                           IF id \in ended THEN "FAILED" ELSE inst[id]]
             /\ deadlines' = ZRem(deadlines, Unresolvable(B, at) \cup (ended \X Task))
             /\ webhooks' = ZAdd(webhooks, [k \in W |-> at])
             /\ archive' = ZAdd(archive, [id \in ended |-> at])
             /\ UNCHANGED payload
  BY DEF ReapBatch
<1>2. PICK W \in ReapChoices(B, at) :
          /\ states' = [id \in Instance |-> [i \in Task |->
                             IF <<id, i>> \in W THEN "FAILED" ELSE states[id][i]]]
          /\ inst' = [id \in Instance |->
                           IF id \in {w[1] : w \in W} THEN "FAILED" ELSE inst[id]]
          /\ deadlines' = ZRem(deadlines, Unresolvable(B, at) \cup ({w[1] : w \in W} \X Task))
          /\ webhooks' = ZAdd(webhooks, [k \in W |-> at])
          /\ archive' = ZAdd(archive, [id \in {w[1] : w \in W} |-> at])
          /\ payload' = payload
  BY <1>1
<1> DEFINE D == Unresolvable(B, at)
           ended == {w[1] : w \in W}
<1>3. /\ B \subseteq DOMAIN deadlines /\ DOMAIN deadlines \subseteq TaskKey
      /\ \A k \in B : deadlines[k] <= at
  BY DEF DueBatches, Due, DataTypeOK, IsZSet
<1>4. W \subseteq B /\ \A w \in W : Outcome(ReapCall(w, at)) = "OK"
  BY DEF ReapChoices, Reapable
<1>5. \A w \in W : inst[w[1]] = "PENDING" /\ states[w[1]][w[2]] = "PUBLISHED"
  BY <1>3, <1>4, ReapOutcome
<1>6. D \subseteq B /\ \A k \in D : inst[k[1]] \in {"NONE", "GONE"}
  BY <1>3, ReapOutcome DEF Unresolvable
<1>7. ASSUME NEW v \in W, NEW w \in W, v[1] = w[1] PROVE v = w
  <2>1. w \in Reapable(B, at)
    BY <1>4 DEF Reapable
  <2>2. PICK u \in W : \A x \in W : x[1] = w[1] => x = u
    BY <2>1 DEF ReapChoices
  <2> QED BY <1>7, <2>2
<1>8. W \subseteq TaskKey /\ ended \subseteq Instance
      /\ \A w \in W : w = <<w[1], w[2]>> /\ w[1] \in Instance /\ w[2] \in Task
  BY <1>3, <1>4 DEF TaskKey
<1>9. \A id \in Instance : id \in ended <=> \E t \in Task : <<id, t>> \in W
  BY <1>8
<1> HIDE DEF D, ended
<1>10. /\ states' = [id \in Instance |-> [i \in Task |->
                        IF <<id, i>> \in W THEN "FAILED" ELSE states[id][i]]]
       /\ inst' = [id \in Instance |-> IF id \in ended THEN "FAILED" ELSE inst[id]]
       /\ payload' = payload
       /\ deadlines' = ZRem(deadlines, D \cup (ended \X Task))
       /\ webhooks' = ZAdd(webhooks, [k \in W |-> at])
       /\ archive' = ZAdd(archive, [id \in ended |-> at])
  BY <1>2 DEF D, ended
<1>11. /\ IsZSet(deadlines', TaskKey, Nat)
       /\ DOMAIN deadlines' = DOMAIN deadlines \ (D \cup (ended \X Task))
       /\ \A k \in DOMAIN deadlines' : deadlines'[k] = deadlines[k]
  <2>1. IsZSet(deadlines, TaskKey, Nat)  BY DEF DataTypeOK
  <2> QED BY ONLY <1>10, <2>1 DEF ZRem, IsZSet
<1>12. /\ IsZSet(webhooks', TaskKey, Nat)
       /\ DOMAIN webhooks' = DOMAIN webhooks \cup W
       /\ \A k \in DOMAIN webhooks \ W : webhooks'[k] = webhooks[k]
  <2>1. IsZSet(webhooks, TaskKey, Nat)  BY DEF DataTypeOK
  <2> QED BY ONLY <1>8, <1>10, <2>1, at \in Nat DEF ZAdd, IsZSet
<1>13. /\ IsZSet(archive', Instance, Nat)
       /\ DOMAIN archive' = DOMAIN archive \cup ended
       /\ \A id \in DOMAIN archive \ ended : archive'[id] = archive[id]
  <2>1. IsZSet(archive, Instance, Nat)  BY DEF DataTypeOK
  <2> QED BY ONLY <1>8, <1>10, <2>1, at \in Nat DEF ZAdd, IsZSet
<1>14. DataTypeOK'
  <2>1. inst' \in [Instance -> InstanceState \cup {"NONE", "GONE"}]
    BY <1>10 DEF DataTypeOK
  <2>2. states' \in [Instance -> [Task -> TaskState]]
    BY <1>10 DEF DataTypeOK
  <2> QED BY <1>10, <1>11, <1>12, <1>13, <2>1, <2>2 DEF DataTypeOK
<1>15. ReapEffect(W, D)
  <2>1. ASSUME NEW id \in Instance, \A i \in Task : <<id, i>> \notin W
        PROVE  /\ inst'[id] = inst[id] /\ states'[id] = states[id]
               /\ id \in DOMAIN archive' <=> id \in DOMAIN archive
               /\ id \in DOMAIN archive => archive'[id] = archive[id]
               /\ \A i \in Task :
                    /\ <<id, i>> \in DOMAIN webhooks' <=> <<id, i>> \in DOMAIN webhooks
                    /\ <<id, i>> \in DOMAIN deadlines' <=> <<id, i>> \in DOMAIN deadlines \ D
                    /\ <<id, i>> \in DOMAIN deadlines' =>
                         deadlines'[<<id, i>>] = deadlines[<<id, i>>]
    <3>1. id \notin ended
      BY <1>9, <2>1
    <3>2. inst'[id] = inst[id] /\ states'[id] = states[id]
      BY <1>10, <2>1, <3>1 DEF DataTypeOK
    <3> QED BY <1>11, <1>12, <1>13, <2>1, <3>1, <3>2
  <2>2. ASSUME NEW id \in Instance, NEW t \in Task, <<id, t>> \in W
        PROVE  /\ inst'[id] = "FAILED" /\ id \in DOMAIN archive'
               /\ \A i \in Task :
                    /\ states'[id][i] = IF i = t THEN "FAILED" ELSE states[id][i]
                    /\ <<id, i>> \in DOMAIN webhooks' <=> <<id, i>> \in DOMAIN webhooks \/ i = t
                    /\ <<id, i>> \notin DOMAIN deadlines'
    <3>1. id \in ended
      BY <1>9, <2>2
    <3>2. \A i \in Task : <<id, i>> \in W <=> i = t
      BY <1>7, <2>2
    <3> QED BY <1>10, <1>11, <1>12, <1>13, <3>1, <3>2
  <2> QED
    BY <1>3, <1>4, <1>5, <1>6, <1>7, <1>8, <1>10, <1>12, <2>1, <2>2 DEF ReapEffect
<1> QED BY <1>3, <1>4, <1>6, <1>14, <1>15

(* What happens to the instance of a reaped task.                          *)
TaskReaped(id, t) ==
  /\ inst[id] = "PENDING" /\ states[id][t] = "PUBLISHED"
  /\ inst'[id] = "FAILED" /\ id \in DOMAIN archive' /\ payload' = payload
  /\ \A i \in Task :
       /\ states'[id][i] = IF i = t THEN "FAILED" ELSE states[id][i]
       /\ <<id, i>> \in DOMAIN webhooks' <=> <<id, i>> \in DOMAIN webhooks \/ i = t

(* A member that is reaped fails its task and its instance.                *)
LEMMA ReapedTask ==
  ASSUME NEW W, NEW D, ReapEffect(W, D),
         NEW id \in Instance, NEW t \in Task, <<id, t>> \in W
  PROVE  TaskReaped(id, t)
<1> DEFINE w == <<id, t>>
<1>1. inst[w[1]] = "PENDING" /\ states[w[1]][w[2]] = "PUBLISHED"
  BY DEF ReapEffect
<1>2. /\ inst'[id] = "FAILED" /\ id \in DOMAIN archive'
      /\ \A i \in Task :
           /\ states'[id][i] = IF i = t THEN "FAILED" ELSE states[id][i]
           /\ <<id, i>> \in DOMAIN webhooks' <=> <<id, i>> \in DOMAIN webhooks \/ i = t
  BY DEF ReapEffect
<1>3. payload' = payload
  BY DEF ReapEffect
<1> QED BY <1>1, <1>2, <1>3 DEF TaskReaped

(* One reap_batch call preserves the invariant.                            *)
LEMMA ReapInv ==
  ASSUME DataInv, NEW at \in Nat, ReapBatch(at)
  PROVE  DataInv'
<1>1. /\ DataTypeOK /\ Fresh /\ DeadlineExact /\ InstanceMatchesTasks
      /\ JobsMatchEnding /\ TopicMovesTogether /\ PayloadPresent
  BY DEF DataInv
<1>2. DataTypeOK'
  BY <1>1, ReapBatchEffect
<1>3. PICK W, D \in SUBSET DOMAIN deadlines : ReapEffect(W, D)
  BY <1>1, ReapBatchEffect
<1>4. ASSUME NEW id \in Instance
      PROVE  \/ \A i \in Task : <<id, i>> \notin W
             \/ \E t \in Task : <<id, t>> \in W /\ inst[id] = "PENDING" /\ inst'[id] = "FAILED"
                               /\ states[id][t] = "PUBLISHED"
  BY <1>3 DEF ReapEffect
<1>5. Fresh'
  BY <1>1, <1>3, <1>4 DEF Fresh, ReapEffect
<1>6. DeadlineExact'
  <2> SUFFICES ASSUME NEW id \in Instance, inst'[id] # "GONE", NEW i \in Task
               PROVE  <<id, i>> \in DOMAIN deadlines'
                        <=> inst'[id] = "PENDING" /\ states'[id][i] = "PUBLISHED"
    BY DEF DeadlineExact, Live
  <2>1. CASE \A t \in Task : <<id, t>> \notin W
    <3>1. /\ inst'[id] = inst[id] /\ states'[id] = states[id]
          /\ <<id, i>> \in DOMAIN deadlines' <=> <<id, i>> \in DOMAIN deadlines \ D
          /\ <<id, i>> \in D => inst[id] = "NONE"
      BY <1>3, <2>1 DEF ReapEffect
    <3> QED BY <1>1, <3>1 DEF DeadlineExact, Live
  <2>2. CASE \E t \in Task : <<id, t>> \in W
    BY <1>3, <2>2 DEF ReapEffect
  <2> QED BY <2>1, <2>2
<1>7. InstanceMatchesTasks'
  <2> SUFFICES ASSUME NEW id \in Instance, Exists(id)'
               PROVE  /\ inst'[id] = "COMPLETED" <=> \A i \in Task : states'[id][i] = "COMPLETED"
                      /\ inst'[id] = "FAILED" <=> \E i \in Task : states'[id][i] = "FAILED"
                      /\ \A i, j \in Task :
                           states'[id][i] = "FAILED" /\ states'[id][j] = "FAILED" => i = j
    BY DEF InstanceMatchesTasks
  <2>1. CASE \A t \in Task : <<id, t>> \notin W
    <3>1. inst'[id] = inst[id] /\ states'[id] = states[id]
      BY <1>3, <2>1 DEF ReapEffect
    <3> QED BY <1>1, <3>1 DEF InstanceMatchesTasks, Exists
  <2>2. ASSUME NEW t \in Task, <<id, t>> \in W
        PROVE  /\ inst'[id] = "FAILED"
               /\ \A i \in Task : states'[id][i] = "FAILED" <=> i = t
    <3>0. TaskReaped(id, t)  BY <1>3, <2>2, ReapedTask
    <3>1. inst[id] = "PENDING"
      BY <3>0 DEF TaskReaped
    <3>2. \A i \in Task : states[id][i] # "FAILED"
      BY <1>1, <3>1 DEF InstanceMatchesTasks, Exists
    <3>3. inst'[id] = "FAILED" /\ \A i \in Task : states'[id][i] = IF i = t THEN "FAILED" ELSE states[id][i]
      BY <3>0 DEF TaskReaped
    <3> QED BY ONLY <3>2, <3>3, t \in Task
  <2> QED BY <2>1, <2>2
<1>8. JobsMatchEnding'
  <2> SUFFICES ASSUME NEW id \in Instance, inst'[id] # "GONE"
               PROVE  /\ id \in DOMAIN archive' <=> inst'[id] \in Terminal
                      /\ \A i \in Task : <<id, i>> \in DOMAIN webhooks' <=>
                           Exists(id)' /\ states'[id][i] = "FAILED"
    BY DEF JobsMatchEnding
  <2>1. CASE \A t \in Task : <<id, t>> \notin W
    BY <1>1, <1>3, <2>1 DEF ReapEffect, JobsMatchEnding, Exists
  <2>2. ASSUME NEW t \in Task, <<id, t>> \in W
        PROVE  /\ id \in DOMAIN archive' /\ inst'[id] = "FAILED"
               /\ \A i \in Task : <<id, i>> \in DOMAIN webhooks' <=> states'[id][i] = "FAILED"
    <3>0. TaskReaped(id, t)  BY <1>3, <2>2, ReapedTask
    <3>1. inst[id] = "PENDING"
      BY <3>0 DEF TaskReaped
    <3>2. \A i \in Task : states[id][i] # "FAILED" /\ <<id, i>> \notin DOMAIN webhooks
      BY <1>1, <3>1 DEF InstanceMatchesTasks, JobsMatchEnding, Exists
    <3> QED BY <3>0, <3>2 DEF TaskReaped
  <2> QED BY <2>1, <2>2 DEF Exists
<1>9. TopicMovesTogether'
  <2> SUFFICES ASSUME NEW id \in Instance, Exists(id)',
                      NEW i \in Task, NEW j \in Task, TopicOf[i] = TopicOf[j]
               PROVE  /\ states'[id][i] = "PENDING" <=> states'[id][j] = "PENDING"
                      /\ inst'[id] = "PENDING" /\ states'[id][i] = "PUBLISHED"
                           /\ states'[id][j] = "PUBLISHED" =>
                           /\ payload'[id][i] = payload'[id][j]
                           /\ deadlines'[<<id, i>>] - TimeoutOf[i] = deadlines'[<<id, j>>] - TimeoutOf[j]
    BY DEF TopicMovesTogether, Live
  <2>1. CASE \A t \in Task : <<id, t>> \notin W
    <3>1. inst'[id] = inst[id] /\ states'[id] = states[id] /\ payload' = payload
      BY <1>3, <2>1 DEF ReapEffect
    <3>2. inst'[id] = "PENDING" /\ states'[id][i] = "PUBLISHED" /\ states'[id][j] = "PUBLISHED" =>
            /\ deadlines'[<<id, i>>] = deadlines[<<id, i>>]
            /\ deadlines'[<<id, j>>] = deadlines[<<id, j>>]
      BY <1>3, <1>6, <2>1 DEF ReapEffect, DeadlineExact, Live
    <3> QED BY <1>1, <3>1, <3>2 DEF TopicMovesTogether, Exists, Live
  <2>2. ASSUME NEW t \in Task, <<id, t>> \in W
        PROVE  /\ inst'[id] = "FAILED"
               /\ states'[id][i] = "PENDING" <=> states'[id][j] = "PENDING"
    <3>0. TaskReaped(id, t)  BY <1>3, <2>2, ReapedTask
    <3>1. inst[id] = "PENDING" /\ states[id][t] = "PUBLISHED" /\ inst'[id] = "FAILED"
      BY <3>0 DEF TaskReaped
    <3>2. states[id][i] = "PENDING" <=> states[id][j] = "PENDING"
      BY <1>1, <3>1 DEF TopicMovesTogether, Exists
    <3>3. \A x \in Task : states'[id][x] = IF x = t THEN "FAILED" ELSE states[id][x]
      BY <3>0 DEF TaskReaped
    <3>4. \A x \in Task : states'[id][x] = "PENDING" <=> states[id][x] = "PENDING"
      BY <3>1, <3>3
    <3> QED BY <3>1, <3>2, <3>4
  <2> QED BY <2>1, <2>2
<1>10. PayloadPresent'
  <2> SUFFICES ASSUME NEW id \in Instance, NEW i \in Task, Exists(id)'
               PROVE  payload'[id][i] = NoBody <=> states'[id][i] = "PENDING"
    BY DEF PayloadPresent
  <2>1. CASE \A t \in Task : <<id, t>> \notin W
    BY <1>1, <1>3, <2>1 DEF ReapEffect, PayloadPresent, Exists
  <2>2. ASSUME NEW t \in Task, <<id, t>> \in W
        PROVE  payload'[id][i] = NoBody <=> states'[id][i] = "PENDING"
    <3>0. TaskReaped(id, t)  BY <1>3, <2>2, ReapedTask
    <3>1. inst[id] = "PENDING" /\ states[id][t] = "PUBLISHED" /\ payload' = payload
          /\ states'[id][i] = IF i = t THEN "FAILED" ELSE states[id][i]
      BY <3>0 DEF TaskReaped
    <3> QED BY <1>1, <3>1 DEF PayloadPresent, Exists
  <2> QED BY <2>1, <2>2
<1> QED BY <1>2, <1>5, <1>6, <1>7, <1>8, <1>9, <1>10 DEF DataInv

-----------------------------------------------------------------------------
(* The invariant of the whole specification.                               *)

(* Every call in flight, waited for or not, has been resolved.             *)
InFlight ==
  /\ \A r \in Call : call[r] # Idle => Resolved(call[r].req)
  /\ \A w \in wire : Resolved(w[1])

(* No tick holds a clock reading of the future.                            *)
ReapersBehind == \A p \in Reaper : reaper[p] <= now

(* Only instances that have started have been reported about.              *)
ToldStarted ==
  \A id \in Instance, i \in Task, s \in TaskState :
    <<<<id, i>>, s>> \in told => inst[id] # "NONE"

Inv ==
  /\ TypeOK
  /\ DataInv
  /\ InFlight
  /\ ReapersBehind
  /\ ToldStarted
  /\ AnswersStayTrue

(* What no step does: an instance is not un-started or brought back, a     *)
(* task that ended does not change and none becomes PENDING again.         *)
Forward ==
  \A id \in Instance :
    /\ inst[id] # "NONE" => inst'[id] # "NONE"
    /\ inst[id] = "GONE" => inst'[id] = "GONE"
    /\ Exists(id)' => \A i \in Task :
         /\ states[id][i] \in Terminal => states'[id][i] = states[id][i]
         /\ states[id][i] # "PENDING" => states'[id][i] # "PENDING"

(* A step that leaves the documents alone goes forward.                    *)
LEMMA SameForward ==
  ASSUME inst' = inst, states' = states
  PROVE  Forward
BY DEF Forward

(* A script call of a report goes forward.                                 *)
LEMMA RunForward ==
  ASSUME DataInv, NEW m \in Request, Resolved(m), Run(m)
  PROVE  Forward
<1>1. CASE ~ Writes(m)
  BY <1>1, SameForward DEF Run, redisVars
<1>2. CASE Writes(m)
  <2> USE <1>2
  <2>1. DataTypeOK /\ InstanceMatchesTasks /\ m.id \in Instance /\ m.action \in Action
    BY DEF DataInv, Request
  <2>2. Effect(m) /\ inst[m.id] = "PENDING"
    BY <2>1, RunEffect, WritesMeansAccepted
  <2>3. \A i \in Task : states[m.id][i] \in TaskState
    BY <2>1 DEF DataTypeOK
  <2>4. /\ InstanceAfter(m) # "NONE"
        /\ \A i \in Task :
             /\ states[m.id][i] \in Terminal => StatesAfter(m)[i] = states[m.id][i]
             /\ states[m.id][i] # "PENDING" => StatesAfter(m)[i] # "PENDING"
    <3>1. CASE m.action = "publish"
      BY <2>1, <2>3, <3>1, PublishFacts
    <3>2. CASE m.action = "consume"
      <4>1. PICK t \in Task : m.targets = {t}
        BY <3>2 DEF Resolved, WellFormed
      <4> QED BY <2>1, <2>3, <3>2, <4>1, ConsumeFacts
    <3>3. CASE m.action = "fail"
      <4>1. PICK t \in Task : m.targets = {t}
        BY <3>3 DEF Resolved, WellFormed
      <4> QED BY <2>1, <2>3, <3>3, <4>1, FailFacts
    <3> QED BY <2>1, <3>1, <3>2, <3>3
  <2>5. \A i \in Task : states'[m.id][i] = StatesAfter(m)[i]
    BY <2>2 DEF Effect
  <2>6. inst'[m.id] = InstanceAfter(m)
    BY <2>2 DEF Effect
  <2>7. \A id \in Instance \ {m.id} : inst'[id] = inst[id] /\ states'[id] = states[id]
    BY <2>2 DEF Effect
  <2> QED BY <2>2, <2>4, <2>5, <2>6, <2>7 DEF Forward
<1> QED BY <1>1, <1>2

(* One reap_batch call goes forward.                                       *)
LEMMA ReapForward ==
  ASSUME DataInv, NEW at \in Nat, ReapBatch(at)
  PROVE  Forward
<1>1. DataTypeOK
  BY DEF DataInv
<1>2. PICK W, D \in SUBSET DOMAIN deadlines : ReapEffect(W, D)
  BY <1>1, ReapBatchEffect
<1>3. ASSUME NEW id \in Instance
      PROVE  /\ inst[id] # "NONE" => inst'[id] # "NONE"
             /\ inst[id] = "GONE" => inst'[id] = "GONE"
             /\ \A i \in Task :
                  /\ states[id][i] \in Terminal => states'[id][i] = states[id][i]
                  /\ states[id][i] # "PENDING" => states'[id][i] # "PENDING"
  <2>1. CASE \A t \in Task : <<id, t>> \notin W
    BY <1>2, <2>1 DEF ReapEffect
  <2>2. ASSUME NEW t \in Task, <<id, t>> \in W
        PROVE  /\ inst[id] = "PENDING" /\ inst'[id] = "FAILED"
               /\ \A i \in Task :
                    /\ states[id][i] \in Terminal => states'[id][i] = states[id][i]
                    /\ states[id][i] # "PENDING" => states'[id][i] # "PENDING"
    <3>1. TaskReaped(id, t)
      BY <1>2, <2>2, ReapedTask
    <3> QED BY <3>1 DEF TaskReaped
  <2> QED BY <2>1, <2>2
<1> QED BY <1>3 DEF Forward

(* After an accepted call no target is PENDING.                            *)
LEMMA AcceptedNotPending ==
  ASSUME DataTypeOK, NEW m \in Request, Accepted(m), Run(m), NEW i \in m.targets
  PROVE  states'[m.id][i] # "PENDING"
<1>1. /\ m.id \in Instance /\ i \in Task /\ m.action \in Action /\ m.retry \in BOOLEAN
      /\ states[m.id][i] \in TaskState
  BY DEF Request, DataTypeOK
<1>2. Decision(m, i) \in {"OK", "IDEMPOTENT"} /\ Exists(m.id)
  BY AcceptedTargets
<1>3. Decision(m, i) = "IDEMPOTENT" => states[m.id][i] # "PENDING"
  BY <1>1 DEF Decision, Decide, MovesFrom, Repeats, TaskAlready
<1>4. CASE Writes(m)
  <2>1. states'[m.id][i] = StatesAfter(m)[i]
    BY <1>1, <1>4, RunEffect DEF Effect
  <2>2. StatesAfter(m)[i] = IF i \in Moving(m) THEN MovesTo[m.action] ELSE states[m.id][i]
    BY <1>1 DEF StatesAfter
  <2>3. MovesTo[m.action] # "PENDING"
    BY <1>1 DEF MovesTo
  <2>4. i \in Moving(m) <=> Decision(m, i) = "OK"
    BY DEF Moving
  <2> QED BY <1>2, <1>3, <2>1, <2>2, <2>3, <2>4
<1>5. CASE ~ Writes(m)
  <2>1. states' = states
    BY <1>5 DEF Run, redisVars
  <2>4. Refusing(m) = {}
    BY AcceptedTargets DEF Refusing
  <2>2. Outcome(m) = "IDEMPOTENT"
    BY <1>2, <1>5, <2>4 DEF Writes, Accepted, Outcome, Live, Exists
  <2>3. Decision(m, i) # "OK"
    <3>1. SUFFICES ASSUME Decision(m, i) = "OK" PROVE FALSE
      OBVIOUS
    <3>2. Moving(m) # {}
      BY <3>1 DEF Moving
    <3> QED BY <1>2, <2>2, <2>4, <3>2 DEF Outcome
  <2> QED BY <1>2, <1>3, <2>1, <2>3
<1> QED BY <1>4, <1>5

(* What has been reported stays true of documents that go forward.         *)
LEMMA ToldForward ==
  ASSUME Inv, Forward, NEW id \in Instance, NEW i \in Task, NEW s \in TaskState,
         <<<<id, i>>, s>> \in told
  PROVE  /\ inst'[id] # "NONE"
         /\ Exists(id)' => IF s \in Terminal THEN states'[id][i] = s
                           ELSE states'[id][i] # "PENDING"
<1>1. inst[id] # "NONE"
  BY DEF Inv, ToldStarted
<1>2. Exists(id)' => Exists(id)
  BY <1>1 DEF Forward, Exists, Inv, TypeOK
<1>3. Exists(id) => IF s \in Terminal THEN states[id][i] = s ELSE states[id][i] # "PENDING"
  BY DEF Inv, AnswersStayTrue
<1> QED BY <1>1, <1>2, <1>3 DEF Forward

(* A step that goes forward and tells nobody anything keeps answers true.  *)
LEMMA ForwardKeeps ==
  ASSUME Inv, Forward, told' = told
  PROVE  ToldStarted' /\ AnswersStayTrue'
BY ToldForward DEF ToldStarted, AnswersStayTrue

(* Steps that leave Redis alone.                                           *)
LEMMA SameData ==
  ASSUME DataInv, UNCHANGED redisVars
  PROVE  DataInv'
BY DEF redisVars, DataInv, DataTypeOK, Fresh, DeadlineExact, InstanceMatchesTasks,
   JobsMatchEnding, TopicMovesTogether, PayloadPresent, Live, Exists

(* A new document is consistent.                                           *)
LEMMA StartInv ==
  ASSUME Inv, NEW id \in Instance, StartInstance(id)
  PROVE  DataInv' /\ Forward
<1>1. /\ inst[id] = "NONE" /\ inst' = [inst EXCEPT ![id] = "PENDING"]
      /\ states' = states /\ payload' = payload
      /\ deadlines' = deadlines /\ archive' = archive /\ webhooks' = webhooks
  BY DEF StartInstance, queueVars
<1>2. /\ DataTypeOK /\ Fresh /\ DeadlineExact /\ InstanceMatchesTasks
      /\ JobsMatchEnding /\ TopicMovesTogether /\ PayloadPresent
  BY DEF Inv, DataInv
<1>3. /\ inst'[id] = "PENDING" /\ \A x \in Instance \ {id} : inst'[x] = inst[x]
      /\ \A i \in Task : states[id][i] = "PENDING" /\ payload[id][i] = NoBody
  BY <1>1, <1>2 DEF DataTypeOK, Fresh, AllPending, NoPayloads
<1>4. DataTypeOK'
  BY <1>1, <1>2 DEF DataTypeOK
<1>5. Fresh'
  BY <1>1, <1>2, <1>3 DEF Fresh
<1>6. DeadlineExact'
  BY <1>1, <1>2, <1>3 DEF DeadlineExact, Live
<1>7. InstanceMatchesTasks'
  <2>1. 0 \in Task  BY WorkflowValid DEF Task
  <2> QED BY <1>1, <1>2, <1>3, <2>1 DEF InstanceMatchesTasks, Exists
<1>8. JobsMatchEnding'
  BY <1>1, <1>2, <1>3 DEF JobsMatchEnding, Exists
<1>9. TopicMovesTogether'
  BY <1>1, <1>2, <1>3 DEF TopicMovesTogether, Exists, Live
<1>10. PayloadPresent'
  BY <1>1, <1>2, <1>3 DEF PayloadPresent, Exists
<1>11. Forward
  BY <1>1, <1>3 DEF Forward
<1> QED BY <1>4, <1>5, <1>6, <1>7, <1>8, <1>9, <1>10, <1>11 DEF DataInv

(* A deleted document is out of every invariant's sight.                   *)
LEMMA DeleteInv ==
  ASSUME Inv, NEW id \in Instance, DeleteInstance(id)
  PROVE  DataInv' /\ Forward
<1>1. /\ Exists(id) /\ inst' = [inst EXCEPT ![id] = "GONE"]
      /\ states' = [states EXCEPT ![id] = AllPending]
      /\ payload' = [payload EXCEPT ![id] = NoPayloads]
      /\ deadlines' = deadlines /\ archive' = archive /\ webhooks' = webhooks
  BY DEF DeleteInstance, queueVars
<1>2. /\ DataTypeOK /\ Fresh /\ DeadlineExact /\ InstanceMatchesTasks
      /\ JobsMatchEnding /\ TopicMovesTogether /\ PayloadPresent
  BY DEF Inv, DataInv
<1>3. inst'[id] = "GONE" /\ \A x \in Instance \ {id} :
        inst'[x] = inst[x] /\ states'[x] = states[x] /\ payload'[x] = payload[x]
  BY <1>1, <1>2 DEF DataTypeOK
<1>4. DataTypeOK'
  BY <1>1, <1>2 DEF DataTypeOK, AllPending, NoPayloads
<1>5. Fresh'
  BY <1>2, <1>3 DEF Fresh
<1>6. DeadlineExact'
  BY <1>1, <1>2, <1>3 DEF DeadlineExact, Live
<1>7. InstanceMatchesTasks'
  BY <1>2, <1>3 DEF InstanceMatchesTasks, Exists
<1>8. JobsMatchEnding'
  BY <1>1, <1>2, <1>3 DEF JobsMatchEnding, Exists
<1>9. TopicMovesTogether'
  BY <1>1, <1>2, <1>3 DEF TopicMovesTogether, Exists, Live
<1>10. PayloadPresent'
  BY <1>2, <1>3 DEF PayloadPresent, Exists
<1>11. Forward
  BY <1>1, <1>3 DEF Forward, Exists
<1> QED BY <1>4, <1>5, <1>6, <1>7, <1>8, <1>9, <1>10, <1>11 DEF DataInv

(* A busy handler slot.                                                    *)
LEMMA BusySlot ==
  ASSUME Inv, NEW r \in Call, call[r].phase \in {"sent", "lost"}
  PROVE  /\ call[r] \in Busy /\ call[r] # Idle
         /\ call[r].req \in Request /\ call[r].sends \in 0 .. MaxResend
         /\ call[r].ran \in BOOLEAN
         /\ Resolved(call[r].req)
<1>1. call[r] # Idle
  BY DEF Idle
<1>2. call[r] \in Busy
  BY <1>1 DEF Inv, TypeOK
<1>3. Resolved(call[r].req)
  BY <1>1 DEF Inv, InFlight
<1> QED BY <1>1, <1>2, <1>3 DEF Busy

(* What the client does to a busy slot keeps its script call.              *)
LEMMA BusyUpdates ==
  ASSUME NEW c \in Busy
  PROVE  /\ c # Idle
         /\ [c EXCEPT !.phase = "lost"] \in Busy
         /\ [c EXCEPT !.phase = "lost"].req = c.req
         /\ [c EXCEPT !.ran = TRUE] \in Busy
         /\ [c EXCEPT !.ran = TRUE].req = c.req
         /\ c.sends < MaxResend =>
              /\ [c EXCEPT !.phase = "sent", !.sends = c.sends + 1] \in Busy
              /\ [c EXCEPT !.phase = "sent", !.sends = c.sends + 1].req = c.req
<1>1. c # Idle
  <2>1. c.phase \in {"sent", "lost"}  BY DEF Busy
  <2> QED BY <2>1 DEF Idle
<1>2. [c EXCEPT !.phase = "lost"] \in Busy /\ [c EXCEPT !.phase = "lost"].req = c.req
  BY DEF Busy
<1>3. [c EXCEPT !.ran = TRUE] \in Busy /\ [c EXCEPT !.ran = TRUE].req = c.req
  BY DEF Busy
<1>4. ASSUME c.sends < MaxResend
      PROVE  /\ [c EXCEPT !.phase = "sent", !.sends = c.sends + 1] \in Busy
             /\ [c EXCEPT !.phase = "sent", !.sends = c.sends + 1].req = c.req
  <2>1. c.sends + 1 \in 0 .. MaxResend
    BY <1>4, EngineAssumption DEF Busy
  <2>2. [[c EXCEPT !.phase = "sent"] EXCEPT !.sends = c.sends + 1] =
        [c EXCEPT !.phase = "sent", !.sends = c.sends + 1]
    BY DEF Busy
  <2> QED BY <2>1, <2>2 DEF Busy
<1> QED BY <1>1, <1>2, <1>3, <1>4

(* The initial state.                                                      *)
LEMMA InitInv == Init => Inv
<1> SUFFICES ASSUME Init PROVE Inv
  OBVIOUS
<1>1. TypeOK
  BY DEF Init, TypeOK, AllPending, NoPayloads, EmptyZSet, IsZSet, NoTick
<1>2. DataInv
  <2>1. DataTypeOK
    BY <1>1 DEF TypeOK, DataTypeOK
  <2>2. \A id \in Instance : inst[id] = "NONE" /\ states[id] = AllPending /\ payload[id] = NoPayloads
    BY DEF Init
  <2>3. DOMAIN deadlines = {} /\ DOMAIN archive = {} /\ DOMAIN webhooks = {}
    BY DEF Init, EmptyZSet
  <2> QED
    BY <2>1, <2>2, <2>3 DEF DataInv, Fresh, DeadlineExact, InstanceMatchesTasks, JobsMatchEnding,
       TopicMovesTogether, PayloadPresent, Live, Exists
<1>3. InFlight /\ ReapersBehind /\ ToldStarted /\ AnswersStayTrue
  BY DEF Init, InFlight, ReapersBehind, ToldStarted, AnswersStayTrue, NoTick
<1> QED BY <1>1, <1>2, <1>3 DEF Inv

(* Every step preserves the invariant.                                     *)
LEMMA NextInv == Inv /\ [Next]_vars => Inv'
<1> SUFFICES ASSUME Inv, [Next]_vars PROVE Inv'
  OBVIOUS
<1>1. /\ TypeOK /\ DataInv /\ InFlight /\ ReapersBehind /\ ToldStarted /\ AnswersStayTrue
      /\ DataTypeOK
  BY DEF Inv, DataInv
<1>2. ASSUME UNCHANGED redisVars
      PROVE  DataInv' /\ Forward
  BY <1>1, <1>2, SameData, SameForward DEF redisVars
<1>3. ASSUME DataInv', Forward,
             \/ told' = told
             \/ told' \subseteq TaskKey \X TaskState /\ ToldStarted' /\ AnswersStayTrue',
             call' \in [Call -> {Idle} \cup Busy],
             wire' \subseteq Request \X (0 .. MaxResend),
             \A r \in Call : call'[r] # Idle => Resolved(call'[r].req),
             \A w \in wire' : Resolved(w[1]),
             reaper' \in [Reaper -> Nat \cup {NoTick}], now' \in Nat,
             \A p \in Reaper : reaper'[p] <= now'
      PROVE  Inv'
  <2>1. DataTypeOK'
    BY <1>3 DEF DataInv
  <2>2. TypeOK'
    BY <1>1, <1>3, <2>1 DEF TypeOK, DataTypeOK
  <2>3. ASSUME NEW m \in Request, Resolved(m)
        PROVE  inst'[m.id] # "NONE" /\ WellFormed(m)
    BY <1>3, <2>3 DEF Forward, Resolved, Request
  <2>4. \A r \in Call : call'[r] # Idle => inst'[call'[r].req.id] # "NONE" /\ WellFormed(call'[r].req)
    BY <1>3, <2>3 DEF Busy
  <2>5. \A w \in wire' : inst'[w[1].id] # "NONE" /\ WellFormed(w[1])
    BY <1>3, <2>3
  <2>6. InFlight'
    BY <2>4, <2>5 DEF InFlight, Resolved, Idle
  <2>7. ReapersBehind' /\ ToldStarted' /\ AnswersStayTrue'
    BY <1>3, <2>1, ForwardKeeps DEF ReapersBehind
  <2> QED BY <1>3, <2>2, <2>6, <2>7 DEF Inv
<1>4. ASSUME DataInv', Forward, told' = told, wire' = wire, call' = call, reaper' = reaper,
             now' = now \/ now' = now + 1
      PROVE  Inv'
  <2>1. now' \in Nat /\ \A p \in Reaper : reaper'[p] <= now'
    BY <1>1, <1>4 DEF TypeOK, ReapersBehind, NoTick
  <2> QED BY <1>1, <1>3, <1>4, <2>1 DEF TypeOK, InFlight
<1>5. CASE UNCHANGED vars
  BY <1>2, <1>4, <1>5 DEF vars, redisVars
<1>6. ASSUME NEW id \in Instance, StartInstance(id) \/ DeleteInstance(id)
      PROVE  Inv'
  BY <1>4, <1>6, StartInv, DeleteInv DEF StartInstance, DeleteInstance
<1>7. ASSUME ClockTick PROVE Inv'
  BY <1>2, <1>4, <1>7 DEF ClockTick
<1>8. ASSUME NEW r \in Call, NEW action \in Action, NEW retry \in BOOLEAN,
             NEW id \in Instance, NEW topic \in Topic, NEW service \in Service,
             NEW body \in Body, Report(r, action, retry, id, topic, service, body)
      PROVE  Inv'
  <2> DEFINE m == [from |-> r, action |-> action, retry |-> retry, id |-> id,
                   targets |-> Resolve(action, topic, service), at |-> now,
                   body |-> IF action = "publish" THEN body ELSE NoBody]
  <2>1. /\ Exists(id) /\ m.targets # {}
        /\ call' = [call EXCEPT ![r] =
                       [phase |-> "sent", req |-> m, sends |-> 0, ran |-> FALSE]]
        /\ UNCHANGED <<redisVars, now, wire, reaper, told>>
    BY <1>8 DEF Report
  <2>2. m \in Request
    BY <1>1 DEF Request, TypeOK, Resolve
  <2>3. WellFormed(m)
    <3>1. action = "publish" => m.targets = {i \in Task : TopicOf[i] = topic}
      BY DEF Resolve
    <3>2. action # "publish" => \E i \in Task : m.targets = {i}
      <4> SUFFICES ASSUME action # "publish" PROVE \E i \in Task : m.targets = {i}
        OBVIOUS
      <4>1. PICK i \in Task : i \in m.targets
        BY <2>1 DEF Resolve
      <4>2. \A j \in m.targets : j = i
        BY <4>1, WorkflowValid DEF Resolve
      <4>3. m.targets = {i}
        BY <4>1, <4>2
      <4> QED BY <4>3
    <3>3. m.action = action /\ (action = "publish" => m.body \in Body)
      OBVIOUS
    <3> HIDE DEF m
    <3> QED BY <2>1, <3>1, <3>2, <3>3 DEF WellFormed
  <2>4. m.id = id
    OBVIOUS
  <2> HIDE DEF m
  <2>5. Resolved(m)
    BY <2>1, <2>3, <2>4 DEF Resolved, Exists
  <2> DEFINE c == [phase |-> "sent", req |-> m, sends |-> 0, ran |-> FALSE]
  <2>6. c \in Busy /\ c.req = m
    BY <2>2, EngineAssumption DEF Busy
  <2> HIDE DEF c
  <2>7. call' = [call EXCEPT ![r] = c]
    BY <2>1 DEF c
  <2>8. call' \in [Call -> {Idle} \cup Busy]
    BY <1>1, <2>6, <2>7 DEF TypeOK
  <2>9. \A q \in Call : call'[q] # Idle => Resolved(call'[q].req)
    BY <1>1, <2>5, <2>6, <2>7 DEF TypeOK, InFlight
  <2> QED BY <1>1, <1>2, <1>3, <2>1, <2>8, <2>9 DEF TypeOK, InFlight, ReapersBehind
<1>9. ASSUME NEW r \in Call, SendFails(r) \/ Resend(r) \/ Error(r)
      PROVE  Inv'
  <2>1. /\ call[r] \in Busy /\ call[r].req \in Request /\ call[r].sends \in 0 .. MaxResend
        /\ call[r].ran \in BOOLEAN /\ Resolved(call[r].req)
    BY <1>9, BusySlot DEF SendFails, Resend, Error
  <2>2. UNCHANGED <<redisVars, now, reaper, told>>
    BY <1>9 DEF SendFails, Resend, Error
  <2>3. PICK c \in {Idle} \cup Busy :
          call' = [call EXCEPT ![r] = c] /\ (c # Idle => c.req = call[r].req)
    <3>1. CASE SendFails(r)
      <4>1. call' = [call EXCEPT ![r] = [call[r] EXCEPT !.phase = "lost"]]
        BY <3>1 DEF SendFails
      <4>2. [call[r] EXCEPT !.phase = "lost"] \in Busy
            /\ [call[r] EXCEPT !.phase = "lost"].req = call[r].req
        BY <2>1, BusyUpdates
      <4> QED BY <4>1, <4>2
    <3>2. CASE Resend(r)
      <4>1. /\ call' = [call EXCEPT ![r] = [call[r] EXCEPT !.phase = "sent", !.sends = @ + 1]]
            /\ call[r].sends < MaxResend
        BY <3>2 DEF Resend
      <4>2. [call[r] EXCEPT !.phase = "sent", !.sends = @ + 1] \in Busy
            /\ [call[r] EXCEPT !.phase = "sent", !.sends = @ + 1].req = call[r].req
        BY <2>1, <4>1, BusyUpdates
      <4> QED BY <4>1, <4>2
    <3>3. CASE Error(r)
      BY <3>3 DEF Error
    <3> QED BY <1>9, <3>1, <3>2, <3>3
  <2>4. call' \in [Call -> {Idle} \cup Busy]
    BY <1>1, <2>3 DEF TypeOK
  <2>5. \A q \in Call : call'[q] # Idle => Resolved(call'[q].req)
    BY <1>1, <2>1, <2>3 DEF TypeOK, InFlight
  <2>6. wire' = wire \/ wire' = wire \cup {<<call[r].req, call[r].sends>>}
    BY <1>9 DEF SendFails, Resend, Error
  <2>7. /\ wire' \subseteq Request \X (0 .. MaxResend)
        /\ \A w \in wire' : Resolved(w[1])
    BY <1>1, <2>1, <2>6 DEF TypeOK, InFlight
  <2> QED BY <1>1, <1>2, <1>3, <2>2, <2>4, <2>5, <2>7 DEF TypeOK, ReapersBehind
<1>10. ASSUME NEW w \in wire, LateRun(w)
       PROVE  Inv'
  <2>1. w[1] \in Request /\ Resolved(w[1])
    BY <1>1 DEF TypeOK, InFlight
  <2>2. /\ Run(w[1]) /\ wire' = wire \ {w} /\ UNCHANGED <<now, reaper, told>>
        /\ call' = [r \in Call |->
                IF call[r] # Idle /\ call[r].req = w[1] /\ Changes(w[1])
                THEN [call[r] EXCEPT !.ran = TRUE] ELSE call[r]]
    BY <1>10 DEF LateRun
  <2>3. DataInv' /\ Forward
    BY <1>1, <2>1, <2>2, RunInv, RunForward
  <2>4. ASSUME NEW r \in Call
        PROVE  /\ call'[r] \in {Idle} \cup Busy
               /\ call'[r] # Idle => call[r] # Idle /\ call'[r].req = call[r].req
    <3>1. CASE call[r] = Idle
      BY <2>2, <3>1
    <3>2. CASE call[r] \in Busy
      <4>1. /\ [call[r] EXCEPT !.ran = TRUE] \in Busy
            /\ [call[r] EXCEPT !.ran = TRUE].req = call[r].req
            /\ call[r] # Idle
        BY <3>2, BusyUpdates
      <4> QED BY <2>2, <3>2, <4>1
    <3> QED BY <1>1, <3>1, <3>2 DEF TypeOK
  <2>5. call' \in [Call -> {Idle} \cup Busy]
    BY <2>2, <2>4
  <2>6. \A q \in Call : call'[q] # Idle => Resolved(call'[q].req)
    BY <1>1, <2>4 DEF InFlight
  <2> QED BY <1>1, <1>3, <2>2, <2>3, <2>5, <2>6 DEF TypeOK, InFlight, ReapersBehind
<1>11. ASSUME NEW r \in Call, Answer(r)
       PROVE  Inv'
  <2> DEFINE m == call[r].req
             new == IF Accepted(m) THEN {<<<<m.id, i>>, states'[m.id][i]>> : i \in m.targets} ELSE {}
  <2>1. m \in Request /\ Resolved(m)
    BY <1>11, BusySlot DEF Answer
  <2>2. /\ Run(m) /\ told' = told \cup new
        /\ call' = [call EXCEPT ![r] = Idle] /\ UNCHANGED <<now, wire, reaper>>
    BY <1>11 DEF Answer
  <2>3. DataInv' /\ Forward /\ DataTypeOK'
    BY <1>1, <2>1, <2>2, RunInv, RunForward DEF DataInv
  <2>4. m.id \in Instance /\ m.targets \subseteq Task
    BY <2>1 DEF Request
  <2>5. inst'[m.id] # "NONE"
    BY <2>1, <2>3, <2>4 DEF Forward, Resolved
  <2>6. Accepted(m) => \A i \in m.targets : states'[m.id][i] # "PENDING"
    BY <1>1, <2>1, <2>2, AcceptedNotPending
  <2> HIDE DEF m
  <2>7. ASSUME NEW id \in Instance, NEW i \in Task, NEW s \in TaskState,
               <<<<id, i>>, s>> \in new
        PROVE  inst'[id] # "NONE" /\ s = states'[id][i] /\ s # "PENDING"
    <3>1. PICK j \in m.targets : Accepted(m) /\ <<<<id, i>>, s>> = <<<<m.id, j>>, states'[m.id][j]>>
      BY <2>7
    <3>2. id = m.id /\ i = j /\ s = states'[m.id][j]
      BY <3>1
    <3> QED BY <2>5, <2>6, <3>1, <3>2
  <2>8. new \subseteq TaskKey \X TaskState
    <3>1. \A i \in m.targets : states'[m.id][i] \in TaskState
      BY <2>3, <2>4 DEF DataTypeOK
    <3> QED BY <2>4, <3>1 DEF TaskKey
  <2> HIDE DEF new
  <2>9. told' \subseteq TaskKey \X TaskState
    BY <1>1, <2>2, <2>8 DEF TypeOK
  <2>10. ASSUME NEW id \in Instance, NEW i \in Task, NEW s \in TaskState,
                <<<<id, i>>, s>> \in told
         PROVE  /\ inst'[id] # "NONE"
                /\ Exists(id)' => IF s \in Terminal THEN states'[id][i] = s
                                  ELSE states'[id][i] # "PENDING"
    BY <2>3, <2>10, ToldForward
  <2>11. ToldStarted'
    BY <2>2, <2>7, <2>10 DEF ToldStarted
  <2>12. AnswersStayTrue'
    BY <2>2, <2>7, <2>10 DEF AnswersStayTrue
  <2>13. call' \in [Call -> {Idle} \cup Busy]
    BY <1>1, <2>2 DEF TypeOK
  <2>14. \A q \in Call : call'[q] # Idle => Resolved(call'[q].req)
    BY <1>1, <2>2 DEF TypeOK, InFlight
  <2> QED
    BY <1>1, <1>3, <2>2, <2>3, <2>9, <2>11, <2>12, <2>13, <2>14 DEF TypeOK, InFlight, ReapersBehind
<1>12. ASSUME NEW p \in Reaper, ReapRead(p) \/ ReapTick(p) \/ ReapError(p)
       PROVE  Inv'
  <2>1. /\ reaper' = [reaper EXCEPT ![p] = now] \/ reaper' = [reaper EXCEPT ![p] = NoTick]
        /\ UNCHANGED <<now, call, wire, told>>
    BY <1>12 DEF ReapRead, ReapTick, ReapError
  <2>2. /\ reaper' \in [Reaper -> Nat \cup {NoTick}]
        /\ \A q \in Reaper : reaper'[q] <= now
    <3>1. PICK x \in {now, NoTick} : reaper' = [reaper EXCEPT ![p] = x]
      BY <2>1
    <3>2. x \in Nat \cup {NoTick} /\ x <= now /\ reaper \in [Reaper -> Nat \cup {NoTick}]
      BY <1>1 DEF TypeOK, NoTick
    <3>3. \A q \in Reaper : reaper'[q] = x \/ reaper'[q] = reaper[q]
      BY <3>1, <3>2
    <3> QED BY <1>1, <3>1, <3>2, <3>3 DEF ReapersBehind
  <2>3. DataInv' /\ Forward
    <3>1. CASE ReapTick(p)
      <4>1. reaper[p] \in Nat /\ ReapBatch(reaper[p])
        BY <1>1, <3>1 DEF ReapTick, TypeOK
      <4> QED BY <1>1, <4>1, ReapInv, ReapForward
    <3>2. CASE UNCHANGED redisVars
      BY <1>2, <3>2
    <3> QED BY <1>12, <3>1, <3>2 DEF ReapRead, ReapError
  <2> QED BY <1>1, <1>3, <2>1, <2>2, <2>3 DEF TypeOK, InFlight
<1> QED
  BY <1>5, <1>6, <1>7, <1>8, <1>9, <1>10, <1>11, <1>12 DEF Next

-----------------------------------------------------------------------------
(* The theorems.                                                           *)

(* The inductive invariant holds in every reachable state.                 *)
THEOREM Invariance == Spec => []Inv
BY InitInv, NextInv, PTL DEF Spec

(* Type correctness: no handler, script or reaper step leaves a document,  *)
(* a sorted set or a call in a form the code does not expect.              *)
THEOREM TypeCorrect == Spec => []TypeOK
<1>1. Inv => TypeOK  BY DEF Inv
<1> QED BY <1>1, Invariance, PTL

(* The deadline set holds exactly the PUBLISHED tasks of live instances,   *)
(* after every script call, whatever interleaves (transition.lua 146-186). *)
THEOREM DeadlinesExact == Spec => []DeadlineExact
<1>1. Inv => DeadlineExact  BY DEF Inv, DataInv
<1> QED BY <1>1, Invariance, PTL

(* The instance state always follows from the task states, and at most one *)
(* task ever fails (transition.lua 171-195).                               *)
THEOREM InstanceFollowsTasks == Spec => []InstanceMatchesTasks
<1>1. Inv => InstanceMatchesTasks  BY DEF Inv, DataInv
<1> QED BY <1>1, Invariance, PTL

(* The archive and webhook jobs are queued with the transition that calls  *)
(* for them, and no other is (transition.lua 161-167, 192-194).            *)
THEOREM JobsFollowEnding == Spec => []JobsMatchEnding
<1>1. Inv => JobsMatchEnding  BY DEF Inv, DataInv
<1> QED BY <1>1, Invariance, PTL

(* Tasks that share a topic are published together and, while they wait,   *)
(* share payload and publication time (transition.lua 108-156).            *)
THEOREM TopicsMoveTogether == Spec => []TopicMovesTogether
<1>1. Inv => TopicMovesTogether  BY DEF Inv, DataInv
<1> QED BY <1>1, Invariance, PTL

(* A task has a payload exactly from its publication on, so that a webhook *)
(* never lacks one (transition.lua 150-156).                               *)
THEOREM PayloadsPresent == Spec => []PayloadPresent
<1>1. Inv => PayloadPresent  BY DEF Inv, DataInv
<1> QED BY <1>1, Invariance, PTL

(* No later step contradicts what a 200 answer said of a task              *)
(* (transition.lua 73-92, instance_engine.go 327-361).                     *)
THEOREM AnswersTrue == Spec => []AnswersStayTrue
<1>1. Inv => AnswersStayTrue  BY DEF Inv
<1> QED BY <1>1, Invariance, PTL

(* A reaper tick fails only tasks whose current deadline has passed        *)
(* (reaper.go 107-113, transition.lua 207-241).                            *)
THEOREM OverdueOnly == Spec => ReapedOnlyOverdue
<1>1. ASSUME Inv, NEW p \in Reaper, ReapTick(p), NEW id \in Instance, NEW i \in Task,
             states[id][i] # states'[id][i]
      PROVE  deadlines[<<id, i>>] <= now
  <2>1. /\ reaper[p] \in Nat /\ reaper[p] <= now /\ now \in Nat
        /\ ReapBatch(reaper[p]) /\ DataTypeOK
    BY <1>1 DEF ReapTick, Inv, TypeOK, DataInv, ReapersBehind
  <2>2. PICK W, D \in SUBSET DOMAIN deadlines :
          ReapEffect(W, D) /\ \A w \in W : deadlines[w] <= reaper[p]
    BY <2>1, ReapBatchEffect
  <2>3. <<id, i>> \in W
    <3>1. SUFFICES ASSUME <<id, i>> \notin W PROVE FALSE
      OBVIOUS
    <3>2. CASE \A t \in Task : <<id, t>> \notin W
      <4>1. states'[id] = states[id]
        BY <2>2, <3>2 DEF ReapEffect
      <4> QED BY <1>1, <4>1
    <3>3. ASSUME NEW t \in Task, <<id, t>> \in W PROVE FALSE
      <4>1. TaskReaped(id, t)
        BY <2>2, <3>3, ReapedTask
      <4>2. states'[id][i] = IF i = t THEN "FAILED" ELSE states[id][i]
        BY <4>1 DEF TaskReaped
      <4> QED BY <1>1, <3>1, <3>3, <4>2
    <3> QED BY <3>2, <3>3
  <2>4. deadlines[<<id, i>>] \in Nat
    BY <2>1, <2>2, <2>3 DEF DataTypeOK, IsZSet
  <2> QED BY <2>1, <2>2, <2>3, <2>4
<1>2. Inv => (\A p \in Reaper : ReapTick(p) =>
               \A id \in Instance, i \in Task :
                 states[id][i] # states'[id][i] => deadlines[<<id, i>>] <= now)
  BY <1>1
<1> QED BY <1>2, Invariance, PTL DEF ReapedOnlyOverdue

(* Everything about one instance but its deadlines stays as it is.         *)
Untouched(id) ==
  /\ inst'[id] = inst[id] /\ states'[id] = states[id] /\ payload'[id] = payload[id]
  /\ archive'[id] = archive[id]
  /\ \A i \in Task :
       /\ <<id, i>> \in DOMAIN webhooks <=> <<id, i>> \in DOMAIN webhooks'
       /\ <<id, i>> \in DOMAIN webhooks => webhooks'[<<id, i>>] = webhooks[<<id, i>>]

(* A script call of a report does not touch an ended instance.             *)
LEMMA RunLeavesEnded ==
  ASSUME DataInv, NEW m \in Request, Run(m), NEW id \in Instance, inst[id] \in Terminal
  PROVE  Untouched(id)
<1>1. CASE ~ Writes(m)
  BY <1>1 DEF Run, redisVars, Untouched
<1>2. CASE Writes(m)
  <2>1. DataTypeOK /\ id # m.id /\ id \in DOMAIN archive
    BY <1>2, WritesMeansAccepted DEF DataInv, JobsMatchEnding
  <2>2. Effect(m)
    BY <1>2, <2>1, RunEffect
  <2>3. id \notin Ending(m) /\ \A i \in Task : <<id, i>> \notin {m.id} \X Failing(m)
    BY <2>1 DEF Ending
  <2>4. inst'[id] = inst[id] /\ states'[id] = states[id] /\ payload'[id] = payload[id]
    BY <2>1, <2>2 DEF Effect
  <2>5. archive'[id] = archive[id]
    BY <2>1, <2>2, <2>3 DEF Effect
  <2>6. \A i \in Task :
          /\ <<id, i>> \in DOMAIN webhooks <=> <<id, i>> \in DOMAIN webhooks'
          /\ <<id, i>> \in DOMAIN webhooks => webhooks'[<<id, i>>] = webhooks[<<id, i>>]
    BY <2>2, <2>3 DEF Effect
  <2> QED BY <2>4, <2>5, <2>6 DEF Untouched
<1> QED BY <1>1, <1>2

(* Neither does a reap_batch call.                                         *)
LEMMA ReapLeavesEnded ==
  ASSUME DataInv, NEW at \in Nat, ReapBatch(at), NEW id \in Instance, inst[id] \in Terminal
  PROVE  Untouched(id)
<1>1. DataTypeOK /\ id \in DOMAIN archive
  BY DEF DataInv, JobsMatchEnding
<1>2. PICK W, D \in SUBSET DOMAIN deadlines : ReapEffect(W, D)
  BY <1>1, ReapBatchEffect
<1>3. ASSUME NEW t \in Task, <<id, t>> \in W PROVE FALSE
  <2>1. TaskReaped(id, t)
    BY <1>2, <1>3, ReapedTask
  <2> QED BY <2>1 DEF TaskReaped
<1>4. /\ inst'[id] = inst[id] /\ states'[id] = states[id] /\ payload' = payload
      /\ archive'[id] = archive[id]
      /\ \A i \in Task : <<id, i>> \in DOMAIN webhooks' <=> <<id, i>> \in DOMAIN webhooks
  BY <1>1, <1>2, <1>3 DEF ReapEffect
<1>5. \A i \in Task : <<id, i>> \in DOMAIN webhooks => webhooks'[<<id, i>>] = webhooks[<<id, i>>]
  BY <1>2, <1>3 DEF ReapEffect
<1> QED BY <1>4, <1>5 DEF Untouched

(* No late report, retry or tick changes anything of an instance that has  *)
(* ended, its queued jobs included (transition.lua 102-132).               *)
THEOREM EndedFrozen == Spec => TerminalFrozen
<1>1. ASSUME Inv, Inv', [Next]_vars,
             NEW id \in Instance, inst[id] \in Terminal, inst'[id] # "GONE"
      PROVE  Untouched(id) /\ \A i \in Task : <<id, i>> \notin DOMAIN deadlines'
  <2>1. Untouched(id)
    <3>1. DataInv /\ TypeOK /\ DataTypeOK
      BY <1>1 DEF Inv, DataInv
    <3>2. CASE UNCHANGED redisVars
      BY <3>2 DEF redisVars, Untouched
    <3>3. ASSUME NEW x \in Instance, StartInstance(x) \/ DeleteInstance(x)
          PROVE  Untouched(id)
      <4>1. id # x
        BY <1>1, <3>1, <3>3 DEF StartInstance, DeleteInstance, DataTypeOK
      <4> QED
        BY <3>1, <3>3, <4>1 DEF StartInstance, DeleteInstance, DataTypeOK, queueVars, Untouched
    <3>4. ASSUME NEW r \in Call, Answer(r) PROVE Untouched(id)
      <4>1. Run(call[r].req) /\ call[r].req \in Request
        BY <1>1, <3>4, BusySlot DEF Answer
      <4> QED BY <1>1, <3>1, <4>1, RunLeavesEnded
    <3>5. ASSUME NEW w \in wire, LateRun(w) PROVE Untouched(id)
      <4>1. Run(w[1]) /\ w[1] \in Request
        BY <3>1, <3>5 DEF LateRun, TypeOK
      <4> QED BY <1>1, <3>1, <4>1, RunLeavesEnded
    <3>6. ASSUME NEW p \in Reaper, ReapTick(p) PROVE Untouched(id)
      <4>1. reaper[p] \in Nat /\ ReapBatch(reaper[p])
        BY <3>1, <3>6 DEF ReapTick, TypeOK
      <4> QED BY <1>1, <3>1, <4>1, ReapLeavesEnded
    <3>7. UNCHANGED redisVars \/ Next
      BY <1>1 DEF vars, redisVars
    <3>8. ASSUME NEW r \in Call, NEW action \in Action, NEW retry \in BOOLEAN,
                 NEW x \in Instance, NEW topic \in Topic, NEW service \in Service,
                 NEW body \in Body, Report(r, action, retry, x, topic, service, body)
          PROVE  UNCHANGED redisVars
      BY <3>8 DEF Report
    <3>9. ASSUME NEW r \in Call, SendFails(r) \/ Resend(r) \/ Error(r)
          PROVE  UNCHANGED redisVars
      BY <3>9 DEF SendFails, Resend, Error
    <3>10. ASSUME NEW p \in Reaper, ReapRead(p) \/ ReapError(p)
           PROVE  UNCHANGED redisVars
      BY <3>10 DEF ReapRead, ReapError
    <3>11. ClockTick => UNCHANGED redisVars
      BY DEF ClockTick
    <3> QED
      BY <3>2, <3>3, <3>4, <3>5, <3>6, <3>7, <3>8, <3>9, <3>10, <3>11 DEF Next
  <2>2. inst'[id] = inst[id]
    BY <2>1 DEF Untouched
  <2> QED BY <1>1, <2>1, <2>2 DEF Inv, DataInv, DeadlineExact, Live
<1>2. Inv /\ Inv' /\ [Next]_vars =>
        [\A id \in Instance :
           inst[id] \in Terminal /\ inst'[id] # "GONE" =>
             /\ inst'[id] = inst[id]
             /\ states'[id] = states[id]
             /\ payload'[id] = payload[id]
             /\ archive'[id] = archive[id]
             /\ \A i \in Task :
                  /\ <<id, i>> \notin DOMAIN deadlines'
                  /\ <<id, i>> \in DOMAIN webhooks <=> <<id, i>> \in DOMAIN webhooks'
                  /\ <<id, i>> \in DOMAIN webhooks =>
                       webhooks'[<<id, i>>] = webhooks[<<id, i>>]]_vars
  BY <1>1 DEF Untouched
<1> QED BY <1>2, Invariance, PTL DEF TerminalFrozen, Spec
=============================================================================
