--------------------------- MODULE ContractProofs ---------------------------
(***************************************************************************)
(* InstanceEngine implements SagaContract, for every workflow, any number  *)
(* of instances, handlers and reapers, and any number of lost calls.       *)
(***************************************************************************)
EXTENDS InstanceEngineProofs

(* No script call carries a clock reading of the future.                   *)
CallsBehind ==
  /\ \A r \in Call : call[r] # Idle => call[r].req.at <= now
  /\ \A w \in wire : w[1].at <= now

contractVars == <<inst, states, payload, LiveDeadlines, JobsOwed, now>>

(* What the contract sees of the deadlines.                                *)
LEMMA DueShape ==
  /\ DOMAIN LiveDeadlines = {d \in DOMAIN deadlines : inst[d[1]] # "GONE"}
  /\ \A k \in DOMAIN LiveDeadlines : LiveDeadlines[k] = deadlines[k]
BY DEF LiveDeadlines

(* The same after a step.                                                  *)
LEMMA DueShapeAfter ==
  /\ DOMAIN LiveDeadlines' = {d \in DOMAIN deadlines' : inst'[d[1]] # "GONE"}
  /\ LiveDeadlines' = [k \in DOMAIN LiveDeadlines' |-> deadlines'[k]]
BY DEF LiveDeadlines

(* The contract's operators are the engine's.                              *)
LEMMA SameOperators ==
  /\ Contract!Task = Task /\ Contract!EmptyZSet = EmptyZSet
  /\ \A z, u : Contract!ZAdd(z, u) = ZAdd(z, u)
  /\ \A z, S : Contract!ZRem(z, S) = ZRem(z, S)
BY DEF Contract!Task, Task, Contract!EmptyZSet, EmptyZSet,
       Contract!ZAdd, ZAdd, Contract!ZRem, ZRem

(* A step that leaves Redis and the clock alone shows nothing.             *)
LEMMA SameContract ==
  ASSUME UNCHANGED <<redisVars, now>>
  PROVE  UNCHANGED contractVars
BY DEF redisVars, contractVars, LiveDeadlines, JobsOwed

-----------------------------------------------------------------------------
(* A writing publish is one Publish of the contract, unless none of its    *)
(* tasks is waiting any more.                                              *)
LEMMA PublishImplements ==
  ASSUME DataInv, NEW m \in Request, Resolved(m), Run(m), Writes(m),
         m.action = "publish", m.at <= now, now' = now, now \in Nat
  PROVE  Contract!Next \/ UNCHANGED contractVars
<1>1. /\ DataTypeOK /\ InstanceMatchesTasks /\ TopicMovesTogether /\ DeadlineExact
      /\ m.id \in Instance /\ m.targets \subseteq Task /\ m.at \in 0 .. now
  BY DEF DataInv, Request
<1>2. PICK topic \in Topic : m.targets = {i \in Task : TopicOf[i] = topic}
  BY DEF Resolved, WellFormed
<1>3. m.body \in Body /\ m.targets # {}
  BY DEF Resolved, WellFormed
<1>4. Effect(m) /\ inst[m.id] = "PENDING"
  BY <1>1, RunEffect, WritesMeansAccepted
<1>5. /\ Arming(m) = {i \in m.targets : states[m.id][i] \in {"PENDING", "PUBLISHED"}}
      /\ \A i \in Task : StatesAfter(m)[i] = IF i \in Arming(m) THEN "PUBLISHED" ELSE states[m.id][i]
      /\ InstanceAfter(m) = "PENDING" /\ Arming(m) \subseteq Task
      /\ Disarming(m) = {} /\ Failing(m) = {} /\ Ending(m) = {}
  BY <1>1, PublishFacts
<1>6. /\ states' = [states EXCEPT ![m.id] = StatesAfter(m)]
      /\ payload' = [payload EXCEPT ![m.id] =
                       [i \in Task |-> IF i \in Arming(m) THEN m.body ELSE @[i]]]
      /\ inst' = [inst EXCEPT ![m.id] = InstanceAfter(m)]
  BY DEF Run
<1>7. inst' = inst /\ \A id \in Instance : inst'[id] = inst[id]
  BY <1>1, <1>4, <1>5, <1>6 DEF DataTypeOK
<1>8. DOMAIN webhooks' = DOMAIN webhooks /\ DOMAIN archive' = DOMAIN archive
  BY <1>4, <1>5 DEF Effect
<1>9. JobsOwed' = JobsOwed
  BY <1>8 DEF JobsOwed
<1>10. StatesAfter(m) = [i \in Task |-> IF i \in Arming(m) THEN "PUBLISHED" ELSE states[m.id][i]]
  BY <1>5 DEF StatesAfter
<1>11. /\ DOMAIN deadlines' = DOMAIN deadlines \cup ({m.id} \X Arming(m))
       /\ \A i \in Arming(m) : deadlines'[<<m.id, i>>] = m.at + TimeoutOf[i]
       /\ \A k \in DOMAIN deadlines \ ({m.id} \X Arming(m)) : deadlines'[k] = deadlines[k]
  BY <1>4, <1>5 DEF Effect
<1> DEFINE arm == [k \in {m.id} \X Arming(m) |-> m.at + TimeoutOf[k[2]]]
<1>12. LiveDeadlines' = ZAdd(LiveDeadlines, arm)
  <2>1. \A k \in {m.id} \X Arming(m) : inst'[k[1]] # "GONE" /\ k = <<m.id, k[2]>> /\ k[2] \in Arming(m)
    BY <1>4, <1>7
  <2>2. DOMAIN LiveDeadlines' = DOMAIN LiveDeadlines \cup DOMAIN arm
    BY <1>7, <1>11, <2>1, DueShape, DueShapeAfter
  <2>3. \A k \in DOMAIN LiveDeadlines' :
          deadlines'[k] = IF k \in DOMAIN arm THEN arm[k] ELSE LiveDeadlines[k]
    BY <1>11, <2>1, <2>2, DueShape
  <2> HIDE DEF arm
  <2> QED BY <2>2, <2>3, DueShapeAfter DEF ZAdd
<1>13. CASE Arming(m) = {}
  <2>1. states' = states
    BY <1>1, <1>6, <1>10, <1>13 DEF DataTypeOK
  <2>2. payload' = payload
    BY <1>1, <1>6, <1>13 DEF DataTypeOK
  <2>3. DOMAIN deadlines' = DOMAIN deadlines /\ LiveDeadlines' = LiveDeadlines
    BY <1>7, <1>11, <1>13 DEF LiveDeadlines
  <2> QED BY <1>7, <1>9, <2>1, <2>2, <2>3 DEF contractVars
<1>14. CASE Arming(m) # {}
  <2>1. \/ \A i \in m.targets : states[m.id][i] = "PENDING"
        \/ \A i \in m.targets : states[m.id][i] # "PENDING"
    <3>1. \A i, j \in Task : TopicOf[i] = TopicOf[j] =>
            (states[m.id][i] = "PENDING" <=> states[m.id][j] = "PENDING")
      BY <1>1, <1>4 DEF TopicMovesTogether, Exists, InstanceState
    <3>2. \A i, j \in m.targets : i \in Task /\ j \in Task /\ TopicOf[i] = TopicOf[j]
      BY <1>2
    <3> QED BY <3>1, <3>2
  <2>2. /\ states' = [states EXCEPT ![m.id] =
                       [i \in Task |-> IF i \in Arming(m) THEN "PUBLISHED" ELSE @[i]]]
        /\ payload' = [payload EXCEPT ![m.id] =
                         [i \in Task |-> IF i \in Arming(m) THEN m.body ELSE @[i]]]
    BY <1>6, <1>10
  <2>3. Contract!Publish(m.id, topic, m.at, m.body)
    <3> DEFINE T == {i \in Task : TopicOf[i] = topic}
    <3>1. m.targets = T /\ Arming(m) = {i \in T : states[m.id][i] \in {"PENDING", "PUBLISHED"}}
      BY <1>2, <1>5
    <3>2. Contract!Task = Task /\ LiveDeadlines' = Contract!ZAdd(LiveDeadlines, arm)
      BY <1>12, SameOperators
    <3>3. \/ \A i \in T : states[m.id][i] = "PENDING"
          \/ \A i \in T : states[m.id][i] # "PENDING"
      BY <2>1, <3>1
    <3>4. inst[m.id] = "PENDING" /\ m.at <= now /\ Arming(m) # {}
      BY <1>1, <1>4, <1>14
    <3> HIDE DEF T
    <3> QED BY <1>7, <1>9, <2>2, <3>1, <3>2, <3>3, <3>4 DEF Contract!Publish, T
  <2> QED BY <1>1, <1>3, <2>3 DEF Contract!Next
<1> QED BY <1>13, <1>14

(* A writing consume is one Consume of the contract, or repeats one.       *)
LEMMA ConsumeImplements ==
  ASSUME DataInv, NEW m \in Request, Resolved(m), Run(m), Writes(m),
         m.action = "consume", now' = now
  PROVE  Contract!Next \/ UNCHANGED contractVars
<1>1. /\ DataTypeOK /\ InstanceMatchesTasks /\ DeadlineExact
      /\ m.id \in Instance /\ m.targets \subseteq Task
  BY DEF DataInv, Request
<1>2. PICK t \in Task : m.targets = {t}
  BY DEF Resolved, WellFormed
<1>3. Effect(m) /\ inst[m.id] = "PENDING"
  BY <1>1, RunEffect, WritesMeansAccepted
<1>4. /\ Arming(m) = {} /\ Failing(m) = {}
      /\ \/ /\ Moving(m) = {} /\ Disarming(m) = {} /\ Ending(m) = {}
            /\ InstanceAfter(m) = "PENDING"
            /\ \A i \in Task : StatesAfter(m)[i] = states[m.id][i]
         \/ /\ states[m.id][t] = "PUBLISHED" /\ Disarming(m) = {t}
            /\ \A i \in Task : StatesAfter(m)[i] = IF i = t THEN "COMPLETED" ELSE states[m.id][i]
            /\ InstanceAfter(m) = IF \A i \in Task : StatesAfter(m)[i] = "COMPLETED"
                                  THEN "COMPLETED" ELSE "PENDING"
            /\ Ending(m) = IF InstanceAfter(m) = "COMPLETED" THEN {m.id} ELSE {}
  BY <1>1, <1>2, ConsumeFacts
<1>5. /\ states' = [states EXCEPT ![m.id] = StatesAfter(m)]
      /\ payload' = [payload EXCEPT ![m.id] =
                       [i \in Task |-> IF i \in Arming(m) THEN m.body ELSE @[i]]]
      /\ inst' = [inst EXCEPT ![m.id] = InstanceAfter(m)]
  BY DEF Run
<1>6. payload' = payload
  BY <1>1, <1>4, <1>5 DEF DataTypeOK
<1>7. /\ DOMAIN deadlines' = DOMAIN deadlines \ ({m.id} \X Disarming(m))
      /\ \A k \in DOMAIN deadlines' : deadlines'[k] = deadlines[k]
      /\ DOMAIN webhooks' = DOMAIN webhooks
      /\ DOMAIN archive' = DOMAIN archive \cup Ending(m)
  BY <1>3, <1>4 DEF Effect
<1>8. \A id \in Instance : inst'[id] = "GONE" <=> inst[id] = "GONE"
  BY <1>1, <1>3, <1>4, <1>5 DEF DataTypeOK
<1>9. \A k \in DOMAIN deadlines : k[1] \in Instance
  BY <1>1 DEF DataTypeOK, IsZSet, TaskKey
<1>10. LiveDeadlines' = ZRem(LiveDeadlines, {m.id} \X Disarming(m))
  <2>1. DOMAIN LiveDeadlines' = DOMAIN LiveDeadlines \ ({m.id} \X Disarming(m))
    BY <1>7, <1>8, <1>9, DueShape, DueShapeAfter
  <2>2. \A k \in DOMAIN LiveDeadlines' : deadlines'[k] = LiveDeadlines[k]
    BY <1>7, <2>1, DueShape, DueShapeAfter
  <2> QED BY <2>1, <2>2, DueShapeAfter DEF ZRem
<1>11. StatesAfter(m) = [i \in Task |-> StatesAfter(m)[i]]
  BY DEF StatesAfter
<1>12. CASE Disarming(m) = {} /\ Ending(m) = {} /\ InstanceAfter(m) = "PENDING"
            /\ \A i \in Task : StatesAfter(m)[i] = states[m.id][i]
  <2>1. states' = states /\ inst' = inst
    BY <1>1, <1>3, <1>5, <1>11, <1>12 DEF DataTypeOK
  <2>2. LiveDeadlines' = LiveDeadlines
    BY <1>7, <1>12, <2>1 DEF LiveDeadlines
  <2>3. JobsOwed' = JobsOwed
    BY <1>7, <1>12 DEF JobsOwed
  <2> QED BY <1>6, <2>1, <2>2, <2>3 DEF contractVars
<1>13. CASE /\ states[m.id][t] = "PUBLISHED" /\ Disarming(m) = {t}
            /\ \A i \in Task : StatesAfter(m)[i] = IF i = t THEN "COMPLETED" ELSE states[m.id][i]
            /\ InstanceAfter(m) = IF \A i \in Task : StatesAfter(m)[i] = "COMPLETED"
                                  THEN "COMPLETED" ELSE "PENDING"
            /\ Ending(m) = IF InstanceAfter(m) = "COMPLETED" THEN {m.id} ELSE {}
  <2> DEFINE last == \A i \in Task \ {t} : states[m.id][i] = "COMPLETED"
  <2>1. states' = [states EXCEPT ![m.id][t] = "COMPLETED"]
    <3>1. StatesAfter(m) = [states[m.id] EXCEPT ![t] = "COMPLETED"]
      BY <1>1, <1>11, <1>13 DEF DataTypeOK
    <3> QED BY <1>1, <1>5, <3>1 DEF DataTypeOK
  <2>2. last <=> \A i \in Task : StatesAfter(m)[i] = "COMPLETED"
    BY <1>13
  <2>3. inst' = IF last THEN [inst EXCEPT ![m.id] = "COMPLETED"] ELSE inst
    BY <1>1, <1>3, <1>5, <1>13, <2>2 DEF DataTypeOK
  <2>4. JobsOwed' = IF last THEN [JobsOwed EXCEPT !.archive = @ \cup {m.id}] ELSE JobsOwed
    BY <1>7, <1>13, <2>2 DEF JobsOwed
  <2>5. {m.id} \X Disarming(m) = {<<m.id, t>>}
    BY <1>13
  <2>6. Contract!Consume(m.id, t)
    BY <1>1, <1>2, <1>3, <1>6, <1>10, <1>13, <2>1, <2>3, <2>4, <2>5, SameOperators
       DEF Contract!Consume, Contract!Waiting
  <2> QED BY <1>1, <1>2, <2>6, SameOperators DEF Contract!Next
<1> QED BY <1>4, <1>12, <1>13

(* A writing fail is one Fail of the contract.                             *)
LEMMA FailImplements ==
  ASSUME DataInv, NEW m \in Request, Resolved(m), Run(m), Writes(m),
         m.action = "fail", now' = now
  PROVE  Contract!Next
<1>1. /\ DataTypeOK /\ InstanceMatchesTasks /\ m.id \in Instance /\ m.targets \subseteq Task
  BY DEF DataInv, Request
<1>2. PICK t \in Task : m.targets = {t}
  BY DEF Resolved, WellFormed
<1>3. Effect(m) /\ inst[m.id] = "PENDING"
  BY <1>1, RunEffect, WritesMeansAccepted
<1>4. /\ Arming(m) = {} /\ Failing(m) = {t} /\ states[m.id][t] = "PUBLISHED"
      /\ \A i \in Task : StatesAfter(m)[i] = IF i = t THEN "FAILED" ELSE states[m.id][i]
      /\ InstanceAfter(m) = "FAILED" /\ Disarming(m) = Task /\ Ending(m) = {m.id}
  BY <1>1, <1>2, FailFacts
<1>5. /\ states' = [states EXCEPT ![m.id] = StatesAfter(m)]
      /\ payload' = [payload EXCEPT ![m.id] =
                       [i \in Task |-> IF i \in Arming(m) THEN m.body ELSE @[i]]]
      /\ inst' = [inst EXCEPT ![m.id] = InstanceAfter(m)]
  BY DEF Run
<1>6. payload' = payload
  BY <1>1, <1>4, <1>5 DEF DataTypeOK
<1>7. /\ DOMAIN deadlines' = DOMAIN deadlines \ ({m.id} \X Task)
      /\ \A k \in DOMAIN deadlines' : deadlines'[k] = deadlines[k]
      /\ DOMAIN webhooks' = DOMAIN webhooks \cup ({m.id} \X {t})
      /\ DOMAIN archive' = DOMAIN archive \cup {m.id}
  BY <1>3, <1>4 DEF Effect
<1> DEFINE W == {<<m.id, t>>}
           failed == {w[1] : w \in W}
<1>8. failed = {m.id} /\ {m.id} \X {t} = W
  OBVIOUS
<1>9. \A id \in Instance, i \in Task : <<id, i>> \in W <=> id = m.id /\ i = t
  OBVIOUS
<1>10. \A w \in W : w[1] = m.id /\ w[2] = t
  OBVIOUS
<1>11. \A k \in DOMAIN deadlines : k[1] \in Instance
  BY <1>1 DEF DataTypeOK, IsZSet, TaskKey
<1>12. LiveDeadlines' = ZRem(LiveDeadlines, failed \X Task)
  <2>1. \A id \in Instance : inst'[id] = "GONE" <=> inst[id] = "GONE"
    BY <1>1, <1>3, <1>4, <1>5 DEF DataTypeOK
  <2>2. DOMAIN LiveDeadlines' = DOMAIN LiveDeadlines \ ({m.id} \X Task)
    BY <1>7, <1>11, <2>1, DueShape, DueShapeAfter
  <2>3. \A k \in DOMAIN LiveDeadlines' : deadlines'[k] = LiveDeadlines[k]
    BY <1>7, <2>2, DueShape, DueShapeAfter
  <2> QED BY <1>8, <2>2, <2>3, DueShapeAfter DEF ZRem
<1>13. inst' = [id \in Instance |-> IF id \in failed THEN "FAILED" ELSE inst[id]]
  BY <1>1, <1>4, <1>5, <1>8 DEF DataTypeOK
<1>14. states' = [id \in Instance |-> [i \in Task |->
                    IF <<id, i>> \in W THEN "FAILED" ELSE states[id][i]]]
  <2>1. StatesAfter(m) = [i \in Task |-> IF <<m.id, i>> \in W THEN "FAILED" ELSE states[m.id][i]]
    BY <1>1, <1>4, <1>9 DEF StatesAfter
  <2>2. \A id \in Instance \ {m.id} :
          states[id] = [i \in Task |-> IF <<id, i>> \in W THEN "FAILED" ELSE states[id][i]]
    <3> SUFFICES ASSUME NEW id \in Instance \ {m.id}
                 PROVE  states[id] = [i \in Task |-> IF <<id, i>> \in W THEN "FAILED" ELSE states[id][i]]
      OBVIOUS
    <3>1. \A i \in Task : <<id, i>> \notin W
      OBVIOUS
    <3>2. states[id] \in [Task -> TaskState]
      BY <1>1 DEF DataTypeOK
    <3> HIDE DEF W
    <3> QED BY <3>1, <3>2
  <2> HIDE DEF W
  <2> QED BY <1>1, <1>5, <2>1, <2>2 DEF DataTypeOK
<1>15. JobsOwed' = [archive |-> JobsOwed.archive \cup failed, webhook |-> JobsOwed.webhook \cup W]
  BY <1>7, <1>8 DEF JobsOwed
<1>16. Contract!Fails(W)
  <2>1. \A v, w \in W : v[1] = w[1] => v = w
    OBVIOUS
  <2>2. \A w \in W : inst[w[1]] = "PENDING" /\ w[2] \in Contract!Waiting(w[1])
    BY <1>1, <1>2, <1>3, <1>4, <1>10, SameOperators DEF Contract!Waiting
  <2> HIDE DEF W
  <2> QED BY <1>6, <1>12, <1>13, <1>14, <1>15, <2>1, <2>2, SameOperators
         DEF Contract!Fails, failed
<1>17. Contract!Fail(m.id, t)
  BY <1>16 DEF Contract!Fail
<1> QED BY <1>1, <1>2, <1>17, SameOperators DEF Contract!Next

(* A script call of a report is at most one step of the contract.          *)
LEMMA RunImplements ==
  ASSUME DataInv, NEW m \in Request, Resolved(m), Run(m), m.at <= now, now' = now, now \in Nat
  PROVE  Contract!Next \/ UNCHANGED contractVars
<1>1. CASE ~ Writes(m)
  BY <1>1, SameContract DEF Run
<1>2. CASE Writes(m)
  <2>1. m.action \in {"publish", "consume", "fail"}
    BY DEF Request, Action
  <2> QED BY <1>2, <2>1, PublishImplements, ConsumeImplements, FailImplements
<1> QED BY <1>1, <1>2

(* A reap_batch call is one Expire of the contract.                        *)
LEMMA ReapImplements ==
  ASSUME DataInv, NEW at \in Nat, at <= now, ReapBatch(at), now' = now, now \in Nat
  PROVE  Contract!Next
<1>1. DataTypeOK /\ DeadlineExact
  BY DEF DataInv
<1>2. PICK B \in DueBatches(deadlines, at, BatchLimit) :
        \E W \in ReapChoices(B, at) :
          LET ended == {w[1] : w \in W}
          IN /\ states' = [id \in Instance |-> [i \in Task |->
                             IF <<id, i>> \in W THEN "FAILED" ELSE states[id][i]]]
             /\ inst' = [id \in Instance |->
                           IF id \in ended THEN "FAILED" ELSE inst[id]]
             /\ deadlines' = ZRem(deadlines, Unresolvable(B, at) \cup (ended \X Task))
             /\ webhooks' = ZAdd(webhooks, [k \in W |-> at])
             /\ archive' = ZAdd(archive, [id \in ended |-> at])
             /\ UNCHANGED payload
  BY DEF ReapBatch
<1>3. PICK W \in ReapChoices(B, at) :
          /\ states' = [id \in Instance |-> [i \in Task |->
                             IF <<id, i>> \in W THEN "FAILED" ELSE states[id][i]]]
          /\ inst' = [id \in Instance |->
                           IF id \in {w[1] : w \in W} THEN "FAILED" ELSE inst[id]]
          /\ deadlines' = ZRem(deadlines, Unresolvable(B, at) \cup ({w[1] : w \in W} \X Task))
          /\ webhooks' = ZAdd(webhooks, [k \in W |-> at])
          /\ archive' = ZAdd(archive, [id \in {w[1] : w \in W} |-> at])
          /\ payload' = payload
  BY <1>2
<1> DEFINE D == Unresolvable(B, at)
           failed == {w[1] : w \in W}
<1>4. /\ B \subseteq DOMAIN deadlines /\ DOMAIN deadlines \subseteq TaskKey
      /\ \A k \in B : deadlines[k] <= at /\ deadlines[k] \in Nat
  BY <1>1 DEF DueBatches, Due, DataTypeOK, IsZSet
<1>5. W \subseteq B /\ \A w \in W : Outcome(ReapCall(w, at)) = "OK"
  BY DEF ReapChoices, Reapable
<1>6. \A w \in W : inst[w[1]] = "PENDING" /\ states[w[1]][w[2]] = "PUBLISHED"
  BY <1>1, <1>4, <1>5, ReapOutcome
<1>7. D \subseteq B /\ \A k \in D : inst[k[1]] = "GONE"
  <2>1. ASSUME NEW k \in D PROVE inst[k[1]] = "GONE"
    <3>1. k \in DOMAIN deadlines /\ k \in TaskKey /\ inst[k[1]] \in {"NONE", "GONE"}
      BY <1>1, <1>4, <2>1, ReapOutcome DEF Unresolvable
    <3>2. k = <<k[1], k[2]>> /\ k[1] \in Instance /\ k[2] \in Task
      BY <3>1 DEF TaskKey
    <3>3. inst[k[1]] # "GONE" => inst[k[1]] = "PENDING"
      BY <1>1, <3>1, <3>2 DEF DeadlineExact, Live
    <3> QED BY <3>1, <3>3
  <2> QED BY <2>1 DEF Unresolvable
<1>8. ASSUME NEW v \in W, NEW w \in W, v[1] = w[1] PROVE v = w
  <2>1. w \in Reapable(B, at)
    BY <1>5 DEF Reapable
  <2>2. PICK u \in W : \A x \in W : x[1] = w[1] => x = u
    BY <2>1 DEF ReapChoices
  <2> QED BY <1>8, <2>2
<1>9. /\ states' = [id \in Instance |-> [i \in Task |->
                        IF <<id, i>> \in W THEN "FAILED" ELSE states[id][i]]]
      /\ inst' = [id \in Instance |-> IF id \in failed THEN "FAILED" ELSE inst[id]]
      /\ payload' = payload
      /\ deadlines' = ZRem(deadlines, D \cup (failed \X Task))
      /\ webhooks' = ZAdd(webhooks, [k \in W |-> at])
      /\ archive' = ZAdd(archive, [id \in failed |-> at])
  BY <1>3 DEF D, failed
<1>10. failed \subseteq Instance /\ \A w \in W : w[1] \in failed
  BY <1>4, <1>5 DEF TaskKey
<1>11. \A id \in failed : inst[id] = "PENDING"
  BY <1>6
<1> HIDE DEF D, failed
<1>12. JobsOwed' = [archive |-> JobsOwed.archive \cup failed, webhook |-> JobsOwed.webhook \cup W]
  BY <1>9 DEF JobsOwed, ZAdd
<1>13. LiveDeadlines' = ZRem(LiveDeadlines, failed \X Task)
  <2>1. /\ DOMAIN deadlines' = DOMAIN deadlines \ (D \cup (failed \X Task))
        /\ \A k \in DOMAIN deadlines' : deadlines'[k] = deadlines[k]
    BY <1>9 DEF ZRem
  <2>2. \A id \in Instance : inst'[id] = "GONE" <=> inst[id] = "GONE"
    BY <1>1, <1>9, <1>11 DEF DataTypeOK
  <2>3. \A k \in DOMAIN deadlines : k[1] \in Instance
    BY <1>4 DEF TaskKey
  <2>4. DOMAIN LiveDeadlines' = DOMAIN LiveDeadlines \ (failed \X Task)
    BY <1>4, <1>7, <2>1, <2>2, <2>3, DueShape, DueShapeAfter
  <2>5. \A k \in DOMAIN LiveDeadlines' : deadlines'[k] = LiveDeadlines[k]
    BY <2>1, <2>4, DueShape, DueShapeAfter
  <2> QED BY <2>4, <2>5, DueShapeAfter DEF ZRem
<1>14. \A w \in W : w[2] \in Contract!Waiting(w[1])
  <2> SUFFICES ASSUME NEW w \in W PROVE w[2] \in Task /\ states[w[1]][w[2]] = "PUBLISHED"
    BY SameOperators DEF Contract!Waiting
  <2>1. w \in TaskKey
    BY <1>4, <1>5
  <2> QED BY <1>6, <2>1 DEF TaskKey
<1>15. Contract!Fails(W)
  BY <1>6, <1>8, <1>9, <1>12, <1>13, <1>14, SameOperators DEF Contract!Fails, failed
<1>16. W \in SUBSET DOMAIN LiveDeadlines /\ \A w \in W : LiveDeadlines[w] <= now
  <2>1. ASSUME NEW w \in W PROVE w \in DOMAIN LiveDeadlines /\ LiveDeadlines[w] <= now
    <3>1. w \in DOMAIN deadlines /\ inst[w[1]] # "GONE" /\ deadlines[w] <= at /\ deadlines[w] \in Nat
      BY <1>4, <1>5, <1>6
    <3> QED BY <3>1, DueShape
  <2> QED BY <2>1
<1> QED BY <1>15, <1>16 DEF Contract!Next, Contract!Expire

-----------------------------------------------------------------------------
(* The initial state.                                                      *)
LEMMA InitImplements == Init => Contract!Init /\ CallsBehind
<1> SUFFICES ASSUME Init PROVE Contract!Init /\ CallsBehind
  OBVIOUS
<1>1. LiveDeadlines = EmptyZSet /\ JobsOwed = [archive |-> {}, webhook |-> {}]
  <2>1. DOMAIN deadlines = {} /\ DOMAIN archive = {} /\ DOMAIN webhooks = {}
    BY DEF Init, EmptyZSet
  <2>2. DOMAIN LiveDeadlines = {}
    BY <2>1, DueShape
  <2> QED BY <2>1, <2>2 DEF LiveDeadlines, JobsOwed, EmptyZSet
<1> QED BY <1>1, SameOperators DEF Init, Contract!Init, CallsBehind, AllPending, NoPayloads

(* The clock readings stay behind the clock.                               *)
LEMMA NextBehind == Inv /\ CallsBehind /\ [Next]_vars => CallsBehind'
<1> SUFFICES ASSUME Inv, CallsBehind, [Next]_vars PROVE CallsBehind'
  OBVIOUS
<1>1. TypeOK /\ now \in Nat
  BY DEF Inv, TypeOK
<1>2. ASSUME NEW r \in Call, call[r] # Idle PROVE call[r].req.at \in Nat /\ call[r].req.at <= now
  BY <1>1, <1>2 DEF TypeOK, Busy, Request, CallsBehind
<1>3. ASSUME NEW w \in wire PROVE w[1].at \in Nat /\ w[1].at <= now
  <2>1. w[1] \in Request
    BY <1>1 DEF TypeOK
  <2> QED BY <2>1 DEF Request, CallsBehind
<1>4. ASSUME now' = now \/ now' = now + 1,
             \A r \in Call : call'[r] # Idle =>
               call'[r].req.at <= now \/ (call[r] # Idle /\ call'[r].req = call[r].req),
             \A w \in wire' : w \in wire \/ w[1].at <= now,
             now' = now \/ (call' = call /\ wire' = wire)
      PROVE  CallsBehind'
  <2>1. ASSUME NEW r \in Call, call'[r] # Idle PROVE call'[r].req.at <= now'
    BY <1>1, <1>2, <1>4, <2>1
  <2>2. ASSUME NEW w \in wire' PROVE w[1].at <= now'
    BY <1>1, <1>3, <1>4, <2>2
  <2> QED BY <2>1, <2>2 DEF CallsBehind
<1>5. CASE UNCHANGED <<call, wire>> /\ (now' = now \/ now' = now + 1)
  BY <1>4, <1>5
<1>6. ASSUME NEW r \in Call, NEW action \in Action, NEW retry \in BOOLEAN,
             NEW id \in Instance, NEW topic \in Topic, NEW service \in Service,
             NEW body \in Body, Report(r, action, retry, id, topic, service, body)
      PROVE  CallsBehind'
  <2>1. PICK c : call' = [call EXCEPT ![r] = c] /\ c.req.at = now
    <3> DEFINE m == [from |-> r, action |-> action, retry |-> retry, id |-> id,
                     targets |-> Resolve(action, topic, service), at |-> now,
                     body |-> IF action = "publish" THEN body ELSE NoBody]
               d == [phase |-> "sent", req |-> m, sends |-> 0, ran |-> FALSE]
    <3>1. call' = [call EXCEPT ![r] = d]
      BY <1>6 DEF Report
    <3>2. m.at = now
      OBVIOUS
    <3> HIDE DEF m
    <3>3. d.req.at = now
      BY <3>2
    <3> QED BY <3>1, <3>3
  <2>2. UNCHANGED <<now, wire>>
    BY <1>6 DEF Report
  <2>3. \A q \in Call : q = r \/ call'[q] = call[q]
    BY <1>1, <2>1 DEF TypeOK
  <2>4. call'[r].req.at <= now
    BY <1>1, <2>1 DEF TypeOK
  <2> QED BY <1>4, <2>2, <2>3, <2>4
<1>7. ASSUME NEW r \in Call, Answer(r) \/ Error(r) PROVE CallsBehind'
  <2>1. call' = [call EXCEPT ![r] = Idle] /\ UNCHANGED <<now, wire>>
    BY <1>7 DEF Answer, Error
  <2>2. \A q \in Call : call'[q] = Idle \/ call'[q] = call[q]
    BY <1>1, <2>1 DEF TypeOK
  <2> QED BY <1>4, <2>1, <2>2
<1>8. ASSUME NEW r \in Call, SendFails(r) \/ Resend(r) PROVE CallsBehind'
  <2>1. /\ call[r] \in Busy /\ call[r] # Idle
    BY <1>8, BusySlot DEF SendFails, Resend
  <2>2. PICK c : call' = [call EXCEPT ![r] = c] /\ c.req = call[r].req
    <3>1. CASE SendFails(r)
      <4>1. call' = [call EXCEPT ![r] = [call[r] EXCEPT !.phase = "lost"]]
        BY <3>1 DEF SendFails
      <4>2. [call[r] EXCEPT !.phase = "lost"].req = call[r].req
        BY <2>1, BusyUpdates
      <4> QED BY <4>1, <4>2
    <3>2. CASE Resend(r)
      <4>1. /\ call' = [call EXCEPT ![r] = [call[r] EXCEPT !.phase = "sent", !.sends = @ + 1]]
            /\ call[r].sends < MaxResend
        BY <3>2 DEF Resend
      <4>2. [call[r] EXCEPT !.phase = "sent", !.sends = @ + 1].req = call[r].req
        BY <2>1, <4>1, BusyUpdates
      <4> QED BY <4>1, <4>2
    <3> QED BY <1>8, <3>1, <3>2
  <2>3. \A q \in Call : IF q = r THEN call'[q].req = call[r].req ELSE call'[q] = call[q]
    BY <1>1, <2>2 DEF TypeOK
  <2>4. now' = now /\ \A w \in wire' : w \in wire \/ w = <<call[r].req, call[r].sends>>
    BY <1>8 DEF SendFails, Resend
  <2>5. \A w \in wire' : w \in wire \/ w[1].at <= now
    BY <1>2, <2>1, <2>4
  <2> QED BY <1>4, <2>1, <2>3, <2>4, <2>5
<1>9. ASSUME NEW w \in wire, LateRun(w) PROVE CallsBehind'
  <2>1. /\ wire' = wire \ {w} /\ now' = now
        /\ call' = [r \in Call |->
                IF call[r] # Idle /\ call[r].req = w[1] /\ Changes(w[1])
                THEN [call[r] EXCEPT !.ran = TRUE] ELSE call[r]]
    BY <1>9 DEF LateRun
  <2>2. ASSUME NEW r \in Call, call'[r] # Idle
        PROVE  call[r] # Idle /\ call'[r].req = call[r].req
    <3>1. CASE call[r] = Idle
      BY <2>1, <2>2, <3>1
    <3>2. CASE call[r] \in Busy
      <4>1. [call[r] EXCEPT !.ran = TRUE].req = call[r].req /\ call[r] # Idle
        BY <3>2, BusyUpdates
      <4> QED BY <2>1, <4>1
    <3> QED BY <1>1, <3>1, <3>2 DEF TypeOK
  <2> QED BY <1>4, <2>1, <2>2
<1>10. UNCHANGED vars => UNCHANGED <<call, wire, now>>
  BY DEF vars
<1>11. ASSUME NEW id \in Instance, StartInstance(id) \/ DeleteInstance(id)
       PROVE  UNCHANGED <<call, wire, now>>
  BY <1>11 DEF StartInstance, DeleteInstance
<1>12. ASSUME NEW p \in Reaper, ReapRead(p) \/ ReapTick(p) \/ ReapError(p)
       PROVE  UNCHANGED <<call, wire, now>>
  BY <1>12 DEF ReapRead, ReapTick, ReapError
<1>13. ClockTick => UNCHANGED <<call, wire>> /\ now' = now + 1
  BY DEF ClockTick
<1> QED BY <1>5, <1>6, <1>7, <1>8, <1>9, <1>10, <1>11, <1>12, <1>13 DEF Next

(* Every step of the engine is a step of the contract, or shows nothing.   *)
LEMMA StepImplementsContract ==
  ASSUME Inv, CallsBehind, [Next]_vars
  PROVE  [Contract!Next]_contractVars
<1>1. /\ TypeOK /\ DataInv /\ InFlight /\ ReapersBehind /\ DataTypeOK /\ DeadlineExact /\ now \in Nat
  BY DEF Inv, DataInv, TypeOK
<1>2. CASE UNCHANGED <<redisVars, now>>
  BY <1>2, SameContract
<1>3. ASSUME NEW id \in Instance, StartInstance(id) PROVE Contract!Next
  <2>1. /\ inst[id] = "NONE" /\ inst' = [inst EXCEPT ![id] = "PENDING"]
        /\ UNCHANGED <<states, payload, deadlines, archive, webhooks, now>>
    BY <1>3 DEF StartInstance, queueVars
  <2>2. \A x \in Instance : inst'[x] = "GONE" <=> inst[x] = "GONE"
    BY <1>1, <2>1 DEF DataTypeOK
  <2>3. \A k \in DOMAIN deadlines : k[1] \in Instance
    BY <1>1 DEF DataTypeOK, IsZSet, TaskKey
  <2>4. DOMAIN LiveDeadlines' = DOMAIN LiveDeadlines
    BY <2>1, <2>2, <2>3, DueShape, DueShapeAfter
  <2>5. LiveDeadlines' = LiveDeadlines /\ JobsOwed' = JobsOwed
    BY <2>1, <2>4 DEF LiveDeadlines, JobsOwed
  <2>6. Contract!Start(id)
    BY <2>1, <2>5, SameOperators DEF Contract!Start
  <2> QED BY <2>6 DEF Contract!Next
<1>4. ASSUME NEW id \in Instance, DeleteInstance(id) PROVE Contract!Next
  <2>1. /\ inst[id] \notin {"NONE", "GONE"} /\ inst' = [inst EXCEPT ![id] = "GONE"]
        /\ states' = [states EXCEPT ![id] = AllPending]
        /\ payload' = [payload EXCEPT ![id] = NoPayloads]
        /\ UNCHANGED <<deadlines, archive, webhooks, now>>
    BY <1>4 DEF DeleteInstance, queueVars, Exists, InstanceState, Terminal
  <2>2. \A x \in Instance : inst'[x] = IF x = id THEN "GONE" ELSE inst[x]
    BY <1>1, <2>1 DEF DataTypeOK
  <2>3. \A k \in DOMAIN deadlines : k[1] \in Instance /\ (k[1] = id <=> k \in {id} \X Task)
    BY <1>1 DEF DataTypeOK, IsZSet, TaskKey
  <2>4. DOMAIN LiveDeadlines' = DOMAIN LiveDeadlines \ ({id} \X Task)
    BY <2>1, <2>2, <2>3, DueShape, DueShapeAfter
  <2>5. LiveDeadlines' = ZRem(LiveDeadlines, {id} \X Task)
    BY <2>1, <2>4, DueShape, DueShapeAfter DEF ZRem
  <2>6. JobsOwed' = JobsOwed
    BY <2>1 DEF JobsOwed
  <2>7. Contract!Delete(id)
    BY <2>1, <2>5, <2>6, SameOperators DEF Contract!Delete, AllPending, NoPayloads
  <2> QED BY <2>7 DEF Contract!Next
<1>5. ASSUME NEW r \in Call, Answer(r) PROVE Contract!Next \/ UNCHANGED contractVars
  <2>1. /\ call[r].req \in Request /\ Resolved(call[r].req) /\ call[r] # Idle
    BY <1>5, BusySlot DEF Answer
  <2>2. Run(call[r].req) /\ now' = now /\ call[r].req.at <= now
    BY <1>5, <2>1 DEF Answer, CallsBehind
  <2> QED BY <1>1, <2>1, <2>2, RunImplements
<1>6. ASSUME NEW w \in wire, LateRun(w) PROVE Contract!Next \/ UNCHANGED contractVars
  <2>1. w[1] \in Request /\ Resolved(w[1]) /\ w[1].at <= now
    BY <1>1 DEF TypeOK, InFlight, CallsBehind
  <2>2. Run(w[1]) /\ now' = now
    BY <1>6 DEF LateRun
  <2> QED BY <1>1, <2>1, <2>2, RunImplements
<1>7. ASSUME NEW p \in Reaper, ReapTick(p) PROVE Contract!Next
  <2>1. reaper[p] \in Nat /\ reaper[p] <= now /\ ReapBatch(reaper[p]) /\ now' = now
    BY <1>1, <1>7 DEF ReapTick, TypeOK, ReapersBehind
  <2> QED BY <1>1, <2>1, ReapImplements
<1>8. ASSUME ClockTick PROVE Contract!Next
  <2>1. UNCHANGED <<inst, states, payload, LiveDeadlines, JobsOwed>> /\ now' = now + 1
    BY <1>8 DEF ClockTick, redisVars, LiveDeadlines, JobsOwed
  <2>2. Contract!Tick
    BY <2>1 DEF Contract!Tick
  <2> QED BY <2>2 DEF Contract!Next
<1>9. UNCHANGED vars => UNCHANGED <<redisVars, now>>
  BY DEF vars, redisVars
<1>10. ASSUME NEW r \in Call, NEW action \in Action, NEW retry \in BOOLEAN,
              NEW x \in Instance, NEW topic \in Topic, NEW service \in Service,
              NEW body \in Body, Report(r, action, retry, x, topic, service, body)
       PROVE  UNCHANGED <<redisVars, now>>
  BY <1>10 DEF Report
<1>11. ASSUME NEW r \in Call, SendFails(r) \/ Resend(r) \/ Error(r)
       PROVE  UNCHANGED <<redisVars, now>>
  BY <1>11 DEF SendFails, Resend, Error
<1>12. ASSUME NEW p \in Reaper, ReapRead(p) \/ ReapError(p)
       PROVE  UNCHANGED <<redisVars, now>>
  BY <1>12 DEF ReapRead, ReapError
<1> QED BY <1>2, <1>3, <1>4, <1>5, <1>6, <1>7, <1>8, <1>9, <1>10, <1>11, <1>12 DEF Next

(* Atomicity of the reports: every handler, re-sent call, late execution   *)
(* and reaper tick of the engine is, on the documents and the due          *)
(* deadlines, one step of the contract (transition.lua 78-251,             *)
(* instance_engine.go 321-465, reaper.go 60-147).                          *)
THEOREM EngineImplementsContract == Spec => ImplementsContract
<1>1. Inv /\ CallsBehind /\ [Next]_vars => [Contract!Next]_contractVars
  BY StepImplementsContract
<1> QED BY <1>1, InitImplements, InitInv, NextInv, NextBehind, PTL
        DEF Spec, ImplementsContract, Contract!Spec, contractVars
=============================================================================
