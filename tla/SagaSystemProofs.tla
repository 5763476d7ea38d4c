-------------------------- MODULE SagaSystemProofs ---------------------------
(***************************************************************************)
(* What the composition of contract, queues, jobs and registry guarantees, *)
(* for any workflow, any instances, lanes, senders, files and URLs.        *)
(***************************************************************************)
EXTENDS SagaSystem, TLAPS

TaskState == {"PENDING", "PUBLISHED", "COMPLETED", "FAILED"}

(* The part of TypeOK that the contract alone is about.                    *)
ContractTypeOK ==
  /\ inst \in [Instance -> {"NONE", "PENDING", "GONE"} \cup Terminal]
  /\ states \in [Instance -> [Task -> TaskState]]
  /\ payload \in [Instance -> [Task -> Body \cup {NoBody}]]
  /\ IsZSet(due, TaskKey, Nat) /\ now \in Nat
  /\ owed \in [archive : SUBSET Instance, webhook : SUBSET TaskKey]

(* A task fails with its instance, and one that has left PENDING has the   *)
(* payload of its publish.                                                 *)
Documents ==
  \A id \in Instance, t \in Task :
    /\ inst[id] \in {"NONE", "PENDING"} => states[id][t] # "FAILED"
    /\ states[id][t] # "PENDING" => payload[id][t] # NoBody

(* What an instance has ended for, it owes, and nothing else.              *)
OwedExactly ==
  /\ \A id \in Instance :
       /\ inst[id] \in Terminal => id \in owed.archive
       /\ id \in owed.archive => inst[id] \in Terminal \cup {"GONE"}
  /\ \A id \in Instance, t \in Task :
       /\ inst[id] = "FAILED" /\ states[id][t] = "FAILED" => <<id, t>> \in owed.webhook
       /\ <<id, t>> \in owed.webhook =>
            inst[id] = "GONE" \/ (inst[id] = "FAILED" /\ states[id][t] = "FAILED")

ContractInv == ContractTypeOK /\ Documents /\ OwedExactly

(* What every step of the contract leaves alone: a deleted instance stays  *)
(* deleted, the document of one that has ended can only be deleted, and    *)
(* what is owed stays owed.                                                *)
EndedStays ==
  /\ \A id \in Instance :
       /\ inst[id] = "GONE" => inst'[id] = "GONE"
       /\ inst[id] \in Terminal =>
            \/ inst'[id] = "GONE"
            \/ inst'[id] = inst[id] /\ states'[id] = states[id] /\ payload'[id] = payload[id]
  /\ owed.archive \subseteq owed'.archive /\ owed.webhook \subseteq owed'.webhook

-----------------------------------------------------------------------------
(* ZREM gives a sorted set.                                                *)
LEMMA ZRemType ==
  ASSUME NEW M, NEW S, NEW z, IsZSet(z, M, S), NEW R
  PROVE  IsZSet(ZRem(z, R), M, S)
BY DEF IsZSet, ZRem

(* ZADD gives a sorted set.                                                *)
LEMMA ZAddType ==
  ASSUME NEW M, NEW S, NEW z, IsZSet(z, M, S), NEW u, IsZSet(u, M, S)
  PROVE  IsZSet(ZAdd(z, u), M, S)
BY DEF IsZSet, ZAdd

(* Nothing is owed at the start.                                           *)
LEMMA ContractInit == Init => ContractInv
<1> SUFFICES ASSUME Init PROVE ContractInv
  OBVIOUS
<1>1. IsZSet(due, TaskKey, Nat)
  BY DEF Init, IsZSet, EmptyZSet
<1>2. ContractTypeOK
  BY <1>1 DEF Init, ContractTypeOK, TaskState
<1>3. Documents /\ OwedExactly
  BY DEF Init, Documents, OwedExactly, Terminal
<1> QED BY <1>2, <1>3 DEF ContractInv

(* A publish changes tasks and payloads of a live instance, together.      *)
LEMMA PublishKeeps ==
  ASSUME ContractInv, NEW id \in Instance, NEW topic \in Topic, NEW at \in 0 .. now,
         NEW body \in Body, Publish(id, topic, at, body)
  PROVE  ContractInv' /\ EndedStays
<1> DEFINE arm == {i \in Task : TopicOf[i] = topic /\ states[id][i] \in {"PENDING", "PUBLISHED"}}
<1>1. ContractTypeOK /\ Documents /\ OwedExactly
  BY DEF ContractInv
<1>2. /\ inst[id] = "PENDING"
      /\ states' = [states EXCEPT ![id] = [i \in Task |-> IF i \in arm THEN "PUBLISHED" ELSE @[i]]]
      /\ payload' = [payload EXCEPT ![id] = [i \in Task |-> IF i \in arm THEN body ELSE @[i]]]
      /\ due' = ZAdd(due, [k \in {id} \X arm |-> at + TimeoutOf[k[2]]])
      /\ UNCHANGED <<inst, owed, now>>
  <2>1. arm = {i \in {i \in Task : TopicOf[i] = topic} : states[id][i] \in {"PENDING", "PUBLISHED"}}
    OBVIOUS
  <2> QED BY <2>1 DEF Publish
<1>3. arm \subseteq Task
  OBVIOUS
<1> HIDE DEF arm
<1>4. IsZSet([k \in {id} \X arm |-> at + TimeoutOf[k[2]]], TaskKey, Nat)
  <2>1. \A k \in {id} \X arm : k \in TaskKey /\ at + TimeoutOf[k[2]] \in Nat
    BY <1>1, <1>3, WorkflowValid DEF TaskKey, ContractTypeOK
  <2> QED BY <2>1 DEF IsZSet
<1>5. IsZSet(due', TaskKey, Nat)
  BY <1>1, <1>2, <1>4, ZAddType DEF ContractTypeOK
<1>6. /\ states' \in [Instance -> [Task -> TaskState]]
      /\ payload' \in [Instance -> [Task -> Body \cup {NoBody}]]
  BY <1>1, <1>2 DEF ContractTypeOK, TaskState
<1>7. \A j \in Instance, t \in Task :
        /\ states'[j][t] = IF j = id /\ t \in arm THEN "PUBLISHED" ELSE states[j][t]
        /\ payload'[j][t] = IF j = id /\ t \in arm THEN body ELSE payload[j][t]
  BY <1>1, <1>2 DEF ContractTypeOK
<1>8. ContractTypeOK'
  BY <1>1, <1>2, <1>5, <1>6 DEF ContractTypeOK
<1>9. Documents'
  BY <1>1, <1>2, <1>7, SystemAssumption DEF Documents
<1>10. OwedExactly'
  BY <1>1, <1>2, <1>7 DEF OwedExactly, Terminal
<1>11. EndedStays
  BY <1>1, <1>2 DEF EndedStays, ContractTypeOK, Terminal
<1> QED BY <1>8, <1>9, <1>10, <1>11 DEF ContractInv

(* The last consume of an instance ends it and owes its archiving.         *)
LEMMA ConsumeKeeps ==
  ASSUME ContractInv, NEW id \in Instance, NEW t \in Task, Consume(id, t)
  PROVE  ContractInv' /\ EndedStays
<1> DEFINE last == \A i \in Task \ {t} : states[id][i] = "COMPLETED"
<1>1. ContractTypeOK /\ Documents /\ OwedExactly
  BY DEF ContractInv
<1>2. /\ inst[id] = "PENDING" /\ states[id][t] = "PUBLISHED"
      /\ states' = [states EXCEPT ![id][t] = "COMPLETED"]
      /\ inst' = IF last THEN [inst EXCEPT ![id] = "COMPLETED"] ELSE inst
      /\ due' = ZRem(due, {<<id, t>>})
      /\ owed' = IF last THEN [owed EXCEPT !.archive = @ \cup {id}] ELSE owed
      /\ UNCHANGED <<payload, now>>
  BY DEF Consume, Waiting
<1> HIDE DEF last
<1>3. IsZSet(due', TaskKey, Nat)
  BY <1>1, <1>2, ZRemType DEF ContractTypeOK
<1>4. \A j \in Instance : inst'[j] = IF last /\ j = id THEN "COMPLETED" ELSE inst[j]
  BY <1>1, <1>2 DEF ContractTypeOK
<1>5. /\ owed' \in [archive : SUBSET Instance, webhook : SUBSET TaskKey]
      /\ owed'.archive = IF last THEN owed.archive \cup {id} ELSE owed.archive
      /\ owed'.webhook = owed.webhook
  BY <1>1, <1>2 DEF ContractTypeOK
<1>6. states' \in [Instance -> [Task -> TaskState]]
  BY <1>1, <1>2 DEF ContractTypeOK, TaskState
<1>7. \A j \in Instance, u \in Task :
        states'[j][u] = IF j = id /\ u = t THEN "COMPLETED" ELSE states[j][u]
  BY <1>1, <1>2 DEF ContractTypeOK
<1>8. ContractTypeOK'
  BY <1>1, <1>2, <1>3, <1>5, <1>6 DEF ContractTypeOK, Terminal
<1>9. Documents'
  BY <1>1, <1>2, <1>4, <1>7 DEF Documents
<1>10. OwedExactly'
  BY <1>1, <1>2, <1>4, <1>5, <1>7 DEF OwedExactly, Terminal
<1>11. \A j \in Instance : j # id => states'[j] = states[j]
  BY <1>1, <1>2 DEF ContractTypeOK
<1>12. EndedStays
  BY <1>2, <1>4, <1>5, <1>11 DEF EndedStays, Terminal
<1> QED BY <1>8, <1>9, <1>10, <1>12 DEF ContractInv

(* A failed task takes its instance with it, and both are owed.            *)
LEMMA FailsKeeps ==
  ASSUME ContractInv, NEW W \in SUBSET TaskKey, Fails(W)
  PROVE  ContractInv' /\ EndedStays
<1> DEFINE failed == {w[1] : w \in W}
<1>1. ContractTypeOK /\ Documents /\ OwedExactly
  BY DEF ContractInv
<1>2. /\ \A w \in W : inst[w[1]] = "PENDING" /\ states[w[1]][w[2]] = "PUBLISHED"
      /\ states' = [id \in Instance |-> [i \in Task |->
                      IF <<id, i>> \in W THEN "FAILED" ELSE states[id][i]]]
      /\ inst' = [id \in Instance |-> IF id \in failed THEN "FAILED" ELSE inst[id]]
      /\ due' = ZRem(due, failed \X Task)
      /\ owed' = [archive |-> owed.archive \cup failed, webhook |-> owed.webhook \cup W]
      /\ UNCHANGED <<payload, now>>
  BY DEF Fails, Waiting
<1>3. /\ failed \subseteq Instance
      /\ \A id \in failed : inst[id] = "PENDING"
      /\ \A id \in Instance, t \in Task : <<id, t>> \in W =>
            id \in failed /\ inst[id] = "PENDING" /\ states[id][t] = "PUBLISHED"
      /\ \A id \in failed : \E t \in Task : <<id, t>> \in W
  <2>1. \A w \in W : w = <<w[1], w[2]>> /\ w[1] \in Instance /\ w[2] \in Task /\ w[1] \in failed
    BY DEF TaskKey
  <2>2. \A id \in failed : \E w \in W : w[1] = id
    OBVIOUS
  <2>3. \A id \in Instance, t \in Task : <<id, t>> \in W =>
          id \in failed /\ inst[id] = "PENDING" /\ states[id][t] = "PUBLISHED"
    <3> SUFFICES ASSUME NEW id \in Instance, NEW t \in Task, <<id, t>> \in W
                 PROVE  id \in failed /\ inst[id] = "PENDING" /\ states[id][t] = "PUBLISHED"
      OBVIOUS
    <3> DEFINE w == <<id, t>>
    <3>1. w \in W /\ w[1] = id /\ w[2] = t
      OBVIOUS
    <3> HIDE DEF w
    <3> QED BY <1>2, <2>1, <3>1
  <2> HIDE DEF failed
  <2>4. \A id \in failed : id \in Instance /\ inst[id] = "PENDING" /\ \E t \in Task : <<id, t>> \in W
    <3> SUFFICES ASSUME NEW id \in failed
                 PROVE  id \in Instance /\ inst[id] = "PENDING" /\ \E t \in Task : <<id, t>> \in W
      OBVIOUS
    <3>1. PICK w \in W : w[1] = id
      BY <2>2
    <3>2. w = <<id, w[2]>> /\ id \in Instance /\ w[2] \in Task
      BY <2>1, <3>1
    <3>3. inst[id] = "PENDING"
      BY <1>2, <3>1
    <3> QED BY <3>2, <3>3
  <2> QED BY <2>3, <2>4
<1> HIDE DEF failed
<1>4. IsZSet(due', TaskKey, Nat)
  BY <1>1, <1>2, ZRemType DEF ContractTypeOK
<1>5. /\ states' \in [Instance -> [Task -> TaskState]]
      /\ inst' \in [Instance -> {"NONE", "PENDING", "GONE"} \cup Terminal]
      /\ owed' \in [archive : SUBSET Instance, webhook : SUBSET TaskKey]
  BY <1>1, <1>2, <1>3 DEF ContractTypeOK, TaskState, Terminal
<1>6. \A id \in Instance, t \in Task :
        states'[id][t] = IF <<id, t>> \in W THEN "FAILED" ELSE states[id][t]
  BY <1>2
<1>7. ContractTypeOK'
  BY <1>1, <1>2, <1>4, <1>5 DEF ContractTypeOK
<1>8. Documents'
  <2> SUFFICES ASSUME NEW id \in Instance, NEW t \in Task
               PROVE  /\ inst'[id] \in {"NONE", "PENDING"} => states'[id][t] # "FAILED"
                      /\ states'[id][t] # "PENDING" => payload'[id][t] # NoBody
    BY DEF Documents
  <2>1. CASE id \in failed
    BY <1>1, <1>2, <1>3, <1>6, <2>1 DEF Documents
  <2>2. CASE id \notin failed
    <3>1. inst'[id] = inst[id] /\ states'[id][t] = states[id][t]
      BY <1>2, <1>3, <1>6, <2>2
    <3> QED BY <1>1, <1>2, <3>1 DEF Documents
  <2> QED BY <2>1, <2>2
<1>9. OwedExactly'
  <2>1. ASSUME NEW id \in Instance
        PROVE  /\ inst'[id] \in Terminal => id \in owed'.archive
               /\ id \in owed'.archive => inst'[id] \in Terminal \cup {"GONE"}
    BY <1>1, <1>2 DEF OwedExactly, Terminal
  <2>2. ASSUME NEW id \in Instance, NEW t \in Task
        PROVE  /\ inst'[id] = "FAILED" /\ states'[id][t] = "FAILED" => <<id, t>> \in owed'.webhook
               /\ <<id, t>> \in owed'.webhook =>
                    inst'[id] = "GONE" \/ (inst'[id] = "FAILED" /\ states'[id][t] = "FAILED")
    <3>1. CASE id \in failed
      BY <1>1, <1>2, <1>3, <1>6, <3>1 DEF OwedExactly, Documents
    <3>2. CASE id \notin failed
      <4>1. <<id, t>> \notin W /\ inst'[id] = inst[id] /\ states'[id][t] = states[id][t]
        BY <1>2, <1>3, <1>6, <3>2
      <4> QED BY <1>1, <1>2, <4>1 DEF OwedExactly
    <3> QED BY <3>1, <3>2
  <2> QED BY <2>1, <2>2 DEF OwedExactly
<1>10. EndedStays
  <2>1. ASSUME NEW id \in Instance, inst[id] \in Terminal
        PROVE  inst'[id] = inst[id] /\ states'[id] = states[id]
    <3>1. id \notin failed /\ \A t \in Task : <<id, t>> \notin W
      BY <1>3, <2>1 DEF Terminal
    <3>2. states[id] \in [Task -> TaskState]
      BY <1>1 DEF ContractTypeOK
    <3> QED BY <1>2, <3>1, <3>2
  <2>2. ASSUME NEW id \in Instance, inst[id] = "GONE" PROVE inst'[id] = "GONE"
    BY <1>2, <1>3, <2>2
  <2> QED BY <1>2, <2>1, <2>2 DEF EndedStays
<1> QED BY <1>7, <1>8, <1>9, <1>10 DEF ContractInv

(* Every step of the contract.                                             *)
LEMMA ContractStep ==
  ASSUME ContractInv, Next
  PROVE  ContractInv' /\ EndedStays
<1>1. ContractTypeOK /\ Documents /\ OwedExactly
  BY DEF ContractInv
<1>2. ASSUME NEW id \in Instance, Start(id) PROVE ContractInv' /\ EndedStays
  <2>1. ContractTypeOK'
    BY <1>1, <1>2 DEF Start, ContractTypeOK
  <2>2. Documents' /\ OwedExactly' /\ EndedStays
    BY <1>1, <1>2 DEF Start, ContractTypeOK, Documents, OwedExactly, EndedStays, Terminal
  <2> QED BY <2>1, <2>2 DEF ContractInv
<1>3. ASSUME NEW id \in Instance, Delete(id) PROVE ContractInv' /\ EndedStays
  <2>1. IsZSet(due', TaskKey, Nat)
    BY <1>1, <1>3, ZRemType DEF ContractTypeOK, Delete
  <2>2. ContractTypeOK'
    BY <1>1, <1>3, <2>1 DEF Delete, ContractTypeOK, TaskState
  <2>3. Documents' /\ OwedExactly' /\ EndedStays
    BY <1>1, <1>3 DEF Delete, ContractTypeOK, Documents, OwedExactly, EndedStays, Terminal
  <2> QED BY <2>2, <2>3 DEF ContractInv
<1>4. ASSUME NEW id \in Instance, NEW t \in Task, Fail(id, t) PROVE ContractInv' /\ EndedStays
  <2>1. {<<id, t>>} \in SUBSET TaskKey
    BY DEF TaskKey
  <2> QED BY <1>4, <2>1, FailsKeeps DEF Fail
<1>5. ASSUME NEW W \in SUBSET DOMAIN due, Expire(W) PROVE ContractInv' /\ EndedStays
  <2>1. W \in SUBSET TaskKey
    BY <1>1 DEF ContractTypeOK, IsZSet
  <2> QED BY <1>5, <2>1, FailsKeeps DEF Expire
<1>6. CASE Tick
  <2>1. ContractTypeOK'
    BY <1>1, <1>6 DEF Tick, ContractTypeOK
  <2>2. Documents' /\ OwedExactly' /\ EndedStays
    BY <1>1, <1>6 DEF Tick, Documents, OwedExactly, EndedStays
  <2> QED BY <2>1, <2>2 DEF ContractInv
<1> QED BY <1>2, <1>3, <1>4, <1>5, <1>6, PublishKeeps, ConsumeKeeps DEF Next

-----------------------------------------------------------------------------
ArchiverSlot == {Idle} \cup [step : {"insert"}, job : Instance, doc : Document]
                       \cup [step : {"retry", "ack"}, job : Instance]

SenderSlot == {Idle} \cup [step : {"lookup"}, job : TaskKey, msg : Message]
                     \cup [step : {"post"}, job : TaskKey, msg : Message, url : Url]
                     \cup [step : {"retry", "ack"}, job : TaskKey]

(* A document, in a lane's hands or in the table, that will not change.    *)
Final(id, doc) == doc.state \in Terminal /\ (inst[id] # "GONE" => doc = Doc(id))

(* A message about a failed task, with the payload it was published with.  *)
OfFailure(m) ==
  inst[m.task[1]] # "GONE" =>
    /\ inst[m.task[1]] = "FAILED" /\ states[m.task[1]][m.task[2]] = "FAILED"
    /\ m = MessageOf(m.task) /\ m.body # NoBody

ArchiveTypeOK ==
  /\ archivePending \subseteq Instance
  /\ archiveEnded \in [Instance -> SUBSET ArchiveQ!HowEnded]
  /\ archiver \in [Lane -> ArchiverSlot]
  /\ DOMAIN rows \subseteq Instance /\ rows \in [DOMAIN rows -> Document]

(* Every ending is queued or has been dealt with: its row is there, or its *)
(* document is not.                                                        *)
ArchiveAccounts ==
  /\ archivePending \subseteq owed.archive
  /\ \A id \in owed.archive : id \in archivePending \/ archiveEnded[id] # {}
  /\ \A id \in Instance :
       /\ "delivered" \in archiveEnded[id] => id \in DOMAIN rows
       /\ "dropped" \in archiveEnded[id] => inst[id] = "GONE"
       /\ "gaveUp" \notin archiveEnded[id]

(* What a lane is about to insert is final, however long ago it was read.  *)
ArchiversTrue ==
  \A l \in Lane : archiver[l].step = "insert" => Final(archiver[l].job, archiver[l].doc)

ArchiveInv == ArchiveTypeOK /\ ArchiveAccounts /\ ArchiversTrue /\ ArchivedIsFinal

WebhookTypeOK ==
  /\ webhookPending \subseteq TaskKey
  /\ webhookEnded \in [TaskKey -> SUBSET WebhookQ!HowEnded]
  /\ sender \in [Sender -> SenderSlot]
  /\ registry \in RegistryFile \cup {Unreadable}
  /\ registries \subseteq RegistryFile
  /\ received \subseteq Message \X Url

(* Every failure is queued or has been dealt with.                         *)
WebhookAccounts ==
  /\ webhookPending \subseteq owed.webhook
  /\ \A k \in owed.webhook : k \in webhookPending \/ webhookEnded[k] # {}
  /\ \A k \in TaskKey :
       /\ "delivered" \in webhookEnded[k] => \E r \in received : r[1].task = k
       /\ "dropped" \in webhookEnded[k] =>
            inst[k[1]] = "GONE" \/ \E file \in registries : file[FromOf[k[2]]] = NoUrl

(* What a sender carries is about its job, and the URL is one that some    *)
(* file gave for it, even if the file has been replaced since.             *)
SendersTrue ==
  \A l \in Sender :
    /\ sender[l].step \in {"lookup", "post"} =>
         sender[l].msg.task = sender[l].job /\ OfFailure(sender[l].msg)
    /\ sender[l].step = "post" =>
         \E file \in registries : file[FromOf[sender[l].job[2]]] = sender[l].url

RegistryKnown == registry # Unreadable => registry \in registries

WebhookInv ==
  WebhookTypeOK /\ WebhookAccounts /\ SendersTrue /\ RegistryKnown /\ DeliveredToPublisher

SystemInv == ContractInv /\ ArchiveInv /\ WebhookInv

-----------------------------------------------------------------------------
(* The parts of the invariant are those of TypeOK, and more.               *)
LEMMA InvTypeOK == SystemInv => TypeOK
BY DEF SystemInv, ContractInv, ContractTypeOK, TaskState, ArchiveInv, ArchiveTypeOK, ArchiverSlot,
       WebhookInv, WebhookTypeOK, SenderSlot, TypeOK

(* At the start every queue, lane and table is empty.                      *)
LEMMA InitSystemInv == SystemInit => SystemInv
<1> SUFFICES ASSUME SystemInit PROVE SystemInv
  OBVIOUS
<1>1. ContractInv
  BY ContractInit DEF SystemInit
<1>2. owed.archive = {} /\ owed.webhook = {}
  BY DEF SystemInit, Init
<1>3. ArchiveInv
  BY <1>2 DEF SystemInit, ArchiveInv, ArchiveTypeOK, ArchiverSlot, Idle, ArchiveAccounts, ArchiversTrue,
     ArchivedIsFinal
<1>4. WebhookTypeOK
  BY SystemAssumption DEF SystemInit, WebhookTypeOK, SenderSlot, Idle
<1>5. WebhookAccounts /\ SendersTrue /\ RegistryKnown /\ DeliveredToPublisher
  BY <1>2 DEF SystemInit, WebhookAccounts, SendersTrue, Idle, RegistryKnown, DeliveredToPublisher
<1> QED BY <1>1, <1>3, <1>4, <1>5 DEF SystemInv, WebhookInv

(* A final document stays final.                                           *)
LEMMA FinalStays ==
  ASSUME EndedStays, NEW id \in Instance, NEW doc, Final(id, doc)
  PROVE  Final(id, doc)'
<1>1. CASE inst[id] = "GONE"
  BY <1>1 DEF EndedStays, Final
<1>2. CASE inst[id] # "GONE"
  <2>1. doc = Doc(id) /\ inst[id] \in Terminal
    BY <1>2 DEF Final, Doc
  <2>2. inst'[id] = "GONE" \/ Doc(id)' = Doc(id)
    BY <2>1 DEF EndedStays, Doc
  <2> QED BY <2>1, <2>2 DEF Final
<1> QED BY <1>1, <1>2

(* A failure stays one.                                                    *)
LEMMA FailureStays ==
  ASSUME EndedStays, NEW m \in Message, OfFailure(m)
  PROVE  OfFailure(m)'
<1>1. m.task[1] \in Instance
  BY DEF Message, TaskKey
<1>2. CASE inst[m.task[1]] = "GONE"
  BY <1>1, <1>2 DEF EndedStays, OfFailure
<1>3. CASE inst[m.task[1]] # "GONE"
  <2>1. inst[m.task[1]] \in Terminal
    BY <1>3 DEF OfFailure, Terminal
  <2>2. \/ inst'[m.task[1]] = "GONE"
        \/ /\ inst'[m.task[1]] = inst[m.task[1]] /\ states'[m.task[1]] = states[m.task[1]]
           /\ payload'[m.task[1]] = payload[m.task[1]]
    BY <1>1, <2>1 DEF EndedStays
  <2> QED BY <1>3, <2>2 DEF OfFailure, MessageOf
<1> QED BY <1>2, <1>3

-----------------------------------------------------------------------------
(* A step of the engine: what is new is queued, what lanes carry is final. *)
LEMMA EngineKeeps == ASSUME SystemInv, Engine PROVE SystemInv'
<1>1. /\ ContractInv /\ ArchiveTypeOK /\ ArchiveAccounts /\ ArchiversTrue /\ ArchivedIsFinal
      /\ WebhookTypeOK /\ WebhookAccounts /\ SendersTrue /\ RegistryKnown /\ DeliveredToPublisher
  BY DEF SystemInv, ArchiveInv, WebhookInv
<1>2. ContractInv' /\ EndedStays
  BY <1>1, ContractStep DEF Engine
<1>3. /\ archivePending' = archivePending \cup (owed'.archive \ owed.archive)
      /\ webhookPending' = webhookPending \cup (owed'.webhook \ owed.webhook)
      /\ UNCHANGED <<archiveEnded, webhookEnded, archiver, sender, rows, registry, registries, received>>
  BY DEF Engine, ArchiveQ!Put, WebhookQ!Put, files
<1>4. /\ owed'.archive \subseteq Instance /\ owed'.webhook \subseteq TaskKey
      /\ owed.archive \subseteq owed'.archive /\ owed.webhook \subseteq owed'.webhook
      /\ \A id \in Instance : inst[id] = "GONE" => inst'[id] = "GONE"
  BY <1>2 DEF ContractInv, ContractTypeOK, EndedStays
<1>5. ArchiveInv'
  <2>1. ArchiveTypeOK'
    BY <1>1, <1>3, <1>4 DEF ArchiveTypeOK
  <2>2. ArchiveAccounts'
    BY <1>1, <1>3, <1>4 DEF ArchiveAccounts
  <2>3. ArchiversTrue'
    <3> SUFFICES ASSUME NEW l \in Lane, archiver[l].step = "insert"
                 PROVE  Final(archiver[l].job, archiver[l].doc)'
      BY <1>3 DEF ArchiversTrue
    <3>1. archiver[l] \in [step : {"insert"}, job : Instance, doc : Document]
      BY <1>1 DEF ArchiveTypeOK, ArchiverSlot, Idle
    <3>2. /\ archiver[l].job \in Instance /\ Final(archiver[l].job, archiver[l].doc)
          /\ archiver'[l] = archiver[l]
      BY <1>1, <1>3, <3>1 DEF ArchiversTrue
    <3> DEFINE id == archiver[l].job
               doc == archiver[l].doc
    <3>3. \A i \in Instance : \A d : Final(i, d) => Final(i, d)'
      BY <1>2, FinalStays
    <3> QED BY <3>2, <3>3 DEF Final, Doc
  <2>4. ArchivedIsFinal'
    <3> SUFFICES ASSUME NEW id \in DOMAIN rows
                 PROVE  rows[id].state \in Terminal /\ (inst'[id] # "GONE" => rows[id] = Doc(id)')
      BY <1>3 DEF ArchivedIsFinal
    <3>1. id \in Instance /\ Final(id, rows[id])
      BY <1>1 DEF ArchiveTypeOK, ArchivedIsFinal, Final
    <3>2. \A d : Final(id, d) => Final(id, d)'
      BY <1>2, <3>1, FinalStays
    <3> QED BY <1>3, <3>1, <3>2 DEF Final
  <2> QED BY <2>1, <2>2, <2>3, <2>4 DEF ArchiveInv
<1>6. WebhookInv'
  <2>1. WebhookTypeOK'
    BY <1>1, <1>3, <1>4 DEF WebhookTypeOK
  <2>2. WebhookAccounts'
    <3>1. \A k \in TaskKey : inst[k[1]] = "GONE" => inst'[k[1]] = "GONE"
      BY <1>4 DEF TaskKey
    <3> QED BY <1>1, <1>3, <1>4, <3>1 DEF WebhookAccounts
  <2>3. SendersTrue'
    <3> SUFFICES ASSUME NEW l \in Sender
                 PROVE  /\ sender[l].step \in {"lookup", "post"} =>
                             sender[l].msg.task = sender[l].job /\ OfFailure(sender[l].msg)'
                        /\ sender[l].step = "post" =>
                             \E file \in registries : file[FromOf[sender[l].job[2]]] = sender[l].url
      BY <1>3 DEF SendersTrue
    <3>1. \A m \in Message : OfFailure(m) => OfFailure(m)'
      BY <1>2, FailureStays
    <3>2. sender[l].step \in {"lookup", "post"} => sender[l].msg \in Message
      BY <1>1 DEF WebhookTypeOK, SenderSlot, Idle
    <3> QED BY <1>1, <1>3, <3>1, <3>2 DEF SendersTrue, OfFailure, MessageOf
  <2>4. DeliveredToPublisher'
    <3> SUFFICES ASSUME NEW r \in received
                 PROVE  /\ \E file \in registries : file[FromOf[r[1].task[2]]] = r[2]
                        /\ OfFailure(r[1])'
      BY <1>3 DEF DeliveredToPublisher, OfFailure
    <3>1. r[1] \in Message /\ OfFailure(r[1])
      BY <1>1 DEF WebhookTypeOK, DeliveredToPublisher, OfFailure
    <3> QED BY <1>1, <1>2, <3>1, FailureStays DEF DeliveredToPublisher
  <2> QED BY <1>1, <1>3, <2>1, <2>2, <2>3, <2>4 DEF WebhookInv, RegistryKnown
<1> QED BY <1>2, <1>5, <1>6 DEF SystemInv

(* A step that touches neither saga nor archive side.                      *)
LEMMA ArchiveSame ==
  ASSUME SystemInv, UNCHANGED <<sagaVars, archiveQ, archiver, rows>>
  PROVE  ContractInv' /\ ArchiveInv'
<1> USE DEF sagaVars, archiveQ
<1>1. ContractInv'
  BY DEF SystemInv, ContractInv, ContractTypeOK, Documents, OwedExactly
<1>2. ArchiveInv'
  BY DEF SystemInv, ArchiveInv, ArchiveTypeOK, ArchiveAccounts, ArchiversTrue, ArchivedIsFinal, Final, Doc
<1> QED BY <1>1, <1>2

(* A step that touches neither saga nor webhook side.                      *)
LEMMA WebhookSame ==
  ASSUME SystemInv, UNCHANGED <<sagaVars, webhookQ, sender, files, received>>
  PROVE  ContractInv' /\ WebhookInv'
<1> USE DEF sagaVars, webhookQ, files
<1>1. ContractInv'
  BY DEF SystemInv, ContractInv, ContractTypeOK, Documents, OwedExactly
<1>2. WebhookInv'
  BY DEF SystemInv, WebhookInv, WebhookTypeOK, WebhookAccounts, SendersTrue, OfFailure, MessageOf,
         RegistryKnown, DeliveredToPublisher
<1> QED BY <1>1, <1>2

-----------------------------------------------------------------------------
(* Lane l goes to slot c; whatever it then wants to insert is final.       *)
LEMMA ArchiverMoves ==
  ASSUME SystemInv, sagaVars' = sagaVars, NEW l \in Lane, NEW c \in ArchiverSlot,
         archiver' = [archiver EXCEPT ![l] = c],
         c.step = "insert" => Final(c.job, c.doc)
  PROVE  archiver' \in [Lane -> ArchiverSlot] /\ ArchiversTrue'
<1>1. archiver \in [Lane -> ArchiverSlot] /\ ArchiversTrue
  BY DEF SystemInv, ArchiveInv, ArchiveTypeOK
<1>2. archiver' \in [Lane -> ArchiverSlot]
      /\ \A k \in Lane : archiver'[k] = IF k = l THEN c ELSE archiver[k]
  BY <1>1
<1>3. inst' = inst /\ states' = states /\ payload' = payload
  BY DEF sagaVars
<1> QED BY <1>1, <1>2, <1>3 DEF ArchiversTrue, Final, Doc

(* What an insert, done or not, does to the table.                         *)
LEMMA InsertKeeps ==
  ASSUME SystemInv, sagaVars' = sagaVars, NEW l \in Lane, NEW id \in Instance,
         archiver[l].step = "insert", archiver[l].job = id,
         rows' = rows \/ rows' = Inserted(id, archiver[l].doc)
  PROVE  /\ DOMAIN rows' \subseteq Instance /\ rows' \in [DOMAIN rows' -> Document]
         /\ DOMAIN rows \subseteq DOMAIN rows' /\ ArchivedIsFinal'
<1>1. /\ DOMAIN rows \subseteq Instance /\ rows \in [DOMAIN rows -> Document]
      /\ ArchivedIsFinal /\ Final(id, archiver[l].doc)
  BY DEF SystemInv, ArchiveInv, ArchiveTypeOK, ArchiversTrue
<1>2. archiver[l].doc \in Document
  BY DEF SystemInv, ArchiveInv, ArchiveTypeOK, ArchiverSlot, Idle
<1>3. inst' = inst /\ states' = states /\ payload' = payload
  BY DEF sagaVars
<1>4. CASE rows' = rows
  BY <1>1, <1>3, <1>4 DEF ArchivedIsFinal, Doc
<1>5. CASE rows' = Inserted(id, archiver[l].doc)
  <2>1. /\ DOMAIN rows' = DOMAIN rows \cup {id}
        /\ \A i \in DOMAIN rows' : rows'[i] = IF i \in DOMAIN rows THEN rows[i] ELSE archiver[l].doc
        /\ rows' = [i \in DOMAIN rows' |-> rows'[i]]
    BY <1>5 DEF Inserted
  <2>2. rows' \in [DOMAIN rows' -> Document]
    BY <1>1, <1>2, <2>1
  <2>3. ArchivedIsFinal'
    BY <1>1, <1>3, <2>1 DEF ArchivedIsFinal, Final, Doc
  <2> QED BY <1>1, <2>1, <2>2, <2>3
<1> QED BY <1>4, <1>5

(* Every call of archiveJob, and what the worker makes of its result.      *)
LEMMA ArchiveStepKeeps ==
  ASSUME SystemInv, NEW l \in Lane, NEW id \in Instance,
         \/ ArchiveRead(l, id) \/ ArchiveGone(l, id)
         \/ ArchiveInsert(l, id) \/ ArchiveFails(l, id) \/ ArchiveSettle(l, id)
  PROVE  SystemInv'
<1>1. ArchiveTypeOK /\ ArchiveAccounts /\ ArchiversTrue /\ ArchivedIsFinal /\ ContractInv
  BY DEF SystemInv, ArchiveInv
<1>2. UNCHANGED <<sagaVars, webhookQ, sender, files, received>>
  BY DEF ArchiveRead, ArchiveGone, ArchiveInsert, ArchiveFails, ArchiveSettle
<1>3. ContractInv' /\ WebhookInv'
  BY <1>2, WebhookSame
<1>4. inst' = inst /\ states' = states /\ payload' = payload /\ owed' = owed
  BY <1>2 DEF sagaVars
<1>5. /\ Idle \in ArchiverSlot /\ Idle.step = "idle"
      /\ [step |-> "ack", job |-> id] \in ArchiverSlot
      /\ [step |-> "retry", job |-> id] \in ArchiverSlot
  BY DEF ArchiverSlot, Idle
<1>6. ASSUME ArchivedIsFinal, rows' = rows PROVE ArchivedIsFinal'
  BY <1>4, <1>6 DEF ArchivedIsFinal, Doc
<1>7. CASE ArchiveRead(l, id)
  <2> DEFINE c == [step |-> "insert", job |-> id, doc |-> Doc(id)]
  <2>1. Doc(id) \in Document
    BY <1>1, <1>7 DEF ContractInv, ContractTypeOK, TaskState, ArchiveRead, Doc, Document, Terminal
  <2>2. c \in ArchiverSlot
    BY <2>1 DEF ArchiverSlot
  <2>3. c.step = "insert" => Final(c.job, c.doc)
    BY <1>7 DEF ArchiveRead, Final, Doc
  <2>4. archiver' = [archiver EXCEPT ![l] = c] /\ UNCHANGED <<archivePending, archiveEnded, rows>>
    BY <1>7 DEF ArchiveRead, archiveQ
  <2> HIDE DEF c
  <2>5. archiver' \in [Lane -> ArchiverSlot] /\ ArchiversTrue'
    BY <1>2, <2>2, <2>3, <2>4, ArchiverMoves
  <2>6. ArchiveTypeOK' /\ ArchiveAccounts'
    BY <1>1, <1>4, <2>4, <2>5 DEF ArchiveTypeOK, ArchiveAccounts
  <2> QED BY <1>1, <1>3, <1>6, <2>4, <2>5, <2>6 DEF SystemInv, ArchiveInv
<1>8. CASE ArchiveGone(l, id)
  <2>1. /\ archiver' = [archiver EXCEPT ![l] = [step |-> "ack", job |-> id]]
        /\ archiveEnded' = [archiveEnded EXCEPT ![id] = @ \cup {"dropped"}]
        /\ inst[id] = "GONE" /\ UNCHANGED <<archivePending, rows>>
    BY <1>8 DEF ArchiveGone, ArchiveQ!End
  <2>2. archiver' \in [Lane -> ArchiverSlot] /\ ArchiversTrue'
    BY <1>2, <1>5, <2>1, ArchiverMoves
  <2>3. ArchiveTypeOK' /\ ArchiveAccounts'
    BY <1>1, <1>4, <2>1, <2>2 DEF ArchiveTypeOK, ArchiveAccounts, ArchiveQ!HowEnded
  <2> QED BY <1>1, <1>3, <1>6, <2>1, <2>2, <2>3 DEF SystemInv, ArchiveInv
<1>9. CASE ArchiveInsert(l, id)
  <2>1. /\ archiver' = [archiver EXCEPT ![l] = [step |-> "ack", job |-> id]]
        /\ archiveEnded' = [archiveEnded EXCEPT ![id] = @ \cup {"delivered"}]
        /\ rows' = Inserted(id, archiver[l].doc) /\ UNCHANGED archivePending
        /\ archiver[l].step = "insert" /\ archiver[l].job = id
    BY <1>9 DEF ArchiveInsert, ArchiveQ!End
  <2>2. archiver' \in [Lane -> ArchiverSlot] /\ ArchiversTrue'
    BY <1>2, <1>5, <2>1, ArchiverMoves
  <2>3. /\ DOMAIN rows' \subseteq Instance /\ rows' \in [DOMAIN rows' -> Document]
        /\ DOMAIN rows \subseteq DOMAIN rows' /\ ArchivedIsFinal'
    BY <1>2, <2>1, InsertKeeps
  <2>4. id \in DOMAIN rows'
    BY <2>1 DEF Inserted
  <2>5. ArchiveTypeOK' /\ ArchiveAccounts'
    BY <1>1, <1>4, <2>1, <2>2, <2>3, <2>4 DEF ArchiveTypeOK, ArchiveAccounts, ArchiveQ!HowEnded
  <2> QED BY <1>3, <2>2, <2>3, <2>5 DEF SystemInv, ArchiveInv
<1>10. CASE ArchiveFails(l, id)
  <2>1. /\ archiver' = [archiver EXCEPT ![l] = [step |-> "retry", job |-> id]]
        /\ rows' = rows \/ rows' = Inserted(id, archiver[l].doc)
        /\ UNCHANGED <<archivePending, archiveEnded>>
        /\ archiver[l].step = "insert" /\ archiver[l].job = id
    BY <1>10 DEF ArchiveFails, archiveQ
  <2>2. archiver' \in [Lane -> ArchiverSlot] /\ ArchiversTrue'
    BY <1>2, <1>5, <2>1, ArchiverMoves
  <2>3. /\ DOMAIN rows' \subseteq Instance /\ rows' \in [DOMAIN rows' -> Document]
        /\ DOMAIN rows \subseteq DOMAIN rows' /\ ArchivedIsFinal'
    BY <1>2, <2>1, InsertKeeps
  <2>4. ArchiveTypeOK' /\ ArchiveAccounts'
    BY <1>1, <1>4, <2>1, <2>2, <2>3 DEF ArchiveTypeOK, ArchiveAccounts
  <2> QED BY <1>3, <2>2, <2>3, <2>4 DEF SystemInv, ArchiveInv
<1>11. CASE ArchiveSettle(l, id)
  <2>1. /\ archiver' = [archiver EXCEPT ![l] = Idle]
        /\ UNCHANGED <<archiveEnded, rows>>
        /\ \/ archiveEnded[id] # {} /\ archivePending' = archivePending \ {id}
           \/ id \in owed.archive /\ archivePending' = archivePending \cup {id}
    BY <1>11 DEF ArchiveSettle, ArchiveQ!Remove, ArchiveQ!PutBack
  <2>2. archiver' \in [Lane -> ArchiverSlot] /\ ArchiversTrue'
    BY <1>2, <1>5, <2>1, ArchiverMoves
  <2>3. ArchiveTypeOK' /\ ArchiveAccounts'
    BY <1>1, <1>4, <2>1, <2>2 DEF ArchiveTypeOK, ArchiveAccounts
  <2> QED BY <1>1, <1>3, <1>6, <2>1, <2>2, <2>3 DEF SystemInv, ArchiveInv
<1> QED BY <1>7, <1>8, <1>9, <1>10, <1>11

-----------------------------------------------------------------------------
(* Sender l goes to slot c, and the history of files and requests at most  *)
(* grows: what the slot carries must be about its job.                     *)
LEMMA SenderMoves ==
  ASSUME SystemInv, sagaVars' = sagaVars, files' = files, NEW l \in Sender, NEW c \in SenderSlot,
         sender' = [sender EXCEPT ![l] = c],
         c.step \in {"lookup", "post"} => c.msg.task = c.job /\ OfFailure(c.msg),
         c.step = "post" => \E file \in registries : file[FromOf[c.job[2]]] = c.url
  PROVE  sender' \in [Sender -> SenderSlot] /\ SendersTrue' /\ RegistryKnown'
<1>1. sender \in [Sender -> SenderSlot] /\ SendersTrue /\ RegistryKnown
  BY DEF SystemInv, WebhookInv, WebhookTypeOK
<1>2. sender' \in [Sender -> SenderSlot]
      /\ \A k \in Sender : sender'[k] = IF k = l THEN c ELSE sender[k]
  BY <1>1
<1>3. inst' = inst /\ states' = states /\ payload' = payload /\ registry' = registry
      /\ registries' = registries
  BY DEF sagaVars, files
<1> QED BY <1>1, <1>2, <1>3 DEF SendersTrue, OfFailure, MessageOf, RegistryKnown

(* A sender that posts carries a message for the publisher of its job.     *)
LEMMA PostKeeps ==
  ASSUME SystemInv, sagaVars' = sagaVars, files' = files, NEW l \in Sender, NEW k \in TaskKey,
         sender[l].step = "post", sender[l].job = k,
         \/ received' = received
         \/ received' = received \cup {<<sender[l].msg, sender[l].url>>}
  PROVE  /\ received' \subseteq Message \X Url /\ received \subseteq received'
         /\ DeliveredToPublisher' /\ sender[l].msg.task = k
<1>1. received \subseteq Message \X Url /\ DeliveredToPublisher
  BY DEF SystemInv, WebhookInv, WebhookTypeOK
<1>2. /\ sender[l].msg \in Message /\ sender[l].url \in Url
      /\ sender[l].msg.task = k /\ OfFailure(sender[l].msg)
      /\ \E file \in registries : file[FromOf[k[2]]] = sender[l].url
  BY DEF SystemInv, WebhookInv, WebhookTypeOK, SenderSlot, Idle, SendersTrue
<1>3. inst' = inst /\ states' = states /\ payload' = payload /\ registries' = registries
  BY DEF sagaVars, files
<1> DEFINE m == sender[l].msg
           u == sender[l].url
<1>4. m \in Message /\ u \in Url /\ m.task = k /\ OfFailure(m)
      /\ (\E file \in registries : file[FromOf[k[2]]] = u)
      /\ (received' = received \/ received' = received \cup {<<m, u>>})
  BY <1>2
<1> HIDE DEF m, u
<1>5. received' \subseteq Message \X Url /\ received \subseteq received'
  BY <1>1, <1>4
<1>6. ASSUME NEW r \in received'
      PROVE  /\ \E file \in registries : file[FromOf[r[1].task[2]]] = r[2]
             /\ OfFailure(r[1])
  <2>1. CASE r \in received
    BY <1>1, <2>1 DEF DeliveredToPublisher, OfFailure
  <2>2. CASE r = <<m, u>>
    BY <1>4, <2>2
  <2> QED BY <1>4, <2>1, <2>2
<1>7. DeliveredToPublisher'
  BY <1>3, <1>6 DEF DeliveredToPublisher, OfFailure, MessageOf
<1> QED BY <1>4, <1>5, <1>7 DEF m

(* Every call of webhookJob, and what the worker makes of its result.      *)
LEMMA WebhookStepKeeps ==
  ASSUME SystemInv, NEW l \in Sender, NEW k \in TaskKey,
         \/ WebhookRead(l, k) \/ WebhookGone(l, k)
         \/ LookupFinds(l, k) \/ LookupDrops(l, k) \/ LookupFails(l, k)
         \/ PostDelivered(l, k) \/ PostFails(l, k)
         \/ WebhookGiveUp(l, k) \/ WebhookSettle(l, k)
  PROVE  SystemInv'
<1>1. WebhookTypeOK /\ WebhookAccounts /\ SendersTrue /\ RegistryKnown /\ DeliveredToPublisher
      /\ ContractInv
  BY DEF SystemInv, WebhookInv
<1>2. UNCHANGED <<sagaVars, archiveQ, archiver, rows, files>>
  BY DEF WebhookRead, WebhookGone, LookupFinds, LookupDrops, LookupFails, PostDelivered, PostFails,
         WebhookGiveUp, WebhookSettle
<1>3. ContractInv' /\ ArchiveInv'
  BY <1>2, ArchiveSame
<1>4. /\ inst' = inst /\ states' = states /\ payload' = payload /\ owed' = owed
      /\ registry' = registry /\ registries' = registries
  BY <1>2 DEF sagaVars, files
<1>5. /\ Idle \in SenderSlot /\ Idle.step = "idle"
      /\ [step |-> "ack", job |-> k] \in SenderSlot
      /\ [step |-> "retry", job |-> k] \in SenderSlot
  BY DEF SenderSlot, Idle
<1>6. ASSUME received' = received PROVE DeliveredToPublisher'
  BY <1>1, <1>4, <1>6 DEF DeliveredToPublisher, MessageOf
<1>7. ASSUME NEW c \in SenderSlot, sender' = [sender EXCEPT ![l] = c],
             c.step \in {"lookup", "post"} => c.msg.task = c.job /\ OfFailure(c.msg),
             c.step = "post" => \E file \in registries : file[FromOf[c.job[2]]] = c.url,
             UNCHANGED <<webhookPending, webhookEnded, received>>
      PROVE  SystemInv'
  <2>1. sender' \in [Sender -> SenderSlot] /\ SendersTrue' /\ RegistryKnown'
    BY <1>2, <1>7, SenderMoves
  <2>2. WebhookTypeOK' /\ WebhookAccounts'
    BY <1>1, <1>4, <1>7, <2>1 DEF WebhookTypeOK, WebhookAccounts
  <2> QED BY <1>3, <1>6, <1>7, <2>1, <2>2 DEF SystemInv, WebhookInv
<1>8. CASE WebhookRead(l, k)
  <2> DEFINE c == [step |-> "lookup", job |-> k, msg |-> MessageOf(k)]
  <2>1. k = <<k[1], k[2]>> /\ k[1] \in Instance /\ k[2] \in Task
    BY DEF TaskKey
  <2>2. inst[k[1]] = "FAILED" /\ states[k[1]][k[2]] = "FAILED"
    BY <1>1, <1>8, <2>1 DEF WebhookRead, WebhookAccounts, ContractInv, OwedExactly
  <2>3. payload[k[1]][k[2]] # NoBody /\ payload[k[1]][k[2]] \in Body \cup {NoBody}
    BY <1>1, <2>1, <2>2 DEF ContractInv, Documents, ContractTypeOK
  <2>4. MessageOf(k) \in Message /\ MessageOf(k).task = k /\ OfFailure(MessageOf(k))
    BY <2>1, <2>2, <2>3, WorkflowValid DEF MessageOf, Message, OfFailure
  <2>5. c \in SenderSlot /\ c.step = "lookup" /\ c.job = k /\ c.msg = MessageOf(k)
    BY <2>4 DEF SenderSlot
  <2>6. sender' = [sender EXCEPT ![l] = c] /\ UNCHANGED <<webhookPending, webhookEnded, received>>
    BY <1>8 DEF WebhookRead, webhookQ
  <2> HIDE DEF c
  <2> QED BY <1>7, <2>4, <2>5, <2>6
<1>9. CASE LookupFinds(l, k)
  <2> DEFINE c == [step |-> "post", job |-> k, msg |-> sender[l].msg, url |-> FailureURL(k)]
  <2>1. sender[l].msg \in Message /\ sender[l].msg.task = k /\ OfFailure(sender[l].msg)
    BY <1>1, <1>9 DEF LookupFinds, WebhookTypeOK, SenderSlot, Idle, SendersTrue
  <2>2. registry \in registries /\ registry \in RegistryFile /\ FailureURL(k) # NoUrl
    BY <1>1, <1>9 DEF LookupFinds, RegistryKnown, WebhookTypeOK
  <2>3. FailureURL(k) \in Url /\ registry[FromOf[k[2]]] = FailureURL(k)
    <3>1. k[2] \in Task
      BY DEF TaskKey
    <3> QED BY <2>2, <3>1, SystemAssumption DEF FailureURL
  <2>4. c \in SenderSlot /\ c.step = "post" /\ c.job = k /\ c.msg = sender[l].msg /\ c.url = FailureURL(k)
    BY <2>1, <2>3 DEF SenderSlot
  <2>5. sender' = [sender EXCEPT ![l] = c] /\ UNCHANGED <<webhookPending, webhookEnded, received>>
    BY <1>9 DEF LookupFinds, webhookQ
  <2> HIDE DEF c
  <2> QED BY <1>7, <2>1, <2>2, <2>3, <2>4, <2>5
<1>10. CASE LookupFails(l, k)
  <2>1. /\ sender' = [sender EXCEPT ![l] = [step |-> "retry", job |-> k]]
        /\ UNCHANGED <<webhookPending, webhookEnded, received>>
    BY <1>10 DEF LookupFails, webhookQ
  <2> QED BY <1>5, <1>7, <2>1
<1>11. ASSUME NEW how \in WebhookQ!HowEnded,
              sender' = [sender EXCEPT ![l] = [step |-> "ack", job |-> k]],
              webhookEnded' = [webhookEnded EXCEPT ![k] = @ \cup {how}],
              webhookPending' = webhookPending,
              how = "delivered" => \E r \in received' : r[1].task = k,
              how = "dropped" =>
                inst[k[1]] = "GONE" \/ \E file \in registries : file[FromOf[k[2]]] = NoUrl,
              received' \subseteq Message \X Url, received \subseteq received',
              DeliveredToPublisher'
       PROVE  SystemInv'
  <2>1. sender' \in [Sender -> SenderSlot] /\ SendersTrue' /\ RegistryKnown'
    BY <1>2, <1>5, <1>11, SenderMoves
  <2>2. \A j \in TaskKey : webhookEnded'[j] = IF j = k THEN webhookEnded[j] \cup {how} ELSE webhookEnded[j]
    BY <1>1, <1>11 DEF WebhookTypeOK
  <2>3. webhookEnded' \in [TaskKey -> SUBSET WebhookQ!HowEnded]
    BY <1>1, <1>11 DEF WebhookTypeOK
  <2>4. WebhookTypeOK'
    BY <1>1, <1>4, <1>11, <2>1, <2>3 DEF WebhookTypeOK
  <2>5. owed.webhook \subseteq TaskKey
    BY <1>1 DEF ContractInv, ContractTypeOK
  <2>6. WebhookAccounts'
    BY <1>1, <1>4, <1>11, <2>2, <2>5 DEF WebhookAccounts
  <2> QED BY <1>3, <1>11, <2>1, <2>4, <2>6 DEF SystemInv, WebhookInv
<1>12. {"delivered", "dropped", "gaveUp"} \subseteq WebhookQ!HowEnded
       /\ received \subseteq Message \X Url
  BY <1>1 DEF WebhookQ!HowEnded, WebhookTypeOK
<1>13. CASE WebhookGone(l, k)
  <2>1. /\ sender' = [sender EXCEPT ![l] = [step |-> "ack", job |-> k]]
        /\ webhookEnded' = [webhookEnded EXCEPT ![k] = @ \cup {"dropped"}]
        /\ inst[k[1]] = "GONE" /\ UNCHANGED <<webhookPending, received>>
    BY <1>13 DEF WebhookGone, WebhookQ!End
  <2> QED BY <1>6, <1>11, <1>12, <2>1
<1>14. CASE LookupDrops(l, k)
  <2>1. /\ sender' = [sender EXCEPT ![l] = [step |-> "ack", job |-> k]]
        /\ webhookEnded' = [webhookEnded EXCEPT ![k] = @ \cup {"dropped"}]
        /\ UNCHANGED <<webhookPending, received>>
        /\ registry \in registries /\ registry[FromOf[k[2]]] = NoUrl
    BY <1>1, <1>14 DEF LookupDrops, WebhookQ!End, FailureURL, RegistryKnown
  <2> QED BY <1>6, <1>11, <1>12, <2>1
<1>15. CASE PostDelivered(l, k)
  <2>1. /\ sender' = [sender EXCEPT ![l] = [step |-> "ack", job |-> k]]
        /\ webhookEnded' = [webhookEnded EXCEPT ![k] = @ \cup {"delivered"}]
        /\ webhookPending' = webhookPending
        /\ received' = received \cup {<<sender[l].msg, sender[l].url>>}
        /\ sender[l].step = "post" /\ sender[l].job = k
    BY <1>15 DEF PostDelivered, WebhookQ!End
  <2>2. /\ received' \subseteq Message \X Url /\ received \subseteq received'
        /\ DeliveredToPublisher' /\ sender[l].msg.task = k
    BY <1>2, <2>1, PostKeeps
  <2>3. \E r \in received' : r[1].task = k
    <3> DEFINE r == <<sender[l].msg, sender[l].url>>
    <3>1. r \in received' BY <2>1
    <3>2. r[1].task = k BY <2>2
    <3> HIDE DEF r
    <3> QED BY <3>1, <3>2
  <2> QED BY <1>11, <1>12, <2>1, <2>2, <2>3
<1>16. CASE PostFails(l, k)
  <2>1. /\ sender' = [sender EXCEPT ![l] = [step |-> "retry", job |-> k]]
        /\ UNCHANGED <<webhookPending, webhookEnded>>
        /\ \/ received' = received
           \/ received' = received \cup {<<sender[l].msg, sender[l].url>>}
        /\ sender[l].step = "post" /\ sender[l].job = k
    BY <1>16 DEF PostFails, webhookQ
  <2>2. /\ received' \subseteq Message \X Url /\ received \subseteq received' /\ DeliveredToPublisher'
    BY <1>2, <2>1, PostKeeps
  <2>3. sender' \in [Sender -> SenderSlot] /\ SendersTrue' /\ RegistryKnown'
    BY <1>2, <1>5, <2>1, SenderMoves
  <2>4. WebhookTypeOK' /\ WebhookAccounts'
    BY <1>1, <1>4, <2>1, <2>2, <2>3 DEF WebhookTypeOK, WebhookAccounts
  <2> QED BY <1>3, <2>2, <2>3, <2>4 DEF SystemInv, WebhookInv
<1>17. CASE WebhookGiveUp(l, k)
  <2>1. /\ sender' = [sender EXCEPT ![l] = [step |-> "ack", job |-> k]]
        /\ webhookEnded' = [webhookEnded EXCEPT ![k] = @ \cup {"gaveUp"}]
        /\ UNCHANGED <<webhookPending, received>>
    BY <1>17 DEF WebhookGiveUp, WebhookQ!End
  <2> QED BY <1>6, <1>11, <1>12, <2>1
<1>18. CASE WebhookSettle(l, k)
  <2>1. /\ sender' = [sender EXCEPT ![l] = Idle]
        /\ UNCHANGED <<webhookEnded, received>>
        /\ \/ webhookEnded[k] # {} /\ webhookPending' = webhookPending \ {k}
           \/ k \in owed.webhook /\ webhookPending' = webhookPending \cup {k}
    BY <1>18 DEF WebhookSettle, WebhookQ!Remove, WebhookQ!PutBack
  <2>2. sender' \in [Sender -> SenderSlot] /\ SendersTrue' /\ RegistryKnown'
    BY <1>2, <1>5, <2>1, SenderMoves
  <2>3. WebhookTypeOK' /\ WebhookAccounts'
    BY <1>1, <1>4, <2>1, <2>2 DEF WebhookTypeOK, WebhookAccounts
  <2> QED BY <1>3, <1>6, <2>1, <2>2, <2>3 DEF SystemInv, WebhookInv
<1> QED BY <1>8, <1>9, <1>10, <1>13, <1>14, <1>15, <1>16, <1>17, <1>18

-----------------------------------------------------------------------------
(* The operator's edits are remembered.                                    *)
LEMMA EditKeeps ==
  ASSUME SystemInv, NEW file \in RegistryFile \cup {Unreadable}, EditRegistry(file)
  PROVE  SystemInv'
<1>1. UNCHANGED <<sagaVars, archiveQ, webhookQ, archiver, sender, rows, received>>
  BY DEF EditRegistry
<1>2. ContractInv' /\ ArchiveInv'
  BY <1>1, ArchiveSame
<1>3. /\ registry' = file /\ registries \subseteq registries' /\ registries' \subseteq RegistryFile
      /\ file # Unreadable => file \in registries'
  BY DEF EditRegistry, SystemInv, WebhookInv, WebhookTypeOK
<1>4. WebhookInv'
  BY <1>1, <1>3
  DEF SystemInv, WebhookInv, WebhookTypeOK, WebhookAccounts, SendersTrue, OfFailure, MessageOf,
      RegistryKnown, DeliveredToPublisher, sagaVars, webhookQ
<1> QED BY <1>2, <1>4 DEF SystemInv

(* Wherever a lane stops, its job is still queued or has been dealt with.  *)
LEMMA StopKeeps ==
  ASSUME SystemInv, (\E l \in Lane : ArchiverStops(l)) \/ (\E l \in Sender : SenderStops(l))
  PROVE  SystemInv'
<1>1. Idle \in ArchiverSlot /\ Idle \in SenderSlot /\ Idle.step = "idle"
  BY DEF ArchiverSlot, SenderSlot, Idle
<1>2. ASSUME NEW l \in Lane, ArchiverStops(l) PROVE SystemInv'
  <2>1. /\ archiver' = [archiver EXCEPT ![l] = Idle]
        /\ UNCHANGED <<sagaVars, archiveQ, webhookQ, sender, rows, received, files>>
    BY <1>2 DEF ArchiverStops
  <2>2. ContractInv' /\ WebhookInv'
    BY <2>1, WebhookSame
  <2>3. archiver' \in [Lane -> ArchiverSlot] /\ ArchiversTrue'
    BY <1>1, <2>1, ArchiverMoves
  <2>4. ArchiveInv'
    BY <2>1, <2>3 DEF SystemInv, ArchiveInv, ArchiveTypeOK, ArchiveAccounts, ArchivedIsFinal, Doc,
                      sagaVars, archiveQ
  <2> QED BY <2>2, <2>4 DEF SystemInv
<1>3. ASSUME NEW l \in Sender, SenderStops(l) PROVE SystemInv'
  <2>1. /\ sender' = [sender EXCEPT ![l] = Idle]
        /\ UNCHANGED <<sagaVars, archiveQ, webhookQ, archiver, rows, received, files>>
    BY <1>3 DEF SenderStops
  <2>2. ContractInv' /\ ArchiveInv'
    BY <2>1, ArchiveSame
  <2>3. sender' \in [Sender -> SenderSlot] /\ SendersTrue' /\ RegistryKnown'
    BY <1>1, <2>1, SenderMoves
  <2>4. WebhookInv'
    BY <2>1, <2>3 DEF SystemInv, WebhookInv, WebhookTypeOK, WebhookAccounts, DeliveredToPublisher,
                      MessageOf, sagaVars, webhookQ, files
  <2> QED BY <2>2, <2>4 DEF SystemInv
<1> QED BY <1>2, <1>3

(* Every step of the composition keeps the invariant.                      *)
LEMMA SystemNextInv == SystemInv /\ [SystemNext]_vars => SystemInv'
<1> SUFFICES ASSUME SystemInv, [SystemNext]_vars PROVE SystemInv'
  OBVIOUS
<1>1. CASE UNCHANGED vars
  BY <1>1, ArchiveSame, WebhookSame DEF vars, SystemInv
<1>2. CASE SystemNext
  BY <1>2, EngineKeeps, EditKeeps, ArchiveStepKeeps, WebhookStepKeeps, StopKeeps DEF SystemNext
<1> QED BY <1>1, <1>2

(* The inductive invariant holds in every reachable state.                 *)
THEOREM SystemInvariance == SystemSpec => []SystemInv
BY InitSystemInv, SystemNextInv, PTL DEF SystemSpec

(* Types of documents, queues, lanes, table and registry.                  *)
THEOREM SystemTypeCorrect == SystemSpec => []TypeOK
BY InvTypeOK, SystemInvariance, PTL

(* A1: the row always equals the final Redis state (instance_engine.go     *)
(* 471-500), with any number of lanes that hold the same job.              *)
THEOREM RowsAreFinal == SystemSpec => []ArchivedIsFinal
<1>1. SystemInv => ArchivedIsFinal  BY DEF SystemInv, ArchiveInv
<1> QED BY <1>1, SystemInvariance, PTL

(* A2, D3: no ending is forgotten by the archive job.                      *)
THEOREM EndingsAccountedFor == SystemSpec => []EndedAccountedFor
<1>1. SystemInv => EndedAccountedFor
  <2> SUFFICES ASSUME SystemInv, NEW id \in Instance, inst[id] \in Terminal, id \notin archivePending
               PROVE  id \in DOMAIN rows
    BY DEF EndedAccountedFor
  <2>1. archiveEnded[id] # {} /\ archiveEnded[id] \subseteq {"delivered", "dropped", "gaveUp"}
    BY DEF SystemInv, ContractInv, OwedExactly, ArchiveInv, ArchiveTypeOK, ArchiveAccounts, ArchiveQ!HowEnded
  <2>2. "dropped" \notin archiveEnded[id] /\ "gaveUp" \notin archiveEnded[id]
    BY DEF SystemInv, ArchiveInv, ArchiveAccounts, Terminal
  <2> QED BY <2>1, <2>2 DEF SystemInv, ArchiveInv, ArchiveAccounts
<1> QED BY <1>1, SystemInvariance, PTL

(* W1, W3, W5: no failure is forgotten by the webhook job.                 *)
THEOREM FailuresAccountedFor == SystemSpec => []FailureAccountedFor
<1>1. SystemInv => FailureAccountedFor
  <2> SUFFICES ASSUME SystemInv, NEW k \in TaskKey, inst[k[1]] = "FAILED", states[k[1]][k[2]] = "FAILED",
                      k \notin webhookPending
               PROVE  \/ \E r \in received : r[1].task = k
                      \/ "gaveUp" \in webhookEnded[k]
                      \/ \E file \in registries : file[FromOf[k[2]]] = NoUrl
    BY DEF FailureAccountedFor
  <2>1. k = <<k[1], k[2]>> /\ k[1] \in Instance /\ k[2] \in Task
    BY DEF TaskKey
  <2>2. k \in owed.webhook
    BY <2>1 DEF SystemInv, ContractInv, OwedExactly
  <2>3. webhookEnded[k] # {} /\ webhookEnded[k] \subseteq {"delivered", "dropped", "gaveUp"}
    BY <2>2 DEF SystemInv, WebhookInv, WebhookTypeOK, WebhookAccounts, WebhookQ!HowEnded
  <2> QED BY <2>3 DEF SystemInv, WebhookInv, WebhookAccounts
<1> QED BY <1>1, SystemInvariance, PTL

(* W1, W2: publishers hear of their own failed tasks only, with the        *)
(* payload they published.                                                 *)
THEOREM DeliveriesToPublisher == SystemSpec => []DeliveredToPublisher
<1>1. SystemInv => DeliveredToPublisher  BY DEF SystemInv, WebhookInv
<1> QED BY <1>1, SystemInvariance, PTL

-----------------------------------------------------------------------------
(* What each part shows of a state of the composition.                     *)
contractShows == <<inst, states, payload, due, owed, now>>
archiveShows  == <<archivePending, owed.archive, archiveEnded>>
webhookShows  == <<webhookPending, owed.webhook, webhookEnded>>

(* A step of the engine is one of the contract that puts the jobs it owes. *)
LEMMA EngineParts ==
  ASSUME SystemInv, Engine
  PROVE  Next /\ ArchiveQ!Next /\ WebhookQ!Next
<1>1. Next /\ ArchiveQ!Put(owed'.archive \ owed.archive) /\ WebhookQ!Put(owed'.webhook \ owed.webhook)
  BY DEF Engine
<1>2. ContractInv'
  BY <1>1, ContractStep DEF SystemInv
<1>3. /\ owed'.archive \ owed.archive \in SUBSET Instance
      /\ owed'.webhook \ owed.webhook \in SUBSET (Instance \X Task)
  BY <1>2 DEF ContractInv, ContractTypeOK, TaskKey
<1> QED BY <1>1, <1>3 DEF ArchiveQ!Next, WebhookQ!Next

(* A call of archiveJob shows only as a step of the archive queue.         *)
LEMMA ArchiverParts ==
  ASSUME NEW l \in Lane, NEW id \in Instance,
         \/ ArchiveRead(l, id) \/ ArchiveGone(l, id)
         \/ ArchiveInsert(l, id) \/ ArchiveFails(l, id) \/ ArchiveSettle(l, id)
  PROVE  /\ UNCHANGED contractShows /\ UNCHANGED webhookShows
         /\ ArchiveQ!Next \/ UNCHANGED archiveShows
<1>1. UNCHANGED <<sagaVars, webhookQ>>
  BY DEF ArchiveRead, ArchiveGone, ArchiveInsert, ArchiveFails, ArchiveSettle
<1>2. ASSUME ArchiveRead(l, id) \/ ArchiveFails(l, id) PROVE UNCHANGED archiveShows
  BY <1>1, <1>2 DEF ArchiveRead, ArchiveFails, archiveQ, archiveShows, sagaVars
<1>3. ASSUME ArchiveGone(l, id) PROVE ArchiveQ!Next
  <2>1. ArchiveQ!End(id, "dropped")
    BY <1>3 DEF ArchiveGone
  <2> QED BY <2>1 DEF ArchiveQ!Next, ArchiveQ!HowEnded
<1>4. ASSUME ArchiveInsert(l, id) PROVE ArchiveQ!Next
  <2>1. ArchiveQ!End(id, "delivered")
    BY <1>4 DEF ArchiveInsert
  <2> QED BY <2>1 DEF ArchiveQ!Next, ArchiveQ!HowEnded
<1>5. ASSUME ArchiveSettle(l, id) PROVE ArchiveQ!Next
  <2>1. ArchiveQ!Remove(id) \/ ArchiveQ!PutBack(id)
    BY <1>5 DEF ArchiveSettle
  <2> QED BY <2>1 DEF ArchiveQ!Next
<1>6. ArchiveQ!Next \/ UNCHANGED archiveShows
  BY <1>2, <1>3, <1>4, <1>5
<1> QED BY <1>1, <1>6 DEF sagaVars, webhookQ, contractShows, webhookShows

(* A call of webhookJob shows only as a step of the webhook queue.         *)
LEMMA SenderParts ==
  ASSUME NEW l \in Sender, NEW k \in TaskKey,
         \/ WebhookRead(l, k) \/ WebhookGone(l, k)
         \/ LookupFinds(l, k) \/ LookupDrops(l, k) \/ LookupFails(l, k)
         \/ PostDelivered(l, k) \/ PostFails(l, k)
         \/ WebhookGiveUp(l, k) \/ WebhookSettle(l, k)
  PROVE  /\ UNCHANGED contractShows /\ UNCHANGED archiveShows
         /\ WebhookQ!Next \/ UNCHANGED webhookShows
<1>1. UNCHANGED <<sagaVars, archiveQ>>
  BY DEF WebhookRead, WebhookGone, LookupFinds, LookupDrops, LookupFails, PostDelivered, PostFails,
         WebhookGiveUp, WebhookSettle
<1>2. k \in Instance \X Task
  BY DEF TaskKey
<1>3. ASSUME WebhookRead(l, k) \/ LookupFinds(l, k) \/ LookupFails(l, k) \/ PostFails(l, k)
      PROVE  UNCHANGED webhookShows
  BY <1>1, <1>3 DEF WebhookRead, LookupFinds, LookupFails, PostFails, webhookQ, webhookShows, sagaVars
<1>4. ASSUME WebhookGone(l, k) \/ LookupDrops(l, k) PROVE WebhookQ!Next
  <2>1. WebhookQ!End(k, "dropped")
    BY <1>4 DEF WebhookGone, LookupDrops
  <2> QED BY <1>2, <2>1, Zenon DEF WebhookQ!Next, WebhookQ!HowEnded
<1>5. ASSUME PostDelivered(l, k) PROVE WebhookQ!Next
  <2>1. WebhookQ!End(k, "delivered")
    BY <1>5 DEF PostDelivered
  <2> QED BY <1>2, <2>1, Zenon DEF WebhookQ!Next, WebhookQ!HowEnded
<1>6. ASSUME WebhookGiveUp(l, k) PROVE WebhookQ!Next
  <2>1. WebhookQ!End(k, "gaveUp")
    BY <1>6 DEF WebhookGiveUp
  <2> QED BY <1>2, <2>1, Zenon DEF WebhookQ!Next, WebhookQ!HowEnded
<1>7. ASSUME WebhookSettle(l, k) PROVE WebhookQ!Next
  <2>1. WebhookQ!Remove(k) \/ WebhookQ!PutBack(k)
    BY <1>7 DEF WebhookSettle
  <2> QED BY <1>2, <2>1, Zenon DEF WebhookQ!Next
<1>8. WebhookQ!Next \/ UNCHANGED webhookShows
  BY <1>3, <1>4, <1>5, <1>6, <1>7
<1> QED BY <1>1, <1>8 DEF sagaVars, archiveQ, contractShows, archiveShows

(* Every step of the composition.                                          *)
LEMMA StepOfParts ==
  ASSUME SystemInv, [SystemNext]_vars
  PROVE  /\ [Next]_contractShows
         /\ [ArchiveQ!Next]_archiveShows
         /\ [WebhookQ!Next]_webhookShows
<1>1. ASSUME UNCHANGED <<sagaVars, archiveQ, webhookQ>>
      PROVE  UNCHANGED contractShows /\ UNCHANGED archiveShows /\ UNCHANGED webhookShows
  BY <1>1 DEF sagaVars, archiveQ, webhookQ, contractShows, archiveShows, webhookShows
<1>2. CASE UNCHANGED vars
  BY <1>1, <1>2 DEF vars
<1>3. CASE \E file \in RegistryFile \cup {Unreadable} : EditRegistry(file)
  BY <1>1, <1>3 DEF EditRegistry
<1>4. CASE (\E l \in Lane : ArchiverStops(l)) \/ (\E l \in Sender : SenderStops(l))
  BY <1>1, <1>4 DEF ArchiverStops, SenderStops
<1>5. CASE Engine
  BY <1>5, EngineParts
<1> QED BY <1>2, <1>3, <1>4, <1>5, ArchiverParts, SenderParts DEF SystemNext

(* The composition lets each part do only what the part promises: what is  *)
(* proved of the contract holds of the sagas in the system, and what is    *)
(* proved of a job queue holds of its archive and webhook queues.          *)
THEOREM PartsKeepTheirPromises == SystemSpec => Spec /\ ArchiveQ!Spec /\ WebhookQ!Spec
<1>1. SystemInit => Init /\ ArchiveQ!Init /\ WebhookQ!Init
  BY DEF SystemInit, Init, ArchiveQ!Init, WebhookQ!Init, TaskKey
<1>2. SystemInv /\ [SystemNext]_vars => /\ [Next]_contractShows
                                        /\ [ArchiveQ!Next]_archiveShows
                                        /\ [WebhookQ!Next]_webhookShows
  BY StepOfParts
<1> QED BY <1>1, <1>2, SystemInvariance, PTL
        DEF SystemSpec, Spec, ArchiveQ!Spec, WebhookQ!Spec, contractShows, archiveShows, webhookShows
=============================================================================
