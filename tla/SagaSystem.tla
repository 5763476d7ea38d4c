----------------------------- MODULE SagaSystem ------------------------------
(***************************************************************************)
(* The engine together with what its endings set in motion: the saga       *)
(* contract, the archive queue and the webhook queue, the jobs that drain  *)
(* them into Postgres and to the publishers, and the service registry the  *)
(* operator edits.  The parts are composed by conjunction: a step of the   *)
(* contract that owes new jobs is, in the same step, a Put of the queues   *)
(* (the script writes both), and every step of a job is a step of its      *)
(* queue.                                                                  *)
(*                                                                         *)
(* InstanceEngine implements the contract and WorkQueue the queues, so     *)
(* neither handlers nor leases appear here.  What is left of a worker is a *)
(* lane: a goroutine, of any replica, that runs one job.  Two lanes can    *)
(* have the same job in hand (its lease expired), and a lane can stop      *)
(* between any two of its calls.                                           *)
(***************************************************************************)
EXTENDS SagaContract

CONSTANTS FromOf,         \* task index -> publishing service
          Url, NoUrl,     \* failure URLs; a service without one
          RegistryFile,   \* contents services.json may have: service -> URL
          StartupFile,    \* the one the process was started with
          Unreadable,     \* a services.json that is missing or does not parse
          Lane,           \* goroutines that run archive jobs, of any replica
          Sender,         \* goroutines that run webhook jobs, of any replica
          MaxTime         \* bound: the clock stops here

ASSUME SystemAssumption ==
  /\ FromOf \in [Task -> Service]
  /\ NoUrl \notin Url /\ NoBody \notin Body
  /\ RegistryFile \subseteq [Service -> Url \cup {NoUrl}]
  /\ Unreadable \notin RegistryFile
  \* ValidateServices: the process starts only if every publisher has a URL.
  /\ StartupFile \in RegistryFile
  /\ \A t \in Task : StartupFile[FromOf[t]] # NoUrl
  /\ MaxTime \in Nat

VARIABLES
  archivePending, webhookPending,   \* the jobs in the two queues
  archiveEnded, webhookEnded,       \* history: how each job has ended
  archiver,    \* what each archive lane has in hand
  sender,      \* what each webhook lane has in hand
  rows,        \* the table instance_history: id -> document
  registry,    \* services.json as it is on disk
  registries,  \* history: the readable files there have been
  received     \* history: the requests that have reached a publisher

sagaVars == <<inst, states, payload, due, owed, now>>
archiveQ == <<archivePending, archiveEnded>>
webhookQ == <<webhookPending, webhookEnded>>
files    == <<registry, registries>>
vars     == <<sagaVars, archiveQ, webhookQ, archiver, sender, rows, files, received>>

ArchiveQ == INSTANCE JobQueue WITH Job <- Instance, pending <- archivePending,
              seen <- owed.archive, ended <- archiveEnded
WebhookQ == INSTANCE JobQueue WITH Job <- Instance \X Task, pending <- webhookPending,
              seen <- owed.webhook, ended <- webhookEnded

Terminal == {"COMPLETED", "FAILED"}
TaskKey  == Instance \X Task

Document == [state : {"PENDING"} \cup Terminal, payload : [Task -> Body \cup {NoBody}],
             tasks : [Task -> {"PENDING", "PUBLISHED", "COMPLETED", "FAILED"}]]

\* JSON.GET workflow_instance:<id> $
Doc(id) == [state |-> inst[id], tasks |-> states[id], payload |-> payload[id]]

\* What a webhook carries: the payload as body, the consumer as query.
Message == [task : TaskKey, to : Service, body : Body \cup {NoBody}]

Idle == [step |-> "idle"]

TypeOK ==
  /\ inst \in [Instance -> {"NONE", "PENDING", "GONE"} \cup Terminal]
  /\ states \in [Instance -> [Task -> {"PENDING", "PUBLISHED", "COMPLETED", "FAILED"}]]
  /\ payload \in [Instance -> [Task -> Body \cup {NoBody}]]
  /\ IsZSet(due, TaskKey, Nat) /\ now \in Nat
  /\ owed \in [archive : SUBSET Instance, webhook : SUBSET TaskKey]
  /\ archivePending \subseteq Instance /\ webhookPending \subseteq TaskKey
  /\ archiveEnded \in [Instance -> SUBSET ArchiveQ!HowEnded]
  /\ webhookEnded \in [TaskKey -> SUBSET WebhookQ!HowEnded]
  /\ archiver \in [Lane -> {Idle} \cup [step : {"insert"}, job : Instance, doc : Document]
                                  \cup [step : {"retry", "ack"}, job : Instance]]
  /\ sender \in [Sender -> {Idle} \cup [step : {"lookup"}, job : TaskKey, msg : Message]
                                \cup [step : {"post"}, job : TaskKey, msg : Message, url : Url]
                                \cup [step : {"retry", "ack"}, job : TaskKey]]
  /\ DOMAIN rows \subseteq Instance /\ rows \in [DOMAIN rows -> Document]
  /\ registry \in RegistryFile \cup {Unreadable}
  /\ registries \subseteq RegistryFile
  /\ received \subseteq Message \X Url

SystemInit ==
  /\ Init
  /\ archivePending = {} /\ archiveEnded = [id \in Instance |-> {}]
  /\ webhookPending = {} /\ webhookEnded = [k \in TaskKey |-> {}]
  /\ archiver = [l \in Lane |-> Idle]
  /\ sender = [l \in Sender |-> Idle]
  /\ rows = [id \in {} |-> {}]
  /\ registry = StartupFile
  /\ registries = {StartupFile}
  /\ received = {}

-----------------------------------------------------------------------------
(* A step of the engine.  The jobs it owes are queued with it.             *)
Engine ==
  /\ Next
  /\ now' <= MaxTime
  /\ ArchiveQ!Put(owed'.archive \ owed.archive)
  /\ WebhookQ!Put(owed'.webhook \ owed.webhook)
  /\ UNCHANGED <<archiver, sender, rows, files, received>>

(* External: the operator edits services.json, or breaks it.               *)
EditRegistry(file) ==
  /\ file # registry
  /\ registry' = file
  /\ registries' = IF file = Unreadable THEN registries ELSE registries \cup {file}
  /\ UNCHANGED <<sagaVars, archiveQ, webhookQ, archiver, sender, rows, received>>

-----------------------------------------------------------------------------
(* Mutant: only an instance that completed is archived.                    *)
ArchiveReadCompleted(l, id) ==
  /\ archiver[l] = Idle /\ id \in archivePending
  /\ inst[id] = "COMPLETED"
  /\ archiver' = [archiver EXCEPT ![l] = [step |-> "insert", job |-> id, doc |-> Doc(id)]]
  /\ UNCHANGED <<sagaVars, archiveQ, webhookQ, sender, rows, received, files>>

(* archiveJob reads the document.  One that is not terminal is refused and *)
(* changes nothing; so does a read that fails.                             *)
ArchiveRead(l, id) ==
  /\ archiver[l] = Idle /\ id \in archivePending
  /\ inst[id] \in Terminal
  /\ archiver' = [archiver EXCEPT ![l] = [step |-> "insert", job |-> id, doc |-> Doc(id)]]
  /\ UNCHANGED <<sagaVars, archiveQ, webhookQ, sender, rows, received, files>>

(* The document is no longer there: nothing to archive, drop the job.      *)
ArchiveGone(l, id) ==
  /\ archiver[l] = Idle /\ id \in archivePending
  /\ inst[id] = "GONE"
  /\ UNCHANGED <<sagaVars, webhookQ, sender, rows, received, files>>
  /\ ArchiveQ!End(id, "dropped")
  /\ archiver' = [archiver EXCEPT ![l] = [step |-> "ack", job |-> id]]

(* INSERT ... ON CONFLICT DO NOTHING.                                      *)
Inserted(id, doc) ==
  [i \in DOMAIN rows \cup {id} |-> IF i \in DOMAIN rows THEN rows[i] ELSE doc]

ArchiveInsert(l, id) ==
  /\ archiver[l].step = "insert" /\ archiver[l].job = id
  /\ rows' = Inserted(id, archiver[l].doc)
  /\ UNCHANGED <<sagaVars, webhookQ, sender, received, files>>
  /\ ArchiveQ!End(id, "delivered")
  /\ archiver' = [archiver EXCEPT ![l] = [step |-> "ack", job |-> id]]

(* Mutant: a job whose insert fails is done with.                          *)
ArchiveFailsAcks(l, id) ==
  /\ archiver[l].step = "insert" /\ archiver[l].job = id
  /\ rows' = rows
  /\ UNCHANGED <<sagaVars, webhookQ, sender, received, files>>
  /\ ArchiveQ!End(id, "dropped")
  /\ archiver' = [archiver EXCEPT ![l] = [step |-> "ack", job |-> id]]

(* The insert fails, or the row is written and the reply is lost.          *)
ArchiveFails(l, id) ==
  /\ archiver[l].step = "insert" /\ archiver[l].job = id
  /\ \/ rows' = rows
     \/ rows' = Inserted(id, archiver[l].doc)
  /\ archiver' = [archiver EXCEPT ![l] = [step |-> "retry", job |-> id]]
  /\ UNCHANGED <<sagaVars, archiveQ, webhookQ, sender, received, files>>

(* The worker acknowledges the job, or reschedules it.                     *)
ArchiveSettle(l, id) ==
  /\ UNCHANGED <<sagaVars, webhookQ, sender, rows, received, files>>
  /\ \/ archiver[l].step = "ack" /\ archiver[l].job = id /\ ArchiveQ!Remove(id)
     \/ archiver[l].step = "retry" /\ archiver[l].job = id /\ ArchiveQ!PutBack(id)
  /\ archiver' = [archiver EXCEPT ![l] = Idle]

-----------------------------------------------------------------------------
(* Mutant: the payload of the instance's first task.                       *)
FirstPayload(k) == [task |-> k, to |-> ToOf[k[2]], body |-> payload[k[1]][0]]

(* webhookJob reads the failed task.                                       *)
MessageOf(k) == [task |-> k, to |-> ToOf[k[2]], body |-> payload[k[1]][k[2]]]

WebhookRead(l, k) ==
  /\ sender[l] = Idle /\ k \in webhookPending
  /\ inst[k[1]] # "GONE"
  /\ sender' = [sender EXCEPT ![l] = [step |-> "lookup", job |-> k, msg |-> MessageOf(k)]]
  /\ UNCHANGED <<sagaVars, archiveQ, webhookQ, archiver, rows, received, files>>

WebhookGone(l, k) ==
  /\ sender[l] = Idle /\ k \in webhookPending
  /\ inst[k[1]] = "GONE"
  /\ UNCHANGED <<sagaVars, archiveQ, archiver, rows, received, files>>
  /\ WebhookQ!End(k, "dropped")
  /\ sender' = [sender EXCEPT ![l] = [step |-> "ack", job |-> k]]

(* FileRegistry reads the file anew for every attempt.                     *)
FailureURL(k) == registry[FromOf[k[2]]]

(* Mutant: an empty URL is not told from a registered one.                 *)
LookupFindsAny(l, k) ==
  /\ sender[l].step = "lookup" /\ sender[l].job = k
  /\ registry # Unreadable
  /\ sender' = [sender EXCEPT ![l] =
                  [step |-> "post", job |-> k, msg |-> sender[l].msg, url |-> FailureURL(k)]]
  /\ UNCHANGED <<sagaVars, archiveQ, webhookQ, archiver, rows, received, files>>

LookupFinds(l, k) ==
  /\ sender[l].step = "lookup" /\ sender[l].job = k
  /\ registry # Unreadable /\ FailureURL(k) # NoUrl
  /\ sender' = [sender EXCEPT ![l] =
                  [step |-> "post", job |-> k, msg |-> sender[l].msg, url |-> FailureURL(k)]]
  /\ UNCHANGED <<sagaVars, archiveQ, webhookQ, archiver, rows, received, files>>

(* No URL is registered (any more): nowhere to deliver to.                 *)
LookupDrops(l, k) ==
  /\ sender[l].step = "lookup" /\ sender[l].job = k
  /\ registry # Unreadable /\ FailureURL(k) = NoUrl
  /\ UNCHANGED <<sagaVars, archiveQ, archiver, rows, received, files>>
  /\ WebhookQ!End(k, "dropped")
  /\ sender' = [sender EXCEPT ![l] = [step |-> "ack", job |-> k]]

(* Mutant: a file that cannot be read is taken for one without the URL.    *)
LookupFailsDrops(l, k) ==
  /\ sender[l].step = "lookup" /\ sender[l].job = k
  /\ registry = Unreadable
  /\ UNCHANGED <<sagaVars, archiveQ, archiver, rows, received, files>>
  /\ WebhookQ!End(k, "dropped")
  /\ sender' = [sender EXCEPT ![l] = [step |-> "ack", job |-> k]]

LookupFails(l, k) ==
  /\ sender[l].step = "lookup" /\ sender[l].job = k
  /\ registry = Unreadable
  /\ sender' = [sender EXCEPT ![l] = [step |-> "retry", job |-> k]]
  /\ UNCHANGED <<sagaVars, archiveQ, webhookQ, archiver, rows, received, files>>

(* The publisher answers 2xx.                                              *)
PostDelivered(l, k) ==
  /\ sender[l].step = "post" /\ sender[l].job = k
  /\ received' = received \cup {<<sender[l].msg, sender[l].url>>}
  /\ UNCHANGED <<sagaVars, archiveQ, archiver, rows, files>>
  /\ WebhookQ!End(k, "delivered")
  /\ sender' = [sender EXCEPT ![l] = [step |-> "ack", job |-> k]]

(* The request does not arrive, or it arrives and the answer is lost or    *)
(* not a 2xx.                                                              *)
PostFails(l, k) ==
  /\ sender[l].step = "post" /\ sender[l].job = k
  /\ \/ received' = received
     \/ received' = received \cup {<<sender[l].msg, sender[l].url>>}
  /\ sender' = [sender EXCEPT ![l] = [step |-> "retry", job |-> k]]
  /\ UNCHANGED <<sagaVars, archiveQ, webhookQ, archiver, rows, files>>

(* After enough failed attempts the worker gives the webhook up.           *)
WebhookGiveUp(l, k) ==
  /\ sender[l].step = "retry" /\ sender[l].job = k
  /\ UNCHANGED <<sagaVars, archiveQ, archiver, rows, received, files>>
  /\ WebhookQ!End(k, "gaveUp")
  /\ sender' = [sender EXCEPT ![l] = [step |-> "ack", job |-> k]]

WebhookSettle(l, k) ==
  /\ UNCHANGED <<sagaVars, archiveQ, archiver, rows, received, files>>
  /\ \/ sender[l].step = "ack" /\ sender[l].job = k /\ WebhookQ!Remove(k)
     \/ sender[l].step = "retry" /\ sender[l].job = k /\ WebhookQ!PutBack(k)
  /\ sender' = [sender EXCEPT ![l] = Idle]

(* A lane stops where it stands: the process dies, or the command that     *)
(* would acknowledge or reschedule its job fails.                          *)
ArchiverStops(l) ==
  /\ archiver[l] # Idle
  /\ archiver' = [archiver EXCEPT ![l] = Idle]
  /\ UNCHANGED <<sagaVars, archiveQ, webhookQ, sender, rows, received, files>>

SenderStops(l) ==
  /\ sender[l] # Idle
  /\ sender' = [sender EXCEPT ![l] = Idle]
  /\ UNCHANGED <<sagaVars, archiveQ, webhookQ, archiver, rows, received, files>>

SystemNext ==
  \/ Engine
  \/ \E file \in RegistryFile \cup {Unreadable} : EditRegistry(file)
  \/ \E l \in Lane, id \in Instance :
       \/ ArchiveRead(l, id) \/ ArchiveGone(l, id)
       \/ ArchiveInsert(l, id) \/ ArchiveFails(l, id) \/ ArchiveSettle(l, id)
  \/ \E l \in Sender, k \in TaskKey :
       \/ WebhookRead(l, k) \/ WebhookGone(l, k)
       \/ LookupFinds(l, k) \/ LookupDrops(l, k) \/ LookupFails(l, k)
       \/ PostDelivered(l, k) \/ PostFails(l, k)
       \/ WebhookGiveUp(l, k) \/ WebhookSettle(l, k)
  \/ \E l \in Lane : ArchiverStops(l)
  \/ \E l \in Sender : SenderStops(l)

SystemSpec == SystemInit /\ [][SystemNext]_vars

(* A due job is claimed before younger ones (ZRANGEBYSCORE), so every      *)
(* archive job gets its turn; Postgres does not refuse for ever; and a     *)
(* goroutine returns from its job.  Nothing is assumed about publishers or *)
(* the registry.                                                           *)
SystemFairness ==
  \A id \in Instance :
    /\ SF_vars(\E l \in Lane : ArchiveRead(l, id))
    /\ SF_vars(\E l \in Lane : ArchiveInsert(l, id))
    /\ \A l \in Lane : WF_vars(ArchiveSettle(l, id))

FairSystemSpec == SystemSpec /\ SystemFairness

-----------------------------------------------------------------------------
(* A1 (instance_engine.go:471, "the row always equals the final Redis      *)
(* state"): although the document is read and inserted in two steps, maybe *)
(* by several lanes and after failed attempts, a row holds the document as *)
(* it is for ever, and holds a terminal one.                               *)
ArchivedIsFinal ==
  \A id \in DOMAIN rows :
    /\ rows[id].state \in Terminal
    /\ inst[id] # "GONE" => rows[id] = Doc(id)

(* A2, D3: a saga that has ended is in the table or will still be put      *)
(* there; no failed insert, lost reply or stopped lane makes it forgotten. *)
EndedAccountedFor ==
  \A id \in Instance : inst[id] \in Terminal =>
    id \in archivePending \/ id \in DOMAIN rows

(* W1, W3, W5: the publisher of a failed task has been told, or has been   *)
(* given up after attempts that failed, or will still be told; the task is *)
(* passed over only if a file that left its publisher out was installed    *)
(* while the program ran.                                                  *)
FailureAccountedFor ==
  \A k \in TaskKey : inst[k[1]] = "FAILED" /\ states[k[1]][k[2]] = "FAILED" =>
    \/ k \in webhookPending
    \/ \E r \in received : r[1].task = k
    \/ "gaveUp" \in webhookEnded[k]
    \/ \E file \in registries : file[FromOf[k[2]]] = NoUrl

(* W1, W2: a publisher only ever hears of a task of its own that failed,   *)
(* under a URL that some file gave for it, with the payload it published;  *)
(* attempts that cross a registry edit or a second lane included.          *)
DeliveredToPublisher ==
  \A r \in received :
    LET k == r[1].task
    IN /\ \E file \in registries : file[FromOf[k[2]]] = r[2]
       /\ inst[k[1]] # "GONE" =>
            /\ inst[k[1]] = "FAILED" /\ states[k[1]][k[2]] = "FAILED"
            /\ r[1] = MessageOf(k) /\ r[1].body # NoBody

(* A2: every saga that has ended and is not deleted reaches the table.     *)
EndedIsArchived ==
  \A id \in Instance : inst[id] \in Terminal ~> id \in DOMAIN rows \/ inst[id] = "GONE"
=============================================================================
