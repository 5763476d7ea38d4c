# A verification project for Sagawise

Sagawise keeps track of sagas: services report that they published, consumed
or failed to consume an event, Sagawise moves the tasks of a workflow instance
accordingly, fails an instance whose task is not consumed in time, archives
instances that have ended and calls the webhook of the service whose message
failed. This directory holds TLA+ models of that engine and of the server
around it, the TLC configurations that check them on small instances, and TLAPS
proofs of the invariants and refinements for every instance.

Names such as T1, I4, TO3, W2, A1 and D2 are the clauses of `docs/contract.md`.

## 1. Inventory

| Part | Source (under `src/backend`) | State | Operations |
| --- | --- | --- | --- |
| Workflow templates | `templating/templating.go` | templates in Redis, the search index | `Validate`, `ParseDSL`, `ensureIndex` at start-up |
| Instance endpoints | `instance_engine/instance_engine.go` | none of their own; documents in Redis | `StartInstance`, `UpdateInstance`, three read endpoints |
| Transition script | `instance_engine/transition.lua` | instance documents, `task_deadlines`, `archive_pending`, `webhook_pending` | `run` (publish, consume, fail), `reap_batch` |
| Deadline reaper | `instance_engine/reaper.go` | none | one `reap_batch` call per tick |
| Work queue | `instance_engine/queue.go` | `*_pending` sorted sets, `*_attempts` hashes | claim, run, bump, reschedule, done |
| Archive job | `archiveJob` | Postgres `instance_history` | insert on conflict do nothing |
| Webhook job | `webhookJob`, `webhooksig` | the receiver, `services.json` | registry lookup, signed POST |
| Start-up, shutdown | `main.go`, `engine.go`, `db_connect`, `otel` | processes, connections, what a start leaves in the stores | configuration, connecting, loading, validation, workers, server, teardown |
| Health | `health.go` | heartbeats of the loops | liveness, readiness |
| HTTP middleware | `httpsec`, `logging` | none | API keys, CORS, body cap, access log |
| Metrics, logs, traces | `metrics.go`, `logging`, `otel` | counters | none that matters to the engine |
| SDKs | `sdk/nodejs`, `sdk/python` | none | HTTP calls |
| Bench | `cmd/bench` | none | load generation |

How the parts interact. A handler reads an instance document, resolves the
report to task indexes, reads its clock and makes one script call. The script
is the only writer of instance documents after their creation, and it writes
the deadline set and both job queues in the same atomic step. The reaper makes
the same kind of call for overdue members. The workers of any number of
replicas drain the two queues; nothing they do goes back into the documents.
Nothing in Redis is locked: what makes the parts agree is that one script call
is one step and that every decision is made inside it. Around this, `run()`
brings a process up stage by stage, shares templates, search index and table
with the other replicas, starts the loops and the server, and takes them down
in a fixed order; the probes look at the loops' heartbeats and ping the stores.

What is hard. Handlers, replicas and the reaper interleave between resolution,
clock reading and script call. The Redis client may time out on a call that
runs all the same, and re-sends calls by itself. Workers crash, lose replies
and overrun their lease. A batch can be smaller than the backlog. The registry
changes between two attempts at a webhook. Replicas drop and create the same
search index command by command, die in between, and are signalled or killed in
any stage. A worker's batch takes far longer than the time after which a loop
counts as stalled. The hazards are listed, each with its line and the properties
that would notice, in `PROJECT.json`.

What makes each part correct. Engine: documents, deadlines and queued jobs
agree after every step; an ended instance never changes; an answer stays true.
Reaper: only overdue tasks are failed, and all of them eventually are. Queue:
no job is lost, a job is one worker's at a time, it is not given up early and
eventually leaves the queue. Archive: one row, equal to the final document, for
every ended saga. Webhooks: every failure is told to its own publisher, given
up, or still queued. Start-up: only a complete process serves, and every start
and every stop comes to an end. Probes: a running loop is never reported, a
stuck one always is. HTTP: a refused request has changed nothing, and nothing
but the probes is reached without a key.

## 2. Modules

| Module | Models | Used by |
| --- | --- | --- |
| `ZSet` | the Redis sorted set: ZADD, ZREM, ZRANGEBYSCORE with LIMIT (external) | `InstanceEngine`, `WorkQueue`, `SagaContract` |
| `Workflow` | a template as a constant: what `Validate` accepts, task resolution | `InstanceEngine`, `SagaContract` |
| `SagaContract` | abstract: what the engine promises, each report in one step | refined by `InstanceEngine`, part of `SagaSystem` |
| `InstanceEngine` | endpoints, transition script and reaper | everything about the engine |
| `ReapSequence` | the loop of `reap_batch`, as a reference for `ReapBatch` | run `reap_sequence` |
| `StaleDeadline` | the engine plus a deadline member that belongs to no published task | run `stale_deadline` |
| `JobQueue` | abstract: an at-least-once queue | refined by `WorkQueue`, twice in `SagaSystem` |
| `WorkQueue` | `queue.go` | both queues |
| `SagaSystem` | contract, two job queues, `archiveJob`, `webhookJob`, table, registry | run `saga_system` |
| `SearchIndex` | `ensureIndex` | `Server`, `IndexUpgrade` |
| `IndexUpgrade` | `ensureIndex` of two releases | run `index_upgrade` |
| `Server` | `run()` of any number of replicas | run `server_lifecycle` |
| `Heartbeat` | the loops in time, `health.go` | `Api` |
| `Api` | handlers, layers, answers | run `api_and_probes` |
| `*Proofs` | the theorems of section 4 | - |
| `MC*` | workflows, files, backoff and symmetry for TLC | the runs |

How they fit together. `InstanceEngine` implements `SagaContract` and
`WorkQueue` implements `JobQueue`, both as properties of runs and as theorems.
`SagaSystem` is therefore composed from the two abstract specifications, where
neither handlers nor leases are left, and what it shows holds of the detailed
ones together: the script writes documents and queues in one step, which is the
conjunction `Engine`. `Server` extends `SearchIndex`; `Api` extends `Heartbeat`.

### InstanceEngine

*State.* `inst`, `states` and `payload` are the fields of the instance document
that the script reads or writes (`$.state`, `$.tasks[*].state`,
`$.tasks[*].payload`); `deadlines`, `archive` and `webhooks` are the three
sorted sets, with the member `<id>:<index>` as a pair. `call` is what each
concurrent `/update_instance` handler is doing, `wire` holds script calls that
Redis may still execute although nobody waits for them, `reaper` the clock
reading of each reaper's running tick. `told` is a history variable: the task
states that 200 answers have reported.

*Actions.* `StartInstance` is the endpoint. `UpdateInstance` is split where
other processes can act: `Report` is everything up to the script call, `Answer`
the script's execution with the reply reaching the handler, `SendFails` a call
the client gives up on (it may still be on its way), `LateRun` the execution of
such a call, `Resend` the client's own retry, `Error` the handler's INTERNAL
answer. `ReapRead`, `ReapTick` and `ReapError` are a tick. `DeleteInstance` is
an operator removing a document, which the script and the workers allow for.

*Script.* `Decide` is the table of `decide`; `Outcome` is the code `run`
returns, with the targets evaluated before the terminal gate, as in the code;
`Arming`, `Disarming`, `StatesAfter`, `InstanceAfter`, `Failing` and `Ending`
are the writes; `Run` puts them together. `ReapBatch` gives the effect of
`reap_batch` at once and `ReapSequence` shows it is what the loop does. In a
batch, `run` is called with the action name `reap_batch`, not `reap`; the model
keeps that.

*Abstractions.* The document read of `Report` and its clock reading are one
step: the template part of a document never changes, so an earlier read returns
the same targets, and only the age of the clock reading matters. One clock
serves all processes (no skew between replicas). Redis orders equal scores by
member bytes; members begin with a random UUID, so any order is allowed.
Parameter and body checks refuse without touching anything; they are in `Api`,
and here they are folded into the guard. Not modelled: documents of an old
schema (BAD_SCHEMA), indexes outside the array (TASK_NOT_FOUND, which resolution
cannot produce), malformed deadline members, timestamps in the document.

### WorkQueue

*State.* `queue` is the sorted set with scores as *time left* until the job is
due, so that behaviours may go on for ever in finitely many states; `attempts`
the hash; `lane[w][j]` where worker `w`'s goroutine for job `j` stands, how much
of its context timeout is left and the count it got from bump. `seen`, `ended`
and `failures` are history.

*Actions.* One per Redis command: `Claim` (and `ClaimLost`, the claim that ran
without the worker learning of it), `Start` (a semaphore slot), `WorkEnds`,
`WorkFails`, `Bump` (re-sent up to `MaxResend` times), `BumpLost`,
`Reschedule`, `DoneRemove` and `DoneClear` (the two commands of the pipeline
`done`), `CommandFails`, `Crash`, and `Pass`, one unit of time. `Work` is
nondeterministic: it delivers, drops or fails, within `WorkLimit`. `WorkLimit`
below `Timeout` is the webhook worker's HTTP timeout; equal to it, the archive
worker's, whose failed insert may leave no time to count the failure.

### SagaContract and JobQueue

`SagaContract` has the documents, the due times, the jobs owed and a clock. A
publish, consume or fail takes effect in one step on the state the saga has at
that moment; the reaper is `Expire`, any set of overdue tasks failing at once,
at most one of an instance. The mapping is the identity on the documents;
deadlines count while their document exists (`LiveDeadlines`: a deleted
instance may leave members behind until a tick drops them), and the jobs owed
are the members ever queued (`JobsOwed`). `JobQueue` has put, end, remove and
put back; `WorkQueue` maps to it by the domain of its sorted set and its
history variables.

### SagaSystem

A *lane* is a goroutine of any replica that has one job in hand: what it has
read (`archiver`, `sender`), between any two of its calls. Two archive lanes may
hold the same job, since leases can expire. `ArchiveRead`, `ArchiveInsert`,
`ArchiveFails` are the calls of `archiveJob`; `WebhookRead`, `LookupFinds`,
`LookupDrops`, `LookupFails`, `PostDelivered`, `PostFails` those of
`webhookJob`; `ArchiveSettle`, `WebhookSettle` and `WebhookGiveUp` what the
worker does after them. A failed insert may have been executed, a failed POST
may have arrived. The registry is a file that is read anew at every attempt and
that the operator edits or breaks at any time (`EditRegistry`). A job that is
given up is `gaveUp` after any failed attempt: how many it takes is
`WorkQueue`'s `GivesUpAfterMaxAttempts`.

### SearchIndex, IndexUpgrade, Server

`SearchIndex` has the index, the recorded schema hash and, per process, the
command it is about to send; a schema stands for its hash. `EnsureFails` ends a
start before or after the command took effect. Start-up runs it for two indexes
in turn, which share nothing; the model has one.

`Server` is `run()`: `pc` is the stage, `defers` the stack of deferred closes,
`signalled` the cancelled context, `worker` and `jobs` the queue workers' ticks,
`handlers` the requests in flight. The stages that hand `ctx` to a store fail
once it is cancelled, the others go on. `StartEngine` is the part of `run()`
between the DSL and the metrics listener: `ValidateServices`, `LoadScripts`,
`UseMeterProvider`, `checkRedisPersistence`, which read and may refuse.
`Drained` may overrun (10 s), `WorkersStopped` waits for every tick, and a tick
works through everything it has claimed even after the stop: the job's context
is not the loop's. The reaper is started and stopped with the workers and never
waited for; a tick cut off by the teardown is a lost script call of
`InstanceEngine`.

### Heartbeat and Api

`Heartbeat` counts time in units: what is left of a ticker period, of a call to
Redis, of each running job, and how old the last beat is. A loop that has used
up its time must move before time passes (`MayWait`), unless it hangs. The
worker's semaphore is the set of slots. `loopCheck`, `Liveness`, `Readiness` and
`Healthy` are those of `health.go`. `TimingAssumption` says that one call plus a
ticker period, and one call plus a job's timeout, fit into `StallTimeout`. The
code leaves the limit of a call to the Redis client's own timeouts and retries:
its context has none.

`Api` gives every handler and every layer as a function from the request, with
what the stores will say, to an answer: code, status, CORS header, effect on the
stores (none, read, written, unknown), the recorded result, the page and the
level of the access line. `Respond` wraps them in the order of `handler()`. An
effect is *unknown* when a write has failed: it may have been executed.

## 3. Runs

Passing:

| Run | Question | Instance |
| --- | --- | --- |
| `engine_races` | Do documents, deadlines, jobs and answers agree when handlers and reaper race? | one instance, two tasks on one topic, two handlers, two bodies, clock to 2 |
| `engine_lost_calls` | Do they when script calls are lost, late or doubled, and is each step one of the contract? | one handler, one re-send, one late call |
| `engine_liveness` | Is every deadline eventually dealt with? | two instances, batch of one, failing ticks, deletions |
| `reap_sequence` | Is `ReapBatch` the script's loop? | two instances of two tasks, batch of three |
| `queue_lease` | Is every job safe, and one worker's, while batches end within their lease? | two workers, two jobs, one crash |
| `queue_liveness` | Is the queue an at-least-once queue, and every job eventually removed, when leases do expire? | two workers, lease shorter than a job, re-sent counts, one crash |
| `saga_system` | Does every ending reach the table and every failure its publisher? | one saga of two tasks and two publishers, two archive lanes, one sender, three states of the registry |
| `server_lifecycle` | Is what serves complete, and does every start and stop end, whoever else starts, fails or dies? | two replicas, a store used by an older release, two workflows, two pings, batches of two |
| `api_and_probes` | What is a request answered, and what are the probes told? | all requests; a reaper and a worker with two slots and batches of three |

Why these bounds are enough. Script calls on different instances share nothing
but the sets, whose members carry the instance, so one instance shows every
race on a document and two show the batch. Two tasks give a sibling that is
due earlier, later or not at all; timeouts of 1 and 2 with a clock to 2 let a
task be due, not yet due, and re-armed. Two handlers and a reaper are three
actors on one task; `engine_lost_calls` makes a single handler as harmful as
several, since its earlier calls are still on the wire. In the queue, two
workers are what a lease protects against each other, two jobs fill the
semaphore, and `AttemptCap` lies at or above `MaxAttempts`, beyond which the
counter changes nothing. In `saga_system` two lanes hold one job in different
stages, and a sender crosses an edit of the registry between reading, looking up
and posting; jobs of different sagas share no state. In `server_lifecycle` two
replicas suffice for every overlap of two commands of `ensureIndex`; the rest of
a process is its own. One worker stands for both, since they share nothing, and
two pings are a first, a last and one that is both counted and allowed. In
`api_and_probes` the limits are scaled so that the slowest healthy tick just
fits into `StallTimeout`: one unit more and the property fails. Only
`ProbesTellLoopsFromStores` relates an answer to the loops, and it does so as an
invariant of the loops; the requests themselves are therefore made in one state
of the loops (`MCNext`). The theorems do not depend on any of these bounds.

Fairness. *Engine*: the clock advances; the reaper's ticker fires (`WF` of
`ReapRead`), and a tick that can be made again and again is eventually made
(`SF` of `ReapTick`: Redis does not fail for ever). *Queue*: time passes, the
loop ticks, goroutines are scheduled, Work returns within its timeout (both HTTP
client and pgx get the context), and the count and the removal do not fail for
ever (`SF`). Nothing is assumed about Work succeeding, about reports arriving,
or about a crashed worker's luck. *SagaSystem*: a due job is claimed before
younger ones and comes back when it fails, so its read and its insert are tried
again and again, and Postgres does not refuse them for ever (`SF`); nothing is
assumed about publishers, the registry, or a lane not being stopped. *Server*:
`run()` and the teardown go on, since every call in them returns (the stores'
clients have their timeouts, the pings are counted, `Shutdown` has a deadline),
jobs end within their timeout, and a stopped loop notices. Nothing is assumed of
handlers, stores or orchestrator. *Heartbeat*: time goes on (`SF`) and a
goroutine that can run does.

Violations. Each states a line of the repository's documents or comments that
the code does not live up to; section 6 explains them.

| Run | Property | Stated in |
| --- | --- | --- |
| `stale_deadline` | `StaleDeadlineDiscarded` | `transition.lua:237`, `contract.md:32` |
| `lost_reply_refusal` | `RefusalMeansUnchanged` | `api.md:75` |
| `index_upgrade` | `AloneHasItsIndex` | `templating.go:169` |

Each property of a passing run has a mutant: a definition of the model changed
the way a slip in the code would change it (the operators marked "Mutant"),
under which TLC finds the property violated.

## 4. Proofs

`InstanceEngineProofs` proves, from `WorkflowValid` (what `Validate` accepts)
and `EngineAssumption` (natural bounds, a `NoBody` that is no body) only, for
any number of tasks, topics, instances, handlers, reapers, re-sends and late
calls:

- `TypeCorrect`, `DeadlinesExact`, `InstanceFollowsTasks`, `JobsFollowEnding`,
  `TopicsMoveTogether`, `PayloadsPresent`, `AnswersTrue`: the invariants of
  `engine_races`;
- `EndedFrozen` and `OverdueOnly`: its action properties.

*The inductive invariant* `Inv`. None of the invariants is inductive alone.
A publish does not end an instance only because a live instance has no failed
task (`InstanceMatchesTasks`); a failure queues a job that was not there only
because jobs match endings; topics stay together only if a publish in flight
names all the tasks of its topic. `Inv` therefore is the conjunction of all of
them (`DataInv`), with `Fresh` (an instance that has not started has an
untouched document), `InFlight` (every call waited for or still on the wire
has been resolved: a publish to a whole topic, a consume or fail to one task,
which is where "no two tasks with the same topic and consumer" is used),
`ReapersBehind` (a tick's clock reading is not in the future) and `ToldStarted`.

*The argument.* `RunEffect` says what a writing script call does to each
document and each sorted set; `PublishFacts`, `ConsumeFacts` and `FailFacts`
reduce the three actions to that; `RunInv` concludes. `ReapBatchEffect` and
`ReapInv` do the same for the batch. `RunForward` and `ReapForward` say that
tasks only move forward, which keeps answers true. `NextInv` has one step per
action.

`WorkQueueProofs` is about any number of jobs and workers, any lease, batch,
timeout and attempt limit.

- `QueueTypeCorrect` and `JobsKept` (`NoJobLost`): leases protect against
  duplicate work, not against loss. The inductive invariant adds that a
  goroutine about to acknowledge a job has seen it end.
- `ImplementsQueue`: the queue, with its claims, leases, counters, crashes and
  lost replies, implements `JobQueue`. Only the steps that put a job in, end its
  Work, take it out, or reschedule it after another worker took it out are steps
  of the abstract queue; all others stutter. That a job taken out has ended is
  the invariant of `JobsKept`.
- `GivesUpTrue` (`GivesUpAfterMaxAttempts`), from `MaxResend = 0`: the counter
  alone says nothing while several goroutines hold failures they have still to
  record. `FailuresCounted` counts both: recorded failures and those about to be
  recorded together never exceed the failures there have been. With re-sends it
  is false (section 6).
- `LeaseHolds` (`LeasedToOneCaller`) and `RemovedForGood`
  (`RemovedStaysRemoved`): for a number of rounds `r` with `r * Timeout < Lease`,
  as long as a claim cannot take more than `r * Parallel` jobs, because of its
  limit or because no more are due (`ShortBacklog(r)`). `LimitWithinLease` is the
  case of the limit, and of the run `queue_lease`; the code's limit of 1000 is
  far above it, so for the code the premise is one on the load: at most 2 archive
  jobs due at once (one at a time, 10 s, lease 30 s, `r = 2`), at most 64 webhooks
  (16 at a time, 6 s, `r = 4`). Beyond that, jobs that take their whole timeout
  outlive the lease and the statement is false. `BatchOf(w, r, a)` is the
  invariant of one batch of age `a`: every job in hand has exactly `Lease - a`
  left in the queue, and by the time `m - 1` timeouts have passed, at most
  `(r - m) * Parallel` jobs are waiting or may run beyond `m` timeouts. A unit of
  time preserves it because time only passes with every slot taken or nothing
  waiting. It follows that nothing in hand is ever due, so that no claim takes it.

`SagaSystemProofs` proves, for any workflow, lanes, senders, registry files and
URLs, the types and the four invariants of `saga_system`: `RowsAreFinal`,
`EndingsAccountedFor`, `FailuresAccountedFor`, `DeliveriesToPublisher`. The
inductive invariant `SystemInv` adds to them what relates the parts: what is owed
is exactly what has ended or failed (`OwedExactly`), every job owed is pending or
has an ending whose reason still holds (`ArchiveAccounts`, `WebhookAccounts`), and
what a lane carries between two calls is final (`ArchiversTrue`, `SendersTrue`).
`EndedStays`, what no step of the contract may change, carries the documents in
lanes and table through the engine's steps. `SystemAssumption` says that the
placeholders are not themselves a URL or a body, and that the file at start-up
passed `ValidateServices`. `PartsKeepTheirPromises` shows the composition to
implement `SagaContract` and `JobQueue` twice, so that what is proved of them
holds in the system.

`ServerProofs` is about any number of replicas, workers, workflows, requests and
pings: `ServerTypeCorrect`, `WorkOutlivesNoClient` (`WorkKeepsItsClients`), and,
under `OneRelease`, `ServesComplete` (`ServesOnlyComplete`) and
`ReplicasSettleIndex`. `ServerInv` says for each stage of `run()` which deferred
closes are on the stack (`DefersOfStage`), which goroutines run beside it
(`WorkOfStage`) and what start-up has left in the stores (`StoresOfStage`). A
process that is killed anywhere falls back to the first stage, and what it left
in the stores stays. The index is `IndexInv` of `SearchIndexProofs`: every step of
a replica is one of `SearchIndex` or leaves the index alone (`IndexOfReplicas`).
`OneRelease` is needed: with two releases it is the run `index_upgrade`.

`ApiProofs` proves the request properties for every request of every caller, any
limits with `listDefaultLimit <= listMaxLimit` (50 and 1000 in the code) and any
numbers asked for: `KeysGuard`, `CorsEverywhere`, `RefusalsChangeNothing`,
`ReportsCounted`, `PagesAsAsked`; and `ProbesTrue` for any loops. The invariant
`Answered` says that the exchange is an answer of `Respond`; the lemmas go through
the handlers one by one (`Honest`: status and count follow the code, only success
has written) and then through the layers, which keep code and effect. `ProbesTrue`
rests on `HeartInv` and on `Beaten`, that a beat is never taken back.

`ContractProofs` proves `EngineImplementsContract`: the engine implements
`SagaContract`, in which a report takes effect at once and a deadline is the
deadline of a live instance. `LiveDeadlines` leaves out the members of the
sorted set whose instance's key is gone, `JobsOwed` is the members of the two
job sets without their scores. `Inv` is assumed in each step: a reaper's batch
is one contract step because an armed deadline belongs to a task that waits for
it, and a call that the script refuses, or that arrives late, is a stutter
because nothing of the contract's state changes.

`SearchIndexProofs` proves `IndexOfOneRelease`: under `OneRelease` (all
processes want one schema), any number of processes that start, fail and start
again leave the index with their schema. `IndexInv` adds to the types
`VersionTrusted` (the recorded version is only the wanted one when the other
release's index is gone) and `GapOwned` (whoever drops an index that others rely
on has still to create it). Without `OneRelease` the statement fails: that is
the run `index_upgrade`.

`HeartbeatProofs` proves `RunningNotStalled` from `TimingAssumption`, for any
number of loops, slots and jobs. That a beat is never too old is not inductive;
`HeartInv` bounds the age of the last beat together with the time that is left
where the loop is: in a call `CallLimit`, in the select `CallLimit + Interval`,
among its jobs `CallLimit + JobTimeout` for each running job. A job starts as
soon as a slot is free, so while one can start the age is at most `CallLimit`.

*Only model-checked.* Liveness (`DeadlineResolved`, `JobSettled`,
`EndedIsArchived`, `SignalEnds`, `StartSettles`, `HungReported`), which needs
reasoning about fairness and ENABLED that the prover does not do, and
`BatchIsSequential`, a statement about a fold, which needs induction over the
batch. Every other property of a passing run is a theorem.

## 5. Not modelled

- *The signature* (`webhooksig`): an HMAC over the bytes of a body, which the
  models do not have, checked with a time window by receivers that are not part
  of this program.
- *Old documents*: BAD_SCHEMA is an answer in `Api`; there is no migration whose
  steps could be modelled.
- *What a search matches*: filters, escaping of tags and time ranges are texts
  handed to RediSearch. The list endpoint is modelled up to the page it asks for.
- *Metrics, logs, traces*, beyond the recorded result and the level of a line:
  observation only. The opt-in pprof listener is left out for the same reason.
- *SDKs*: thin HTTP clients that do not retry by themselves; whatever they send
  is a report of `InstanceEngine`.
- *The bench harness, the browser UI, test helpers, generated and vendored code.*
- *Clock skew and clock steps*: one clock serves all replicas and only advances.
  Heartbeats and deadlines are wall-clock times in the code, so a step of the
  clock can make a running loop look stalled or a deadline pass early.

## 6. What the code does differently from its documents

Shown by a run:

- *Stale deadlines* (`stale_deadline`). `run` tests for the action `reap`,
  which nothing sends since batches were introduced: the Go side sends
  `reap_batch` and the script passes that on. The branches that discard a stale
  deadline are dead; such a member is refused and stays. The engine itself
  never creates one (`DeadlinesExact`), so it takes outside help, a restored or
  hand-edited set; but then it takes up a place in every batch.
- *Refusals* (`lost_reply_refusal`). go-redis re-sends a call whose reply was
  lost. A 409 TASK_ALREADY_... may refer to the report's own execution. For the
  same reason the comment at `instance_engine.go:426` ("A returned error means
  the script did not run to completion and nothing changed") and `api.md:76` on
  500 are too strong, and a re-sent HINCRBY (`queue.go:58`) can count one failed
  delivery twice, so that `GivesUpAfterMaxAttempts` is checked and proved only
  without re-sends.
- *Index upgrades* (`index_upgrade`). `ensureIndex` creates the index and then
  records the hash of its schema. A new release that dies in between leaves its
  own index under the old hash. The old release, rolled back to, finds an index
  and its own hash and keeps a schema that is not its own. Starting the new
  release again repairs it: it finds a hash that is not its own. Replicas of one
  release are not affected (`SettledIndexRight`, proved).

Read off the models without a run of their own:

- *Leases* (`queue.go:167`, "every job is leased to one caller"). The archive
  worker works through up to 1000 jobs one after the other, each with up to
  10 s, under a single lease of 30 s that is never renewed. A second replica
  claims what is still waiting; `queue_lease` and `LeaseHolds` therefore bound a
  batch by its lease. Archive rows are idempotent; webhooks can arrive twice, which
  at-least-once delivery permits. The same batch delays a stop: "in-flight jobs
  finish" (`main.go:362`) means the whole claimed batch.
- *Windows* (`contract.md:81`, "a fresh window"). The deadline is computed from
  a clock read before the call is sent, so of two retried publishes the one with
  the older clock can run last and pull the deadline back.
- *Codes* (`contract.md:52`, INSTANCE_TERMINAL "whatever the target task's
  state"). Targets are evaluated before the terminal gate, so most late reports
  on an ended instance get the code of the task's state.
- *Dropped jobs* (`queue.go:206`, "counted apart"). A dropped job is counted as
  dropped and then, with the error cleared, also as done.
- *Stalls* (`health.go:54`). The liveness probe never touches a store, but a loop
  waits for a store between two beats. That an outage does not fail the probe
  rests on the client library giving up within `LoopStallTimeout`
  (`TimingAssumption`).
