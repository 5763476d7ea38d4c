------------------------------- MODULE Server --------------------------------
(***************************************************************************)
(* The life of the replicas: run() of main.go from its configuration to    *)
(* its deferred closes, with the stages of start-up that can fail or be    *)
(* interrupted, what they leave behind in the shared stores, the           *)
(* queue workers, the HTTP server, SIGTERM, and the teardown.  Redis and   *)
(* Postgres may fail any call.  The orchestrator launches a process that   *)
(* has exited again and may kill it at any time.  The reaper is started    *)
(* and stopped with the workers but never waited for: a tick that the      *)
(* teardown cuts off is a lost script call of InstanceEngine.              *)
(***************************************************************************)
EXTENDS SearchIndex, Naturals, Sequences

CONSTANTS Workflow,     \* the workflows of the DSL files
          Worker,       \* the queue workers of a process
          MaxAttempts,  \* pings of Postgres (30 in the code)
          Batch,        \* bound: jobs of a claim
          MaxHandler    \* bound: requests in flight

ASSUME ServerAssumption ==
  /\ MaxAttempts \in Nat \ {0} /\ Batch \in Nat \ {0} /\ MaxHandler \in Nat \ {0}

VARIABLES
  pc,          \* how far run() is
  signalled,   \* SIGTERM or SIGINT has come: ctx is cancelled
  attempt,     \* pings of Postgres so far
  defers,      \* the deferred closes, in the order of their defer statements
  jobs,        \* jobs each worker's tick still has to finish
  worker,      \* each worker goroutine: off, select or tick
  handlers,    \* requests being handled
  overran,     \* Shutdown gave up on handlers after 10 s
  outcome,     \* what run() is about to return: ok or error
  templates,   \* workflow_template:* in Redis
  table        \* instance_history exists in Postgres

loops  == <<jobs, worker>>
vars   == <<pc, signalled, attempt, defers, loops, handlers, overran, outcome,
            templates, table, indexVars>>

Startup  == {"config", "otel", "redis", "postgres", "files", "templates", "index",
             "table", "engine", "metrics", "loops"}
Teardown == {"drain", "await", "close"}
Closer   == {"otel", "redis", "postgres", "metrics"}

TypeOK ==
  /\ IndexTypeOK
  /\ pc \in [Process -> {"down", "serving"} \cup Startup \cup Teardown]
  /\ signalled \in [Process -> BOOLEAN] /\ overran \in [Process -> BOOLEAN]
  /\ attempt \in [Process -> 0 .. MaxAttempts - 1]
  /\ \A p \in Process : defers[p] \in Seq(Closer) /\ Len(defers[p]) <= 4
  /\ worker \in [Process -> [Worker -> {"off", "select", "tick"}]]
  /\ jobs \in [Process -> [Worker -> 0 .. Batch]]
  /\ handlers \in [Process -> 0 .. MaxHandler]
  /\ outcome \in [Process -> {"none", "ok", "error"}]
  /\ templates \subseteq Workflow /\ table \in BOOLEAN

Init ==
  /\ IndexInit
  /\ pc = [p \in Process |-> "down"]
  /\ signalled = [p \in Process |-> FALSE] /\ overran = [p \in Process |-> FALSE]
  /\ attempt = [p \in Process |-> 0]
  /\ defers = [p \in Process |-> <<>>]
  /\ worker = [p \in Process |-> [w \in Worker |-> "off"]]
  /\ jobs = [p \in Process |-> [w \in Worker |-> 0]]
  /\ handlers = [p \in Process |-> 0]
  /\ outcome = [p \in Process |-> "none"]
  /\ templates = {} /\ table = FALSE

-----------------------------------------------------------------------------
Open(p)  == {defers[p][i] : i \in DOMAIN defers[p]}
To(p, s) == pc' = [pc EXCEPT ![p] = s]
Defer(p, c) == defers' = [defers EXCEPT ![p] = Append(@, c)]

(* A start-up stage comes to its end.  The stages that pass ctx on fail    *)
(* once it is cancelled.                                                   *)
Stage(p, s, next, usesCtx) ==
  /\ pc[p] = s /\ (usesCtx => ~signalled[p])
  /\ To(p, next)
  /\ UNCHANGED <<signalled, loops, handlers, overran, outcome>>

Launch(p) ==
  /\ pc[p] = "down"
  /\ To(p, "config")
  /\ UNCHANGED <<signalled, attempt, defers, loops, handlers, overran, outcome,
                 templates, table, indexVars>>

(* loadSecurityConfig.                                                     *)
LoadConfig(p) ==
  /\ Stage(p, "config", "otel", FALSE)
  /\ UNCHANGED <<attempt, defers, templates, table, indexVars>>

SetupOtel(p) ==
  /\ Stage(p, "otel", "redis", FALSE)
  /\ Defer(p, "otel")
  /\ UNCHANGED <<attempt, templates, table, indexVars>>

DBConnect(p) ==
  /\ Stage(p, "redis", "postgres", TRUE)
  /\ Defer(p, "redis")
  /\ UNCHANGED <<attempt, templates, table, indexVars>>

ConnectPostgres(p) ==
  /\ Stage(p, "postgres", "files", TRUE)
  /\ Defer(p, "postgres")
  /\ attempt' = [attempt EXCEPT ![p] = 0]
  /\ UNCHANGED <<templates, table, indexVars>>

(* Mutant: one attempt too many.                                           *)
PingFailsOnceMore(p) ==
  /\ attempt[p] < MaxAttempts
  /\ Stage(p, "postgres", "postgres", TRUE)
  /\ attempt' = [attempt EXCEPT ![p] = @ + 1]
  /\ UNCHANGED <<defers, templates, table, indexVars>>

(* Mutant: the attempts are counted but not limited.                       *)
PingFailsForEver(p) ==
  /\ Stage(p, "postgres", "postgres", TRUE)
  /\ attempt' = [attempt EXCEPT ![p] = (@ + 1) % MaxAttempts]
  /\ UNCHANGED <<defers, templates, table, indexVars>>

(* Postgres does not answer; another attempt after a second.               *)
PingFails(p) ==
  /\ attempt[p] < MaxAttempts - 1
  /\ Stage(p, "postgres", "postgres", TRUE)
  /\ attempt' = [attempt EXCEPT ![p] = @ + 1]
  /\ UNCHANGED <<defers, templates, table, indexVars>>

(* listFiles, loadFiles: every file is read and validated before anything  *)
(* is stored.                                                              *)
LoadFiles(p) ==
  /\ Stage(p, "files", "templates", FALSE)
  /\ UNCHANGED <<attempt, defers, templates, table, indexVars>>

(* One JSON.SET for each workflow.  A template that an earlier start left  *)
(* is written over.                                                        *)
StoreTemplate(p, wf) ==
  /\ Stage(p, "templates", "templates", TRUE)
  /\ templates' = templates \cup {wf}
  /\ UNCHANGED <<attempt, defers, table, indexVars>>

(* Mutant: a template that could not be stored is passed over.             *)
TemplatesStoredMostly(p) ==
  /\ templates # {}
  /\ Stage(p, "templates", "index", TRUE)
  /\ UNCHANGED <<attempt, defers, templates, table>>
  /\ Begin(p)

TemplatesStored(p) ==
  /\ templates = Workflow
  /\ Stage(p, "templates", "index", TRUE)
  /\ UNCHANGED <<attempt, defers, templates, table>>
  /\ Begin(p)

IndexStep(p) ==
  /\ pc[p] = "index" /\ ~signalled[p]
  /\ EnsureStep(p)
  /\ To(p, IF step'[p] = "done" THEN "table" ELSE "index")
  /\ UNCHANGED <<signalled, attempt, defers, loops, handlers, overran, outcome,
                 templates, table>>

CreateTable(p) ==
  /\ Stage(p, "table", "engine", TRUE)
  /\ table' = TRUE
  /\ UNCHANGED <<attempt, defers, templates, indexVars>>

(* ValidateServices, LoadScripts, UseMeterProvider, checkRedisPersistence: *)
(* each reads and may refuse.                                              *)
StartEngine(p) ==
  /\ Stage(p, "engine", "metrics", TRUE)
  /\ UNCHANGED <<attempt, defers, templates, table, indexVars>>

ListenMetrics(p) ==
  /\ Stage(p, "metrics", "loops", FALSE)
  /\ Defer(p, "metrics") \/ UNCHANGED defers      \* SAGAWISE_METRICS_ADDR=off
  /\ UNCHANGED <<attempt, templates, table, indexVars>>

(* The reaper and the workers are started, then the server.                *)
StartLoops(p) ==
  /\ pc[p] = "loops"
  /\ To(p, "serving")
  /\ worker' = [worker EXCEPT ![p] = [w \in Worker |-> "select"]]
  /\ UNCHANGED <<signalled, attempt, defers, jobs, handlers, overran, outcome,
                 templates, table, indexVars>>

(* A stage returns an error; a command that changes a store may have       *)
(* changed it all the same.  The deferred closes so far are run.           *)
StartupFails(p) ==
  /\ pc[p] \in Startup \ {"loops"}
  /\ To(p, "close")
  /\ outcome' = [outcome EXCEPT ![p] = "error"]
  /\ \/ pc[p] # "index" /\ UNCHANGED <<templates, table, indexVars>>
     \/ pc[p] = "templates" /\ \E wf \in Workflow : templates' = templates \cup {wf}
        /\ UNCHANGED <<table, indexVars>>
     \/ pc[p] = "table" /\ table' = TRUE /\ UNCHANGED <<templates, indexVars>>
     \/ pc[p] = "index" /\ EnsureFails(p) /\ UNCHANGED <<templates, table>>
  /\ attempt' = [attempt EXCEPT ![p] = 0]
  /\ UNCHANGED <<signalled, defers, loops, handlers, overran>>

-----------------------------------------------------------------------------
(* What runs beside run(): handlers and the workers. *)

Accept(p) ==
  /\ pc[p] = "serving" /\ handlers[p] < MaxHandler
  /\ handlers' = [handlers EXCEPT ![p] = @ + 1]
  /\ UNCHANGED <<pc, signalled, attempt, defers, loops, overran, outcome,
                 templates, table, indexVars>>

Handled(p) ==
  /\ handlers[p] > 0
  /\ handlers' = [handlers EXCEPT ![p] = @ - 1]
  /\ UNCHANGED <<pc, signalled, attempt, defers, loops, overran, outcome,
                 templates, table, indexVars>>

(* stopReaper and stopWorkers have been called.                            *)
Stopped(p) == pc[p] \in {"await", "close"}

(* A claim.  Once stopped it fails, and the loop ends.                     *)
WorkerClaims(p, w) ==
  /\ worker[p][w] = "select" /\ ~Stopped(p)
  /\ worker' = [worker EXCEPT ![p][w] = "tick"]
  /\ \E n \in 1 .. Batch : jobs' = [jobs EXCEPT ![p][w] = n]
  /\ UNCHANGED <<pc, signalled, attempt, defers, handlers, overran, outcome,
                 templates, table, indexVars>>

(* A job ends, within its timeout: its context is not the loop's.  The     *)
(* tick goes through all it has claimed, stopped or not.                   *)
JobEnds(p, w) ==
  /\ worker[p][w] = "tick"
  /\ jobs' = [jobs EXCEPT ![p][w] = @ - 1]
  /\ worker' = [worker EXCEPT ![p][w] = IF jobs[p][w] = 1 THEN "select" ELSE @]
  /\ UNCHANGED <<pc, signalled, attempt, defers, handlers, overran, outcome,
                 templates, table, indexVars>>

WorkerEnds(p, w) ==
  /\ worker[p][w] = "select" /\ Stopped(p)
  /\ worker' = [worker EXCEPT ![p][w] = "off"]
  /\ UNCHANGED <<pc, signalled, attempt, defers, jobs, handlers, overran,
                 outcome, templates, table, indexVars>>

-----------------------------------------------------------------------------
(* The end.                                                                *)

Signal(p) ==
  /\ pc[p] # "down" /\ ~signalled[p]
  /\ signalled' = [signalled EXCEPT ![p] = TRUE]
  /\ UNCHANGED <<pc, attempt, defers, loops, handlers, overran, outcome,
                 templates, table, indexVars>>

(* ListenAndServe returns an error: the address is in use, or accepting    *)
(* fails.  run returns at once.                                            *)
ServeFails(p) ==
  /\ pc[p] = "serving"
  /\ To(p, "close")
  /\ outcome' = [outcome EXCEPT ![p] = "error"]
  /\ UNCHANGED <<signalled, attempt, defers, loops, handlers, overran,
                 templates, table, indexVars>>

(* ctx is done; Shutdown closes the listener.                              *)
ShuttingDown(p) ==
  /\ pc[p] = "serving" /\ signalled[p]
  /\ To(p, "drain")
  /\ UNCHANGED <<signalled, attempt, defers, loops, handlers, overran, outcome,
                 templates, table, indexVars>>

(* Mutant: Shutdown without a deadline.                                    *)
DrainedOfAll(p) ==
  /\ pc[p] = "drain" /\ handlers[p] = 0
  /\ To(p, "await")
  /\ UNCHANGED <<signalled, attempt, defers, loops, handlers, overran, outcome,
                 templates, table, indexVars>>

(* Shutdown returns when no request is left, or after 10 s.                *)
Drained(p) ==
  /\ pc[p] = "drain"
  /\ overran' = [overran EXCEPT ![p] = handlers[p] > 0]
  /\ To(p, "await")
  /\ UNCHANGED <<signalled, attempt, defers, loops, handlers, outcome,
                 templates, table, indexVars>>

(* Mutant: the workers are told to stop and not waited for.                *)
WorkersNotAwaited(p) ==
  /\ pc[p] = "await"
  /\ To(p, "close")
  /\ outcome' = [outcome EXCEPT ![p] = "ok"]
  /\ UNCHANGED <<signalled, attempt, defers, loops, handlers, overran,
                 templates, table, indexVars>>

(* StopWorkers returns.                                                    *)
WorkersStopped(p) ==
  /\ pc[p] = "await" /\ \A w \in Worker : worker[p][w] = "off"
  /\ To(p, "close")
  /\ outcome' = [outcome EXCEPT ![p] = "ok"]
  /\ UNCHANGED <<signalled, attempt, defers, loops, handlers, overran,
                 templates, table, indexVars>>

(* The deferred calls, last one first.                                     *)
Close(p) ==
  /\ pc[p] = "close" /\ defers[p] # <<>>
  /\ defers' = [defers EXCEPT ![p] = SubSeq(@, 1, Len(@) - 1)]
  /\ UNCHANGED <<pc, signalled, attempt, loops, handlers, overran, outcome,
                 templates, table, indexVars>>

(* The process is gone, and every goroutine with it.                       *)
Gone(p) ==
  /\ To(p, "down")
  /\ worker' = [worker EXCEPT ![p] = [w \in Worker |-> "off"]]
  /\ jobs' = [jobs EXCEPT ![p] = [w \in Worker |-> 0]]
  /\ handlers' = [handlers EXCEPT ![p] = 0]
  /\ signalled' = [signalled EXCEPT ![p] = FALSE]
  /\ overran' = [overran EXCEPT ![p] = FALSE]
  /\ outcome' = [outcome EXCEPT ![p] = "none"]
  /\ defers' = [defers EXCEPT ![p] = <<>>]
  /\ UNCHANGED <<templates, table>>

Exit(p) ==
  /\ pc[p] = "close" /\ defers[p] = <<>>
  /\ Gone(p)
  /\ UNCHANGED <<attempt, indexVars>>

(* SIGKILL, after the grace period or out of memory; a command that is on  *)
(* its way to Redis may still be executed.                                 *)
Kill(p) ==
  /\ pc[p] # "down"
  /\ Gone(p)
  /\ attempt' = [attempt EXCEPT ![p] = 0]
  /\ IF pc[p] = "index" THEN EnsureFails(p) ELSE UNCHANGED indexVars

StartupStep(p) ==
  \/ LoadConfig(p) \/ SetupOtel(p) \/ DBConnect(p) \/ ConnectPostgres(p) \/ PingFails(p)
  \/ LoadFiles(p) \/ TemplatesStored(p) \/ IndexStep(p) \/ CreateTable(p)
  \/ \E wf \in Workflow \ templates : StoreTemplate(p, wf)
  \/ StartEngine(p) \/ ListenMetrics(p) \/ StartLoops(p)

TeardownStep(p) ==
  ShuttingDown(p) \/ Drained(p) \/ WorkersStopped(p) \/ Close(p) \/ Exit(p)

WorkerStep(p, w) == WorkerClaims(p, w) \/ JobEnds(p, w) \/ WorkerEnds(p, w)

Next ==
  \E p \in Process :
    \/ Launch(p) \/ StartupStep(p) \/ StartupFails(p)
    \/ Accept(p) \/ Handled(p)
    \/ \E w \in Worker : WorkerStep(p, w)
    \/ Signal(p) \/ ServeFails(p) \/ TeardownStep(p) \/ Kill(p)

Spec == Init /\ [][Next]_vars

(* run() goes on: every call it makes returns, Postgres is pinged a bounded *)
(* number of times, Shutdown has its deadline.  A claimed job ends within  *)
(* its timeout and a stopped loop notices.  Nothing is assumed of          *)
(* handlers, of the stores, or of the orchestrator.                        *)
Fairness ==
  \A p \in Process :
    /\ WF_vars(StartupStep(p) \/ StartupFails(p))
    /\ WF_vars(TeardownStep(p))
    /\ \A w \in Worker : WF_vars(JobEnds(p, w)) /\ WF_vars(WorkerEnds(p, w))

FairSpec == Spec /\ Fairness

-----------------------------------------------------------------------------
(* (main.go:190, "instead of letting it serve half-initialized") Whatever  *)
(* failed in this or an earlier start and whoever else is starting, a      *)
(* process that serves has its clients, its loops, its templates, its      *)
(* table and, once no other replica is at it, its search index.            *)
ServesOnlyComplete ==
  \A p \in Process : pc[p] = "serving" =>
    /\ {"otel", "redis", "postgres"} \subseteq Open(p)
    /\ \A w \in Worker : worker[p][w] # "off"
    /\ templates = Workflow /\ table
    /\ Settled => indexed = SchemaOf[p]

(* (main.go:361) A job or a request loses its store client only if the     *)
(* HTTP server failed or the request outlived Shutdown: on the way out the *)
(* clients are closed after everything that uses them has ended.           *)
WorkKeepsItsClients ==
  \A p \in Process : ~({"redis", "postgres"} \subseteq Open(p)) =>
    /\ (\E w \in Worker : worker[p][w] = "tick") => outcome[p] = "error"
    /\ handlers[p] > 0 => outcome[p] = "error" \/ overran[p]

(* A process that is told to stop stops, in whatever stage the signal      *)
(* finds it and whatever its handlers do.                                  *)
SignalEnds == \A p \in Process : signalled[p] /\ pc[p] # "down" ~> pc[p] = "down"

(* A start comes to an end: the process serves, or it has exited.          *)
StartSettles == \A p \in Process : pc[p] \in Startup ~> pc[p] \in {"serving", "down"}
=============================================================================
