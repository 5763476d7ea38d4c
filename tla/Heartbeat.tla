------------------------------ MODULE Heartbeat ------------------------------
(***************************************************************************)
(* The background loops of one process in time, their heartbeats, and what *)
(* the probes make of them (health.go).  A loop beats when its goroutine   *)
(* starts, at the top of every tick and, in a worker, after every job.     *)
(* Between the beats it waits for its ticker, for one call to Redis (claim *)
(* or reap_batch, whether it succeeds or fails) and for its jobs, of which *)
(* Parallel run at a time.  Times are what is left until a loop has to     *)
(* move on; a loop that hangs does not.                                    *)
(***************************************************************************)
EXTENDS Integers

CONSTANTS
  Loop,           \* reaper, archive worker, webhook worker
  Parallel,       \* loop -> jobs at a time; 0 for the reaper, which has none
  Interval,       \* the tickers' period
  CallLimit,      \* external: what the Redis client allows a call to take
  JobTimeout,     \* the context timeout of a job
  StallTimeout,   \* LoopStallTimeout
  MaxBatch        \* bound: jobs of a claim

(* Every call comes back well within LoopStallTimeout; the code relies on  *)
(* the client's own timeouts for that, for its context has none.           *)
ASSUME TimingAssumption ==
  /\ Parallel \in [Loop -> Nat] /\ MaxBatch \in Nat
  /\ {Interval, CallLimit, JobTimeout, StallTimeout} \subseteq Nat
  /\ CallLimit + Interval <= StallTimeout
  /\ CallLimit + JobTimeout <= StallTimeout

VARIABLES
  at,        \* starting, select, call or jobs
  left,      \* time left in select or call
  waiting,   \* claimed jobs without a slot
  running,   \* time left of the job in each slot; -1: the slot is free
  age,       \* time since the last beat; -1: lastBeat is zero
  hung       \* the loop is stuck for good

vars == <<at, left, waiting, running, age, hung>>

Slot(l) == 1 .. Parallel[l]
Busy(l) == {s \in Slot(l) : running[l][s] # -1}

TypeOK ==
  /\ at \in [Loop -> {"starting", "select", "call", "jobs"}]
  /\ left \in [Loop -> Nat] /\ waiting \in [Loop -> Nat]
  /\ DOMAIN running = Loop
  /\ \A l \in Loop : running[l] \in [Slot(l) -> -1 .. JobTimeout]
  /\ age \in [Loop -> -1 .. StallTimeout + 1]
  /\ hung \in [Loop -> BOOLEAN]

Init ==
  /\ at = [l \in Loop |-> "starting"]
  /\ left = [l \in Loop |-> 0] /\ waiting = [l \in Loop |-> 0]
  /\ running = [l \in Loop |-> [s \in Slot(l) |-> -1]]
  /\ age = [l \in Loop |-> -1]
  /\ hung = [l \in Loop |-> FALSE]

-----------------------------------------------------------------------------
Beat(l) == age' = [age EXCEPT ![l] = 0]

(* The goroutine runs for the first time.                                  *)
LoopStarts(l) ==
  /\ at[l] = "starting"
  /\ at' = [at EXCEPT ![l] = "select"]
  /\ left' = [left EXCEPT ![l] = Interval]
  /\ Beat(l)
  /\ UNCHANGED <<waiting, running, hung>>

(* The ticker fires, or a nudge comes earlier.                             *)
TickBegins(l) ==
  /\ at[l] = "select" /\ ~hung[l]
  /\ at' = [at EXCEPT ![l] = "call"]
  /\ left' = [left EXCEPT ![l] = CallLimit]
  /\ Beat(l)
  /\ UNCHANGED <<waiting, running, hung>>

(* The call returns: an error, nothing to do, or (a worker's) n jobs.      *)
CallReturns(l, n) ==
  /\ at[l] = "call" /\ ~hung[l]
  /\ Parallel[l] = 0 => n = 0
  /\ at' = [at EXCEPT ![l] = IF n = 0 THEN "select" ELSE "jobs"]
  /\ left' = [left EXCEPT ![l] = IF n = 0 THEN Interval ELSE 0]
  /\ waiting' = [waiting EXCEPT ![l] = n]
  /\ UNCHANGED <<running, age, hung>>

JobStarts(l, s) ==
  /\ at[l] = "jobs" /\ ~hung[l]
  /\ waiting[l] > 0 /\ running[l][s] = -1
  /\ running' = [running EXCEPT ![l][s] = JobTimeout]
  /\ waiting' = [waiting EXCEPT ![l] = @ - 1]
  /\ UNCHANGED <<at, left, age, hung>>

(* Mutant: the worker beats once per tick, not after each job.             *)
JobEndsSilently(l, s) ==
  /\ at[l] = "jobs" /\ ~hung[l] /\ s \in Busy(l)
  /\ running' = [running EXCEPT ![l][s] = -1]
  /\ IF waiting[l] = 0 /\ Busy(l) = {s}
     THEN /\ at' = [at EXCEPT ![l] = "select"]
          /\ left' = [left EXCEPT ![l] = Interval]
     ELSE UNCHANGED <<at, left>>
  /\ UNCHANGED <<waiting, age, hung>>

JobEnds(l, s) ==
  /\ at[l] = "jobs" /\ ~hung[l] /\ s \in Busy(l)
  /\ running' = [running EXCEPT ![l][s] = -1]
  /\ IF waiting[l] = 0 /\ Busy(l) = {s}
     THEN /\ at' = [at EXCEPT ![l] = "select"]
          /\ left' = [left EXCEPT ![l] = Interval]
     ELSE UNCHANGED <<at, left>>
  /\ Beat(l)
  /\ UNCHANGED <<waiting, hung>>

(* A loop gets stuck: a call or a job that ignores its limit, a deadlock.  *)
Hang(l) ==
  /\ at[l] # "starting" /\ ~hung[l]
  /\ hung' = [hung EXCEPT ![l] = TRUE]
  /\ UNCHANGED <<at, left, waiting, running, age>>

(* A loop that is not stuck can let a unit of time pass where it is.       *)
MayWait(l) ==
  CASE at[l] = "starting"         -> TRUE
    [] at[l] \in {"select", "call"} -> left[l] > 0
    [] at[l] = "jobs"             -> /\ waiting[l] > 0 => Busy(l) = Slot(l)
                                     /\ \A s \in Busy(l) : running[l][s] > 0

Later(n) == IF n > 0 THEN n - 1 ELSE n

Pass ==
  /\ \A l \in Loop : hung[l] \/ MayWait(l)
  /\ left' = [l \in Loop |-> IF hung[l] THEN left[l] ELSE Later(left[l])]
  /\ running' = [l \in Loop |-> [s \in Slot(l) |->
                   IF hung[l] THEN running[l][s] ELSE Later(running[l][s])]]
  /\ age' = [l \in Loop |-> IF age[l] \in {-1, StallTimeout + 1} THEN age[l] ELSE age[l] + 1]
  /\ UNCHANGED <<at, waiting, hung>>

LoopStep(l) ==
  \/ LoopStarts(l) \/ TickBegins(l)
  \/ \E n \in 0 .. MaxBatch : CallReturns(l, n)
  \/ \E s \in Slot(l) : JobStarts(l, s) \/ JobEnds(l, s)

Next == Pass \/ \E l \in Loop : LoopStep(l) \/ Hang(l)

Spec == Init /\ [][Next]_vars

(* Time goes on, however busy the loops are, and a goroutine that can run  *)
(* does.                                                                   *)
Fairness == SF_vars(Pass) /\ \A l \in Loop : WF_vars(LoopStep(l))

-----------------------------------------------------------------------------
(* Mutant: a loop that has ever beaten is taken to be running.             *)
loopCheckEver(l) == IF age[l] = -1 THEN "not_running" ELSE "ok"

loopCheck(l) ==
  CASE age[l] = -1            -> "not_running"
    [] age[l] > StallTimeout  -> "stalled"
    [] OTHER                  -> "ok"

Liveness == IF \A l \in Loop : loopCheck(l) = "ok" THEN "ok" ELSE "unavailable"

(* Mutant: Postgres is treated like Redis.                                 *)
ReadinessNeedsBoth(redisUp, postgresUp) ==
  IF Liveness = "ok" /\ redisUp /\ postgresUp THEN "ok" ELSE "unavailable"

Readiness(redisUp, postgresUp) ==
  CASE Liveness = "unavailable" \/ ~redisUp -> "unavailable"
    [] Liveness = "ok" /\ redisUp           -> IF postgresUp THEN "ok" ELSE "degraded"

Healthy(status) == status # "unavailable"

(* (health.go:8, "a healthy loop never approaches this") Whatever the      *)
(* stores do, and however many jobs a batch has, a loop that runs is never *)
(* reported as stalled.                                                    *)
RunningNeverStalled == \A l \in Loop : ~hung[l] => loopCheck(l) # "stalled"

(* A loop that is stuck makes the liveness probe fail, for good.           *)
HungReported == \A l \in Loop : hung[l] ~> [](Liveness = "unavailable")
=============================================================================
