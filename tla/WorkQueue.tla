----------------------------- MODULE WorkQueue ------------------------------
(***************************************************************************)
(* The durable work queue behind archiving and failure webhooks            *)
(* (queue.go): a sorted set of jobs scored with the time they are due, a   *)
(* hash counting failed attempts, and one worker per replica that claims   *)
(* due jobs under a lease, runs them, and acknowledges, reschedules or     *)
(* gives them up.  Every Redis command is a step of its own; between any   *)
(* two of them other workers act, the command fails, or the process dies.  *)
(*                                                                         *)
(* Times are relative: a score is the time left until the job is due (zero *)
(* once it is), so behaviours are unbounded in time and still finite in    *)
(* state.                                                                  *)
(***************************************************************************)
EXTENDS ZSet

CONSTANTS Job,
          Worker,        \* one per replica
          Batch,         \* jobs per claim
          Parallel,      \* concurrent jobs per worker
          Lease,         \* how long a claimed job is invisible to others
          Timeout,       \* context timeout of one job
          WorkLimit,     \* Work returns within this time
          MaxAttempts,   \* 0 = never give up
          Backoff,       \* attempts so far -> delay before the next one
          MaxResend,     \* re-sends of a command whose reply was lost
          AttemptCap,    \* bound: the counters stop here; Backoff is constant beyond
          MaxCrashes     \* bound: crashes, and claims whose reply is lost

ASSUME QueueAssumption ==
  /\ Batch \in Nat \ {0} /\ Parallel \in Nat \ {0}
  /\ Lease \in Nat \ {0} /\ Timeout \in Nat \ {0}
  /\ WorkLimit \in 0 .. Timeout
  /\ MaxAttempts \in Nat /\ MaxResend \in Nat /\ MaxCrashes \in Nat
  /\ AttemptCap \in Nat \ {0} /\ MaxAttempts <= AttemptCap
  /\ Backoff \in [1 .. AttemptCap -> Nat]

VARIABLES
  queue,     \* sorted set archive_pending / webhook_pending: job -> time left
  attempts,  \* hash archive_attempts / webhook_attempts
  lane,      \* where each worker's goroutine for a job stands
  crashes,   \* crashes so far
  seen,      \* history: the jobs that have ever been queued
  ended,     \* history: how each job has ended so far
  failures   \* history: how often each job's Work has failed

vars == <<queue, attempts, lane, crashes, seen, ended, failures>>

(* The steps of Worker.run, one for each command it has to make next.      *)
(* "waiting" is a claimed job whose goroutine has no semaphore slot yet.   *)
Running == {"working", "failed", "counted", "ack", "clear"}
Step    == {"out", "waiting"} \cup Running
Ending  == {"delivered", "dropped", "gaveUp"}

Out == [step |-> "out", left |-> 0, n |-> 0]

TypeOK ==
  /\ IsZSet(queue, Job, Nat)
  /\ IsZSet(attempts, Job, 1 .. AttemptCap)
  /\ lane \in [Worker -> [Job -> [step : Step, left : 0 .. Timeout, n : 0 .. AttemptCap]]]
  /\ crashes \in 0 .. MaxCrashes
  /\ seen \subseteq Job
  /\ ended \in [Job -> SUBSET Ending]
  /\ failures \in [Job -> 0 .. AttemptCap]

Init ==
  /\ queue = EmptyZSet
  /\ attempts = EmptyZSet
  /\ lane = [w \in Worker |-> [j \in Job |-> Out]]
  /\ crashes = 0
  /\ seen = {}
  /\ ended = [j \in Job |-> {}]
  /\ failures = [j \in Job |-> 0]

Capped(n) == IF n < AttemptCap THEN n ELSE AttemptCap

Is(w, j, s) == lane[w][j].step = s

InFlight(w) == {j \in Job : lane[w][j].step \in Running}

(* The context of a job has not expired: its Redis commands can succeed.   *)
Open(w, j) == lane[w][j].left > 0

Goto(w, j, s) == lane' = [lane EXCEPT ![w][j].step = s]
Leave(w, j)   == lane' = [lane EXCEPT ![w][j] = Out]

-----------------------------------------------------------------------------
(* External: the transition script queues a job, due at once.              *)
Enqueue(j) ==
  /\ j \notin seen
  /\ queue' = ZAdd(queue, [k \in {j} |-> 0])
  /\ seen' = seen \cup {j}
  /\ UNCHANGED <<attempts, lane, crashes, ended, failures>>

(* Mutants: the claim pops the due jobs, or leaves them due.               *)
ClaimPops(w) ==
  /\ \A j \in Job : Is(w, j, "out")
  /\ \E B \in DueBatches(queue, 0, Batch) :
       /\ B # {}
       /\ queue' = ZRem(queue, B)
       /\ lane' = [lane EXCEPT ![w] =
                     [j \in Job |-> IF j \in B THEN [Out EXCEPT !.step = "waiting"] ELSE @[j]]]
  /\ UNCHANGED <<attempts, crashes, seen, ended, failures>>
ClaimNoLease(w) ==
  /\ \A j \in Job : Is(w, j, "out")
  /\ \E B \in DueBatches(queue, 0, Batch) :
       /\ B # {}
       /\ lane' = [lane EXCEPT ![w] =
                     [j \in Job |-> IF j \in B THEN [Out EXCEPT !.step = "waiting"] ELSE @[j]]]
  /\ UNCHANGED <<queue, attempts, crashes, seen, ended, failures>>

(* tick: with no job of the previous tick left, lease the due jobs.  The   *)
(* claim is one script; every due job it takes moves to now + Lease.       *)
Claim(w) ==
  /\ \A j \in Job : Is(w, j, "out")
  /\ \E B \in DueBatches(queue, 0, Batch) :
       /\ B # {}
       /\ queue' = ZAdd(queue, [j \in B |-> Lease])
       /\ lane' = [lane EXCEPT ![w] =
                     [j \in Job |-> IF j \in B THEN [Out EXCEPT !.step = "waiting"] ELSE @[j]]]
  /\ UNCHANGED <<attempts, crashes, seen, ended, failures>>

(* The claim ran but the worker never learns of it.                        *)
ClaimLost(w) ==
  /\ \A j \in Job : Is(w, j, "out")
  /\ crashes < MaxCrashes
  /\ \E B \in DueBatches(queue, 0, Batch) :
       /\ B # {}
       /\ queue' = ZAdd(queue, [j \in B |-> Lease])
  /\ crashes' = crashes + 1
  /\ UNCHANGED <<attempts, lane, seen, ended, failures>>

(* A claimed job gets a semaphore slot and a context of its own.           *)
Start(w, j) ==
  /\ Is(w, j, "waiting")
  /\ Cardinality(InFlight(w)) < Parallel
  /\ lane' = [lane EXCEPT ![w][j] = [step |-> "working", left |-> Timeout, n |-> 0]]
  /\ UNCHANGED <<queue, attempts, crashes, seen, ended, failures>>

(* Work returns nil, or errDropJob: either way the job is to be removed.   *)
WorkEnds(w, j, how) ==
  /\ Is(w, j, "working")
  /\ how \in {"delivered", "dropped"}
  /\ ended' = [ended EXCEPT ![j] = @ \cup {how}]
  /\ Goto(w, j, "ack")
  /\ UNCHANGED <<queue, attempts, crashes, seen, failures>>

WorkFails(w, j) ==
  /\ Is(w, j, "working")
  /\ failures' = [failures EXCEPT ![j] = Capped(@ + 1)]
  /\ Goto(w, j, "failed")
  /\ UNCHANGED <<queue, attempts, crashes, seen, ended>>

(* Mutant: the count as it was before this failure.                        *)
CountBefore(j, times) == IF j \in DOMAIN attempts THEN attempts[j] ELSE 0

(* bump counts the failure; HINCRBY runs once more for every time the      *)
(* client re-sends it.  The count decides between giving up and a retry.   *)
CountAfter(j, times) ==
  Capped((IF j \in DOMAIN attempts THEN attempts[j] ELSE 0) + times)

(* Mutants: one attempt too few, and an equality that can be jumped over.  *)
GivesUpEarly(n)   == MaxAttempts > 0 /\ n + 1 >= MaxAttempts
GivesUpExactly(n) == MaxAttempts > 0 /\ n = MaxAttempts

GivesUp(n) == MaxAttempts > 0 /\ n >= MaxAttempts

Bump(w, j) ==
  /\ Is(w, j, "failed") /\ Open(w, j)
  /\ \E times \in 1 .. (1 + MaxResend) :
       LET n == CountAfter(j, times)
       IN /\ attempts' = ZAdd(attempts, [k \in {j} |-> n])
          /\ ended' = IF GivesUp(n) THEN [ended EXCEPT ![j] = @ \cup {"gaveUp"}] ELSE ended
          /\ lane' = [lane EXCEPT ![w][j].step = IF GivesUp(n) THEN "ack" ELSE "counted",
                                  ![w][j].n = n]
  /\ UNCHANGED <<queue, crashes, seen, failures>>

(* bump ran but returned an error: the count is there, the job is not      *)
(* rescheduled and waits for its lease to expire.                          *)
BumpLost(w, j) ==
  /\ Is(w, j, "failed") /\ Open(w, j)
  /\ attempts' = ZAdd(attempts, [k \in {j} |-> CountAfter(j, 1)])
  /\ Leave(w, j)
  /\ UNCHANGED <<queue, crashes, seen, ended, failures>>

Reschedule(w, j) ==
  /\ Is(w, j, "counted") /\ Open(w, j)
  /\ queue' = ZAdd(queue, [k \in {j} |-> Backoff[lane[w][j].n]])
  /\ Leave(w, j)
  /\ UNCHANGED <<attempts, crashes, seen, ended, failures>>

(* done is a pipeline of two commands, not a transaction: first the job    *)
(* leaves the queue ...                                                    *)
DoneRemove(w, j) ==
  /\ Is(w, j, "ack") /\ Open(w, j)
  /\ queue' = ZRem(queue, {j})
  /\ Goto(w, j, "clear")
  /\ UNCHANGED <<attempts, crashes, seen, ended, failures>>

(* Mutant: the job is rescheduled after it has been acknowledged.          *)
DoneReschedules(w, j) ==
  /\ Is(w, j, "clear")
  /\ queue' = ZAdd(queue, [k \in {j} |-> 0])
  /\ attempts' = ZRem(attempts, {j})
  /\ Leave(w, j)
  /\ UNCHANGED <<crashes, seen, ended, failures>>

(* ... then its counter goes.                                              *)
DoneClear(w, j) ==
  /\ Is(w, j, "clear")
  /\ attempts' = ZRem(attempts, {j})
  /\ Leave(w, j)
  /\ UNCHANGED <<queue, crashes, seen, ended, failures>>

(* The next command of the job fails, or its context has expired: run logs *)
(* the error and returns.                                                  *)
CommandFails(w, j) ==
  /\ lane[w][j].step \in {"failed", "counted", "ack", "clear"}
  /\ Leave(w, j)
  /\ UNCHANGED <<queue, attempts, crashes, seen, ended, failures>>

(* External: the process dies and a new one starts with an empty loop.     *)
Crash(w) ==
  /\ crashes < MaxCrashes
  /\ \E j \in Job : ~ Is(w, j, "out")
  /\ crashes' = crashes + 1
  /\ lane' = [lane EXCEPT ![w] = [j \in Job |-> Out]]
  /\ UNCHANGED <<queue, attempts, seen, ended, failures>>

(* One unit of time.  It does not pass a job that can start at once, nor a *)
(* Work that has used up its limit, nor a command whose context has        *)
(* expired: these return at once.                                          *)
Less(n) == IF n > 0 THEN n - 1 ELSE 0

Settling(w, j) ==
  \/ Is(w, j, "waiting") /\ Cardinality(InFlight(w)) < Parallel
  \/ Is(w, j, "working") /\ lane[w][j].left <= Timeout - WorkLimit
  \/ lane[w][j].step \in Running \ {"working"} /\ ~ Open(w, j)

Pass ==
  /\ \A w \in Worker, j \in Job : ~ Settling(w, j)
  /\ queue' = [j \in DOMAIN queue |-> Less(queue[j])]
  /\ lane' = [w \in Worker |-> [j \in Job |->
                [lane[w][j] EXCEPT !.left = Less(@)]]]
  /\ UNCHANGED <<attempts, crashes, seen, ended, failures>>

Next ==
  \/ \E j \in Job : Enqueue(j)
  \/ \E w \in Worker : Claim(w) \/ ClaimLost(w) \/ Crash(w)
  \/ \E w \in Worker, j \in Job :
       \/ Start(w, j)
       \/ \E how \in {"delivered", "dropped"} : WorkEnds(w, j, how)
       \/ WorkFails(w, j)
       \/ Bump(w, j) \/ BumpLost(w, j) \/ Reschedule(w, j)
       \/ DoneRemove(w, j) \/ DoneClear(w, j)
       \/ CommandFails(w, j)
  \/ Pass

Spec == Init /\ [][Next]_vars

WorkReturns(w, j) ==
  WorkFails(w, j) \/ \E how \in {"delivered", "dropped"} : WorkEnds(w, j, how)

(* Time passes, the loops tick, goroutines get to run and Work returns     *)
(* within its timeout, in whichever way; Redis does not fail the same      *)
(* command of a job for ever.  Nothing is assumed about Work succeeding.   *)
Fairness ==
  /\ WF_vars(Pass)
  /\ \A w \in Worker :
       /\ WF_vars(Claim(w))
       /\ \A j \in Job :
            /\ WF_vars(Start(w, j))
            /\ WF_vars(WorkReturns(w, j))
            /\ WF_vars(CommandFails(w, j))
            /\ SF_vars(Bump(w, j))
            /\ SF_vars(DoneRemove(w, j))

FairSpec == Spec /\ Fairness

-----------------------------------------------------------------------------
(* A2, D3 (at-least-once): a queued job stays in the queue until its Work  *)
(* has succeeded or has been given up or dropped, through every crash,     *)
(* lost claim, failed command and expired lease, on any number of workers. *)
NoJobLost == \A j \in seen : ended[j] = {} => j \in DOMAIN queue

(* queue.go:166: "the claim is atomic and every job is leased to one       *)
(* caller": no two workers have the same job in hand.  True as long as a   *)
(* worker is through with its batch before the lease of the batch expires. *)
LeasedToOneCaller ==
  \A w, v \in Worker, j \in Job :
    ~ Is(w, j, "out") /\ ~ Is(v, j, "out") => w = v

(* A job that has been removed stays removed: no worker that still holds   *)
(* it puts it back, and so nothing is archived or delivered again.         *)
RemovedStaysRemoved ==
  [][\A j \in seen \ DOMAIN queue : j \notin DOMAIN queue']_vars

(* queue.go:68, operations.md:124: a job is given up only after its Work   *)
(* has failed MaxAttempts times, however its failures are spread over      *)
(* workers and restarts.                                                   *)
GivesUpAfterMaxAttempts ==
  \A j \in Job : "gaveUp" \in ended[j] => failures[j] >= MaxAttempts

(* The queue keeps the promise of JobQueue: whatever claims, leases,       *)
(* re-sent counts and crashes do in between, every step puts a new job,    *)
(* ends one, removes one that has ended, puts one back, or shows nothing.  *)
Queue == INSTANCE JobQueue WITH pending <- DOMAIN queue

ImplementsJobQueue == Queue!Spec

(* W3, A2: every queued job is eventually removed from the queue.  A job   *)
(* that cannot succeed is given up, which takes MaxAttempts recorded       *)
(* failures; lost counts and failed removals only delay it.                *)
JobSettled == \A j \in Job : j \in DOMAIN queue ~> j \notin DOMAIN queue
=============================================================================
