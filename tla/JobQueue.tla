------------------------------ MODULE JobQueue ------------------------------
(***************************************************************************)
(* What the durable work queue promises, without claims, leases, counters  *)
(* or workers: a job that has been put stays pending until it has ended    *)
(* (its Work succeeded, was dropped, or was given up), and only then may   *)
(* it be removed.  At least once: a job can end more than once, and one    *)
(* that has been removed can be put back by a worker that was still busy   *)
(* with it.                                                                *)
(*                                                                         *)
(* WorkQueue implements this specification.  SagaSystem is composed from   *)
(* two instances of it, the archive queue and the webhook queue.           *)
(***************************************************************************)
CONSTANT Job

VARIABLES pending,   \* jobs in the queue
          seen,      \* history: jobs that have ever been put
          ended      \* history: how each job has ended so far

HowEnded == {"delivered", "dropped", "gaveUp"}

Init ==
  /\ pending = {}
  /\ seen = {}
  /\ ended = [j \in Job |-> {}]

(* A script call queues the jobs that follow from its transition.          *)
Put(S) ==
  /\ S \cap seen = {}
  /\ pending' = pending \cup S
  /\ seen' = seen \cup S
  /\ UNCHANGED ended

(* A worker is through with j.  The removal is another command.            *)
End(j, how) ==
  /\ j \in seen
  /\ ended' = [ended EXCEPT ![j] = @ \cup {how}]
  /\ UNCHANGED <<pending, seen>>

Remove(j) ==
  /\ ended[j] # {}
  /\ pending' = pending \ {j}
  /\ UNCHANGED <<seen, ended>>

(* A worker whose lease has expired reschedules a job that another one     *)
(* has meanwhile ended and removed.                                        *)
PutBack(j) ==
  /\ j \in seen
  /\ pending' = pending \cup {j}
  /\ UNCHANGED <<seen, ended>>

Next ==
  \/ \E S \in SUBSET Job : Put(S)
  \/ \E j \in Job, how \in HowEnded : End(j, how)
  \/ \E j \in Job : Remove(j) \/ PutBack(j)

Spec == Init /\ [][Next]_<<pending, seen, ended>>
=============================================================================
