---------------------------- MODULE ReapSequence ----------------------------
(***************************************************************************)
(* InstanceEngine states the effect of one reap_batch call at once.  The   *)
(* script computes it member by member: it fixes the list of due members   *)
(* first, then calls `run` on each against the data as the previous ones   *)
(* left it.  This module follows the script's loop and checks that both    *)
(* describe the same step, whatever the order of equal deadlines.          *)
(***************************************************************************)
EXTENDS MCInstanceEngine, SequencesExt

(* The data a reap reads and writes.                                       *)
Data == [inst |-> inst, states |-> states, deadlines |-> deadlines,
         archive |-> archive, webhooks |-> webhooks]

(* `run` on one task with the action reap_batch, then the loop's own drop  *)
(* of a member whose document is gone.                                     *)
ReapOne(d, k, at) ==
  LET id == k[1]
      i  == k[2]
  IN IF d.inst[id] \notin InstanceState
     THEN [d EXCEPT !.deadlines = ZRem(@, {k})]
     ELSE IF Decide("reap_batch", FALSE, d.states[id][i]) # "OK"
             \/ d.inst[id] \in Terminal
     THEN d
     ELSE [inst      |-> [d.inst EXCEPT ![id] = "FAILED"],
           states    |-> [d.states EXCEPT ![id][i] = "FAILED"],
           deadlines |-> ZRem(d.deadlines, {id} \X Task),
           archive   |-> ZAdd(d.archive, [x \in {id} |-> at]),
           webhooks  |-> ZAdd(d.webhooks, [x \in {k} |-> at])]

(* The orders in which ZRANGEBYSCORE may return batch B.                   *)
Orders(B) ==
  {s \in SetToSeqs(B) :
     \A a, b \in DOMAIN s : a < b => deadlines[s[a]] <= deadlines[s[b]]}

SequentialResults(at) ==
  {FoldLeft(LAMBDA d, k : ReapOne(d, k, at), Data, s) :
     s \in UNION {Orders(B) : B \in DueBatches(deadlines, at, BatchLimit)}}

(* One atomic reap_batch step is a run of the script's loop over the due   *)
(* members: several due tasks of one instance fail it once, in the order   *)
(* of their deadlines, and one instance's failure leaves the others alone. *)
BatchIsSequential ==
  [][\A p \in Reaper :
        reaper'[p] # reaper[p] /\ ReapTick(p)
          => Data' \in SequentialResults(reaper[p])]_vars
=============================================================================
