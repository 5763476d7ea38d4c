-------------------------------- MODULE MCApi --------------------------------
(***************************************************************************)
(* A reaper and a worker with two slots; limits scaled down so that the    *)
(* slowest healthy tick just fits into StallTimeout.                       *)
(***************************************************************************)
EXTENDS Api

MCParallel == [l \in Loop |-> IF l = "reaper" THEN 0 ELSE 2]
MCNumber   == {-1, 0, 1, 2, 5, 6}

(* Apart from the invariant on the probes nothing relates a request to the *)
(* loops, so the requests are made at one moment of theirs: the start.     *)
MCNext ==
  \/ exchange = None /\ LoopsGoOn
  \/ Served
  \/ exchange = None /\ Init /\ \E h \in Header, a \in Ask : Serve(h, a)

MCSpec ==
  /\ ApiInit /\ [][MCNext]_<<vars, authOff, exchange>>
  /\ Fairness
=============================================================================
