---------------------------- MODULE MCWorkQueue -----------------------------
(***************************************************************************)
(* Small instances of WorkQueue for TLC.                                   *)
(***************************************************************************)
EXTENDS WorkQueue, TLC

\* The shape of expBackoff: it grows, then stays at its cap.
MCBackoff == [n \in 1 .. AttemptCap |-> IF n = 1 THEN 1 ELSE 2]

Symmetric == Permutations(Job) \cup Permutations(Worker)
=============================================================================
