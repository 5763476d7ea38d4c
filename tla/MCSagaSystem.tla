---------------------------- MODULE MCSagaSystem -----------------------------
(***************************************************************************)
(* A small instance of SagaSystem for TLC: two tasks, published by         *)
(* different services and both consumed by a third, and three files: the   *)
(* one the program started with, one with a new URL for a publisher, one   *)
(* that no longer names it.                                                *)
(***************************************************************************)
EXTENDS SagaSystem, TLC

MCTopicOf   == [i \in 0 .. 1 |-> IF i = 0 THEN "t1" ELSE "t2"]
MCToOf      == [i \in 0 .. 1 |-> "s3"]
MCFromOf    == [i \in 0 .. 1 |-> IF i = 0 THEN "s1" ELSE "s2"]
MCTimeoutOf == [i \in 0 .. 1 |-> 1]

File(a, b) == [s \in {"s1", "s2", "s3"} |->
                 IF s = "s1" THEN a ELSE IF s = "s2" THEN b ELSE "u3"]

MCStartupFile  == File("u1", "u2")
MCRegistryFile == {MCStartupFile, File("u1", "none")}
=============================================================================
