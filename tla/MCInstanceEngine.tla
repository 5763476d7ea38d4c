-------------------------- MODULE MCInstanceEngine --------------------------
(***************************************************************************)
(* Small instances of InstanceEngine for TLC.  Workflows:     `Fan`, one   *)
(* topic consumed by two services (the shape of user_creation), and        *)
(* `Chain`, one topic after the other, both consumed by the same service;  *)
(* `One` has a single task.                                                *)
(***************************************************************************)
EXTENDS InstanceEngine, TLC

FanTopicOf     == [i \in 0 .. 1 |-> "t1"]
FanToOf        == [i \in 0 .. 1 |-> IF i = 0 THEN "s1" ELSE "s2"]

ChainTopicOf   == [i \in 0 .. 1 |-> IF i = 0 THEN "t1" ELSE "t2"]
ChainToOf      == [i \in 0 .. 1 |-> "s1"]

OneTopicOf     == [i \in {0} |-> "t1"]
OneToOf        == [i \in {0} |-> "s1"]
OneTimeoutOf   == [i \in {0} |-> 1]

\* Two tasks, the second with the longer timeout.
MCTimeoutOf == [i \in 0 .. 1 |-> i + 1]

\* Handler slots, instance ids and publish bodies are interchangeable.
Symmetric ==
  Permutations(Call) \cup Permutations(Instance) \cup Permutations(Body)
=============================================================================
