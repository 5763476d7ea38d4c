--------------------------- MODULE HeartbeatProofs ---------------------------
(***************************************************************************)
(* A loop that runs is never reported as stalled, for any number of loops, *)
(* slots and jobs, and any times that satisfy TimingAssumption.            *)
(***************************************************************************)
EXTENDS Heartbeat, TLAPS

(* How late a loop may be with its next beat, by where it is: the time it  *)
(* has left there and the age of its last beat share a budget.             *)
CallInTime(l) == at[l] = "call" => age[l] + left[l] <= CallLimit

SelectInTime(l) == at[l] = "select" => age[l] + left[l] <= CallLimit + Interval

(* With a free slot and a job waiting for it no time passes, so the age is *)
(* still what it was when the call returned or the last job ended.         *)
JobsInTime(l) ==
  at[l] = "jobs" =>
    /\ \A s \in Slot(l) : running[l][s] # -1 => age[l] + running[l][s] <= CallLimit + JobTimeout
    /\ waiting[l] > 0 /\ (\E s \in Slot(l) : running[l][s] = -1) => age[l] <= CallLimit
    /\ waiting[l] > 0 \/ \E s \in Slot(l) : running[l][s] # -1
    /\ 1 \in Slot(l)

(* Jobs run only in a tick.                                                *)
SlotsFree(l) == at[l] # "jobs" => \A s \in Slot(l) : running[l][s] = -1

InTime(l) ==
  /\ at[l] = "starting" => age[l] = -1
  /\ CallInTime(l) /\ SelectInTime(l) /\ JobsInTime(l) /\ SlotsFree(l)

HeartInv == TypeOK /\ \A l \in Loop : ~hung[l] => InTime(l)

(* At the start nothing has beaten and no job runs.                        *)
LEMMA HeartInitInv == ASSUME Init PROVE HeartInv
  <1> USE TimingAssumption
  <1>1. TypeOK  BY DEF Init, TypeOK, Slot
  <1>2. ASSUME NEW l \in Loop PROVE InTime(l)
    BY DEF Init, InTime, CallInTime, SelectInTime, JobsInTime, SlotsFree, Slot
  <1> QED  BY <1>1, <1>2 DEF HeartInv

(* A loop that a step does not concern keeps its budget.                   *)
LEMMA Untouched ==
  ASSUME NEW l \in Loop, InTime(l),
         at'[l] = at[l], left'[l] = left[l], waiting'[l] = waiting[l],
         running'[l] = running[l], age'[l] = age[l]
  PROVE  InTime(l)'
  BY DEF InTime, CallInTime, SelectInTime, JobsInTime, SlotsFree, Slot

(* The first beat finds the loop with nothing running.                     *)
LEMMA StartsInv == ASSUME HeartInv, NEW l \in Loop, LoopStarts(l) PROVE HeartInv'
  <1> USE TimingAssumption
  <1>1. TypeOK'  BY DEF HeartInv, TypeOK, LoopStarts, Beat, Slot
  <1>2. ASSUME NEW m \in Loop, ~hung'[m] PROVE InTime(m)'
    <2>1. InTime(m)  BY <1>2 DEF HeartInv, LoopStarts
    <2>2. CASE m # l  BY <2>1, <2>2, Untouched DEF LoopStarts, Beat, HeartInv, TypeOK
    <2>3. CASE m = l
      BY <2>1, <2>3
      DEF HeartInv, TypeOK, LoopStarts, Beat, InTime, CallInTime, SelectInTime, JobsInTime, SlotsFree, Slot
    <2> QED  BY <2>2, <2>3
  <1> QED  BY <1>1, <1>2 DEF HeartInv

(* A tick begins with a beat and with all of CallLimit left.               *)
LEMMA TickInv == ASSUME HeartInv, NEW l \in Loop, TickBegins(l) PROVE HeartInv'
  <1> USE TimingAssumption
  <1>1. TypeOK'  BY DEF HeartInv, TypeOK, TickBegins, Beat, Slot
  <1>2. ASSUME NEW m \in Loop, ~hung'[m] PROVE InTime(m)'
    <2>1. InTime(m)  BY <1>2 DEF HeartInv, TickBegins
    <2>2. CASE m # l  BY <2>1, <2>2, Untouched DEF TickBegins, Beat, HeartInv, TypeOK
    <2>3. CASE m = l
      BY <2>1, <2>3
      DEF HeartInv, TypeOK, TickBegins, Beat, InTime, CallInTime, SelectInTime, JobsInTime, SlotsFree, Slot
    <2> QED  BY <2>2, <2>3
  <1> QED  BY <1>1, <1>2 DEF HeartInv

(* The call returns within CallLimit of the beat that began the tick.      *)
LEMMA ReturnsInv ==
  ASSUME HeartInv, NEW l \in Loop, NEW n \in 0 .. MaxBatch, CallReturns(l, n) PROVE HeartInv'
  <1> USE TimingAssumption
  <1>1. TypeOK'  BY DEF HeartInv, TypeOK, CallReturns, Slot
  <1>2. ASSUME NEW m \in Loop, ~hung'[m] PROVE InTime(m)'
    <2>1. InTime(m)  BY <1>2 DEF HeartInv, CallReturns
    <2>2. CASE m # l  BY <2>1, <2>2, Untouched DEF CallReturns, HeartInv, TypeOK
    <2>3. CASE m = l
      <3>1. age[l] + left[l] <= CallLimit /\ left[l] \in Nat /\ age[l] \in Int
        BY <2>1, <2>3 DEF InTime, CallInTime, CallReturns, HeartInv, TypeOK
      <3>2. age[l] <= CallLimit  BY <3>1
      <3>3. /\ \A s \in Slot(l) : running[l][s] = -1
            /\ running' = running /\ age' = age
            /\ waiting'[l] = n
            /\ at'[l] = IF n = 0 THEN "select" ELSE "jobs"
            /\ left'[l] = IF n = 0 THEN Interval ELSE 0
        BY <2>1, <2>3 DEF InTime, SlotsFree, CallReturns, HeartInv, TypeOK
      <3>4. n # 0 => 1 \in Slot(l)
        BY DEF CallReturns, Slot
      <3> QED
        BY <2>3, <3>2, <3>3, <3>4
        DEF HeartInv, TypeOK, InTime, CallInTime, SelectInTime, JobsInTime, SlotsFree, Slot
    <2> QED  BY <2>2, <2>3
  <1> QED  BY <1>1, <1>2 DEF HeartInv

(* A job starts as soon as it can, so it has its whole timeout left.       *)
LEMMA JobStartsInv ==
  ASSUME HeartInv, NEW l \in Loop, NEW s \in Slot(l), JobStarts(l, s) PROVE HeartInv'
  <1> USE TimingAssumption
  <1>0. /\ running' = [running EXCEPT ![l][s] = JobTimeout]
        /\ DOMAIN running = Loop /\ running[l] \in [Slot(l) -> -1 .. JobTimeout]
    BY DEF HeartInv, TypeOK, JobStarts
  <1>00. /\ running'[l] = [running[l] EXCEPT ![s] = JobTimeout]
         /\ \A m \in Loop : m # l => running'[m] = running[m]
         /\ DOMAIN running' = Loop
    BY <1>0
  <1>1. TypeOK'
    <2>1. running'[l] \in [Slot(l) -> -1 .. JobTimeout]  BY <1>0, <1>00
    <2>2. \A m \in Loop : running'[m] \in [Slot(m) -> -1 .. JobTimeout]
      BY <1>00, <2>1 DEF HeartInv, TypeOK
    <2>3. waiting' \in [Loop -> Nat]  BY DEF HeartInv, TypeOK, JobStarts
    <2> QED  BY <1>00, <2>2, <2>3 DEF HeartInv, TypeOK, JobStarts, Slot
  <1>2. ASSUME NEW m \in Loop, ~hung'[m] PROVE InTime(m)'
    <2>1. InTime(m)  BY <1>2 DEF HeartInv, JobStarts
    <2>2. CASE m # l  BY <2>1, <2>2, <1>00, Untouched DEF JobStarts, HeartInv, TypeOK
    <2>3. CASE m = l
      <3>1. age[l] <= CallLimit /\ age[l] \in Int
        BY <2>1, <2>3 DEF InTime, JobsInTime, JobStarts, HeartInv, TypeOK
      <3>2. \A t \in Slot(l) : running'[l][t] = IF t = s THEN JobTimeout ELSE running[l][t]
        BY <1>0, <1>00
      <3>3. at' = at /\ left' = left /\ age' = age /\ at[l] = "jobs"
        BY DEF JobStarts
      <3>4. JobsInTime(l)'
        BY <2>1, <2>3, <3>1, <3>2, <3>3 DEF InTime, JobsInTime, Slot
      <3> QED  BY <2>3, <3>3, <3>4 DEF InTime, CallInTime, SelectInTime, SlotsFree
    <2> QED  BY <2>2, <2>3
  <1> QED  BY <1>1, <1>2 DEF HeartInv

(* Every end of a job is a beat.                                           *)
LEMMA JobEndsInv ==
  ASSUME HeartInv, NEW l \in Loop, NEW s \in Slot(l), JobEnds(l, s) PROVE HeartInv'
  <1> USE TimingAssumption
  <1>0. /\ running' = [running EXCEPT ![l][s] = -1]
        /\ DOMAIN running = Loop /\ running[l] \in [Slot(l) -> -1 .. JobTimeout]
    BY DEF HeartInv, TypeOK, JobEnds
  <1>00. /\ running'[l] = [running[l] EXCEPT ![s] = -1]
         /\ \A m \in Loop : m # l => running'[m] = running[m]
         /\ DOMAIN running' = Loop
    BY <1>0
  <1>1. TypeOK'
    <2>1. running'[l] \in [Slot(l) -> -1 .. JobTimeout]  BY <1>0, <1>00
    <2>2. \A m \in Loop : running'[m] \in [Slot(m) -> -1 .. JobTimeout]
      BY <1>00, <2>1 DEF HeartInv, TypeOK
    <2>3. at' \in [Loop -> {"starting", "select", "call", "jobs"}] /\ left' \in [Loop -> Nat]
      BY DEF HeartInv, TypeOK, JobEnds
    <2>4. age' \in [Loop -> -1 .. StallTimeout + 1]
      BY DEF HeartInv, TypeOK, JobEnds, Beat
    <2> QED  BY <1>00, <2>2, <2>3, <2>4 DEF HeartInv, TypeOK, JobEnds, Slot
  <1>2. ASSUME NEW m \in Loop, ~hung'[m] PROVE InTime(m)'
    <2>1. InTime(m)  BY <1>2 DEF HeartInv, JobEnds
    <2>2. CASE m # l
      <3>1. at'[m] = at[m] /\ left'[m] = left[m] /\ age'[m] = age[m]
        BY <2>2 DEF JobEnds, Beat, HeartInv, TypeOK
      <3> QED  BY <2>1, <2>2, <3>1, <1>00, Untouched DEF JobEnds
    <2>3. CASE m = l
      <3>1. age'[l] = 0  BY DEF JobEnds, Beat, HeartInv, TypeOK
      <3>2. \A t \in Slot(l) : running'[l][t] = IF t = s THEN -1 ELSE running[l][t]
        BY <1>0, <1>00
      <3>3. \A t \in Slot(l) : running[l][t] \in -1 .. JobTimeout  BY <1>0
      <3>4. waiting' = waiting /\ at[l] = "jobs"  BY DEF JobEnds
      <3>5. CASE waiting[l] = 0 /\ Busy(l) = {s}
        <4>1. at'[l] = "select" /\ left'[l] = Interval
          BY <3>5 DEF JobEnds, HeartInv, TypeOK
        <4>2. \A t \in Slot(l) : running'[l][t] = -1  BY <3>2, <3>5 DEF Busy
        <4> QED
          BY <2>3, <3>1, <4>1, <4>2 DEF InTime, CallInTime, SelectInTime, JobsInTime, SlotsFree, Slot
      <3>6. CASE ~(waiting[l] = 0 /\ Busy(l) = {s})
        <4>1. at'[l] = "jobs"  BY <3>4, <3>6 DEF JobEnds
        <4>2. waiting[l] > 0 \/ \E t \in Slot(l) : t # s /\ running[l][t] # -1
          BY <3>6 DEF Busy, JobEnds, HeartInv, TypeOK
        <4>3. waiting'[l] > 0 \/ \E t \in Slot(l) : running'[l][t] # -1
          BY <4>2, <3>2, <3>4
        <4>4. \A t \in Slot(l) : running'[l][t] # -1 => age'[l] + running'[l][t] <= CallLimit + JobTimeout
          BY <3>1, <3>2, <3>3
        <4>5. age'[l] <= CallLimit  BY <3>1
        <4>6. 1 \in Slot(l)  BY <2>1, <2>3, <3>4 DEF InTime, JobsInTime
        <4>7. JobsInTime(l)'  BY <4>3, <4>4, <4>5, <4>6 DEF JobsInTime, Slot
        <4> QED  BY <2>3, <4>1, <4>7 DEF InTime, CallInTime, SelectInTime, SlotsFree
      <3> QED  BY <3>5, <3>6
    <2> QED  BY <2>2, <2>3
  <1> QED  BY <1>1, <1>2 DEF HeartInv

(* A unit of time adds to the age what it takes from the time left.        *)
LEMMA PassInv == ASSUME HeartInv, Pass PROVE HeartInv'
  <1> USE TimingAssumption
  <1>a. \A l \in Loop : left'[l] = IF hung[l] THEN left[l] ELSE Later(left[l])
    BY DEF Pass
  <1>b. \A l \in Loop :
          age'[l] = IF age[l] \in {-1, StallTimeout + 1} THEN age[l] ELSE age[l] + 1
    BY DEF Pass
  <1>c. \A l \in Loop :
          running'[l] = [s \in Slot(l) |-> IF hung[l] THEN running[l][s] ELSE Later(running[l][s])]
    BY DEF Pass
  <1>d. at' = at /\ waiting' = waiting /\ hung' = hung  BY DEF Pass
  <1>1. TypeOK'
    <2>1. \A l \in Loop : left'[l] \in Nat
      BY <1>a DEF HeartInv, TypeOK, Later
    <2>2. \A l \in Loop : age'[l] \in -1 .. StallTimeout + 1
      <3> TAKE l \in Loop
      <3>1. age[l] \in -1 .. StallTimeout + 1  BY DEF HeartInv, TypeOK
      <3> QED  BY <1>b, <3>1
    <2>3. \A l \in Loop : running'[l] \in [Slot(l) -> -1 .. JobTimeout]
      <3> SUFFICES ASSUME NEW l \in Loop, NEW s \in Slot(l)
                   PROVE  (IF hung[l] THEN running[l][s] ELSE Later(running[l][s])) \in -1 .. JobTimeout
        BY <1>c
      <3> QED  BY DEF HeartInv, TypeOK, Later
    <2>4. /\ left' \in [Loop -> Nat] /\ age' \in [Loop -> -1 .. StallTimeout + 1]
          /\ DOMAIN running' = Loop
      BY <2>1, <2>2 DEF Pass
    <2> QED  BY <2>3, <2>4 DEF Pass, HeartInv, TypeOK, Slot
  <1>2. ASSUME NEW l \in Loop, ~hung'[l] PROVE InTime(l)'
    <2>1. ~hung[l] /\ InTime(l) /\ MayWait(l)  BY <1>d, <1>2 DEF HeartInv, Pass
    <2>2. /\ age[l] \in -1 .. StallTimeout + 1 /\ left[l] \in Nat /\ waiting[l] \in Nat
          /\ \A s \in Slot(l) : running[l][s] \in -1 .. JobTimeout
          /\ at[l] \in {"starting", "select", "call", "jobs"}
      BY DEF HeartInv, TypeOK
    <2>3. \A s \in Slot(l) : running'[l][s] = Later(running[l][s])  BY <1>c, <2>1
    <2>4. left'[l] = Later(left[l])  BY <1>a, <2>1
    <2>5. age'[l] <= age[l] + 1 /\ age'[l] \in Int /\ (age[l] = -1 => age'[l] = -1)
      BY <1>b, <2>2
    <2>6. CASE at[l] = "starting"
      <3>1. age'[l] = -1  BY <2>1, <2>5, <2>6 DEF InTime
      <3>2. \A s \in Slot(l) : running'[l][s] = -1
        BY <2>1, <2>3, <2>6 DEF InTime, SlotsFree, Later
      <3> QED
        BY <1>d, <2>6, <3>1, <3>2
        DEF InTime, CallInTime, SelectInTime, JobsInTime, SlotsFree, Slot
    <2>7. CASE at[l] \in {"select", "call"}
      <3>1. left[l] > 0  BY <2>1, <2>7 DEF MayWait
      <3>2. age'[l] + left'[l] <= age[l] + left[l]  BY <2>2, <2>4, <2>5, <3>1 DEF Later
      <3>3. \A s \in Slot(l) : running'[l][s] = -1
        BY <2>1, <2>3, <2>7 DEF InTime, SlotsFree, Later
      <3>4. age'[l] + left'[l] \in Int /\ age[l] + left[l] \in Int
        BY <2>2, <2>4, <2>5 DEF Later
      <3> QED
        BY <1>d, <2>1, <2>7, <3>2, <3>3, <3>4
        DEF InTime, CallInTime, SelectInTime, JobsInTime, SlotsFree, Slot
    <2>8. CASE at[l] = "jobs"
      <3>1. /\ waiting[l] > 0 => \A s \in Slot(l) : running[l][s] # -1
            /\ \A s \in Slot(l) : running[l][s] # -1 => running[l][s] > 0
        BY <2>1, <2>8 DEF MayWait, Busy
      <3>2. \A s \in Slot(l) :
              /\ running'[l][s] = -1 <=> running[l][s] = -1
              /\ running[l][s] # -1 => age'[l] + running'[l][s] <= age[l] + running[l][s]
        BY <2>2, <2>3, <2>5, <3>1 DEF Later
      <3>3. \A s \in Slot(l) : running'[l][s] \in Int  BY <2>2, <2>3 DEF Later
      <3>4. \A s \in Slot(l) : running'[l][s] # -1 => age'[l] + running'[l][s] <= CallLimit + JobTimeout
        BY <2>1, <2>2, <2>5, <2>8, <3>2, <3>3 DEF InTime, JobsInTime
      <3>5. waiting'[l] = waiting[l] /\ at'[l] = at[l]  BY <1>d
      <3>6. JobsInTime(l)'
        BY <2>1, <2>8, <3>1, <3>2, <3>4, <3>5 DEF InTime, JobsInTime, Slot
      <3> QED  BY <2>8, <3>5, <3>6 DEF InTime, CallInTime, SelectInTime, SlotsFree
    <2> QED  BY <2>2, <2>6, <2>7, <2>8
  <1> QED  BY <1>1, <1>2 DEF HeartInv

(* A loop that hangs is no longer spoken of.                               *)
LEMMA HangInv == ASSUME HeartInv, NEW l \in Loop, Hang(l) PROVE HeartInv'
  <1>1. TypeOK'  BY DEF HeartInv, TypeOK, Hang, Slot
  <1>2. ASSUME NEW m \in Loop, ~hung'[m] PROVE InTime(m)'
    <2>1. ~hung[m]  BY <1>2 DEF Hang, HeartInv, TypeOK
    <2> QED  BY <2>1, Untouched DEF Hang, HeartInv
  <1> QED  BY <1>1, <1>2 DEF HeartInv

(* Every step keeps the budgets.                                           *)
LEMMA HeartNextInv == ASSUME HeartInv, [Next]_vars PROVE HeartInv'
  <1>1. CASE UNCHANGED vars
    <2>1. TypeOK'  BY <1>1 DEF HeartInv, TypeOK, vars, Slot
    <2>2. ASSUME NEW l \in Loop, ~hung'[l] PROVE InTime(l)'
      BY <1>1, <2>2, Untouched DEF HeartInv, vars
    <2> QED  BY <2>1, <2>2 DEF HeartInv
  <1>2. CASE Pass  BY <1>2, PassInv
  <1>3. ASSUME NEW l \in Loop, LoopStep(l) PROVE HeartInv'
    BY <1>3, StartsInv, TickInv, ReturnsInv, JobStartsInv, JobEndsInv DEF LoopStep
  <1>4. ASSUME NEW l \in Loop, Hang(l) PROVE HeartInv'  BY <1>4, HangInv
  <1> QED  BY <1>1, <1>2, <1>3, <1>4 DEF Next

(* Every budget ends within StallTimeout.                                  *)
LEMMA InTimeOK == ASSUME HeartInv PROVE RunningNeverStalled
  <1> USE TimingAssumption
  <1> SUFFICES ASSUME NEW l \in Loop, ~hung[l] PROVE age[l] <= StallTimeout
    BY DEF RunningNeverStalled, loopCheck, HeartInv, TypeOK
  <1>0. /\ InTime(l) /\ age[l] \in -1 .. StallTimeout + 1 /\ left[l] \in Nat
        /\ waiting[l] \in Nat /\ at[l] \in {"starting", "select", "call", "jobs"}
        /\ \A s \in Slot(l) : running[l][s] \in -1 .. JobTimeout
    BY DEF HeartInv, TypeOK
  <1>1. CASE at[l] # "jobs"
    BY <1>0, <1>1 DEF InTime, CallInTime, SelectInTime
  <1>2. CASE at[l] = "jobs"
    <2>1. CASE \E s \in Slot(l) : running[l][s] # -1
      <3>1. PICK s \in Slot(l) : running[l][s] # -1  BY <2>1
      <3>2. running[l][s] \in Nat  BY <1>0, <3>1
      <3>3. age[l] + running[l][s] <= CallLimit + JobTimeout
        BY <1>0, <1>2, <3>1 DEF InTime, JobsInTime
      <3> QED  BY <1>0, <3>2, <3>3
    <2>2. CASE \A s \in Slot(l) : running[l][s] = -1
      <3>1. age[l] <= CallLimit  BY <1>0, <1>2, <2>2 DEF InTime, JobsInTime
      <3> QED  BY <1>0, <3>1
    <2> QED  BY <2>1, <2>2
  <1> QED  BY <1>1, <1>2

(* (health.go:8, "a healthy loop never approaches this") Whatever the      *)
(* stores do, however many jobs a batch has and in whatever order its      *)
(* slots finish, a loop that runs is never reported as stalled.            *)
THEOREM RunningNotStalled == Spec => []RunningNeverStalled
  <1>1. Init => HeartInv  BY HeartInitInv
  <1>2. HeartInv /\ [Next]_vars => HeartInv'  BY HeartNextInv
  <1>3. HeartInv => RunningNeverStalled  BY InTimeOK
  <1> QED  BY <1>1, <1>2, <1>3, PTL DEF Spec
=============================================================================
