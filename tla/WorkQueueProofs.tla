-------------------------- MODULE WorkQueueProofs ---------------------------
(***************************************************************************)
(* Proofs about WorkQueue, for any jobs, workers, lease, batch, timeouts   *)
(* and attempt limit.                                                      *)
(***************************************************************************)
EXTENDS WorkQueue, FiniteSetTheorems, TLAPS

USE DEF Running, Step, Ending

Slot == [step : Step, left : 0 .. Timeout, n : 0 .. AttemptCap]

(* A worker that is acknowledging a job has seen it end, and one that is   *)
(* about to reschedule it has counted a failure of it.                     *)
SlotsTrue ==
  \A w \in Worker, j \in Job :
    /\ lane[w][j].step \in {"ack", "clear"} => ended[j] # {}
    /\ lane[w][j].step = "counted" => lane[w][j].n \in 1 .. AttemptCap

Inv == TypeOK /\ SlotsTrue /\ NoJobLost

(* Moving a goroutine to another step.                                     *)
LEMMA SlotGoto ==
  ASSUME NEW c \in Slot, NEW s \in Step
  PROVE  /\ [c EXCEPT !.step = s] \in Slot
         /\ [c EXCEPT !.step = s].step = s
BY DEF Slot

(* What bump returns.                                                      *)
LEMMA CountType ==
  ASSUME TypeOK, NEW j \in Job, NEW times \in Nat \ {0}
  PROVE  CountAfter(j, times) \in 1 .. AttemptCap
<1> DEFINE old == IF j \in DOMAIN attempts THEN attempts[j] ELSE 0
<1>1. old \in 0 .. AttemptCap /\ AttemptCap \in Nat \ {0}
  BY QueueAssumption DEF TypeOK, IsZSet
<1> HIDE DEF old
<1>2. Capped(old + times) \in 1 .. AttemptCap
  BY <1>1 DEF Capped
<1> QED BY <1>2 DEF CountAfter, old

(* The initial state.                                                      *)
LEMMA InitQueue == Init => Inv
<1> SUFFICES ASSUME Init PROVE Inv
  OBVIOUS
<1>1. Out \in Slot /\ Out.step = "out"
  BY QueueAssumption DEF Out, Slot
<1>2. lane \in [Worker -> [Job -> Slot]] /\ \A w \in Worker, j \in Job : lane[w][j] = Out
  BY <1>1 DEF Init
<1>3. TypeOK
  BY <1>2, QueueAssumption DEF Init, TypeOK, Slot, EmptyZSet, IsZSet
<1>4. SlotsTrue
  BY <1>1, <1>2 DEF SlotsTrue
<1> QED BY <1>3, <1>4 DEF Inv, Init, NoJobLost

(* A step of worker w's goroutine for job j that leaves its slot at c, an  *)
(* acknowledging slot only if the job has ended, and removes no job that   *)
(* has not.                                                                *)
SlotStep(w, j, c) ==
  /\ lane' = [lane EXCEPT ![w][j] = c]
  /\ c.step \in {"ack", "clear"} => ended'[j] # {}
  /\ c.step = "counted" => c.n \in 1 .. AttemptCap
  /\ ended' \in [Job -> SUBSET Ending]
  /\ \A k \in Job : ended[k] \subseteq ended'[k]
  /\ IsZSet(queue', Job, Nat) /\ IsZSet(attempts', Job, 1 .. AttemptCap)
  /\ \A k \in DOMAIN queue : k \in DOMAIN queue' \/ ended[k] # {}
  /\ crashes' = crashes /\ seen' = seen /\ failures' \in [Job -> 0 .. AttemptCap]

(* Such a step preserves the invariant.                                    *)
LEMMA OneSlot ==
  ASSUME Inv, NEW w \in Worker, NEW j \in Job, NEW c \in Slot, SlotStep(w, j, c)
  PROVE  Inv'
<1> USE DEF SlotStep
<1>1. TypeOK /\ SlotsTrue /\ NoJobLost
  BY DEF Inv
<1>2. /\ lane' \in [Worker -> [Job -> Slot]]
      /\ lane'[w][j] = c
      /\ \A v \in Worker, k \in Job : v # w \/ k # j => lane'[v][k] = lane[v][k]
  BY <1>1 DEF TypeOK, Slot
<1>3. TypeOK'
  BY <1>1, <1>2 DEF TypeOK, Slot
<1>4. ASSUME NEW v \in Worker, NEW k \in Job
      PROVE  /\ lane'[v][k].step \in {"ack", "clear"} => ended'[k] # {}
             /\ lane'[v][k].step = "counted" => lane'[v][k].n \in 1 .. AttemptCap
  <2>1. CASE v = w /\ k = j
    BY <1>2, <2>1
  <2>2. CASE v # w \/ k # j
    <3>1. lane'[v][k] = lane[v][k] /\ ended[k] \subseteq ended'[k]
      BY <1>2, <2>2
    <3> QED BY <1>1, <3>1 DEF SlotsTrue
  <2> QED BY <2>1, <2>2
<1>5. SlotsTrue'
  BY <1>4 DEF SlotsTrue
<1>6. NoJobLost'
  BY <1>1 DEF NoJobLost, TypeOK
<1> QED BY <1>3, <1>5, <1>6 DEF Inv

(* Every step preserves the invariant.                                     *)
LEMMA NextQueue == Inv /\ [Next]_vars => Inv'
<1> SUFFICES ASSUME Inv, [Next]_vars PROVE Inv'
  OBVIOUS
<1>1. TypeOK /\ SlotsTrue /\ NoJobLost
  BY DEF Inv
<1>2. /\ lane \in [Worker -> [Job -> Slot]] /\ IsZSet(queue, Job, Nat)
      /\ IsZSet(attempts, Job, 1 .. AttemptCap) /\ ended \in [Job -> SUBSET Ending]
      /\ failures \in [Job -> 0 .. AttemptCap] /\ crashes \in 0 .. MaxCrashes
      /\ Timeout \in Nat \ {0} /\ AttemptCap \in Nat \ {0} /\ MaxCrashes \in Nat /\ Lease \in Nat
  BY <1>1, QueueAssumption DEF TypeOK, Slot
<1>3. CASE UNCHANGED vars
  BY <1>1, <1>3 DEF vars, Inv, TypeOK, SlotsTrue, NoJobLost
<1>4. ASSUME NEW j \in Job, Enqueue(j) PROVE Inv'
  <2>1. queue' = ZAdd(queue, [k \in {j} |-> 0]) /\ seen' = seen \cup {j}
        /\ UNCHANGED <<attempts, lane, crashes, ended, failures>>
    BY <1>4 DEF Enqueue
  <2>2. IsZSet(queue', Job, Nat) /\ DOMAIN queue' = DOMAIN queue \cup {j}
    BY ONLY <1>2, <2>1, j \in Job DEF ZAdd, IsZSet
  <2>3. TypeOK'
    BY <1>1, <2>1, <2>2 DEF TypeOK
  <2>4. SlotsTrue' /\ NoJobLost'
    BY <1>1, <2>1, <2>2 DEF SlotsTrue, NoJobLost
  <2> QED BY <2>3, <2>4 DEF Inv
<1>5. ASSUME NEW w \in Worker, NEW B, B \subseteq DOMAIN queue,
             queue' = ZAdd(queue, [j \in B |-> Lease]),
             \/ lane' = lane
             \/ lane' = [lane EXCEPT ![w] =
                     [j \in Job |-> IF j \in B THEN [Out EXCEPT !.step = "waiting"] ELSE @[j]]],
             crashes' \in 0 .. MaxCrashes, UNCHANGED <<attempts, seen, ended, failures>>
      PROVE  Inv'
  <2>1. IsZSet(queue', Job, Nat) /\ DOMAIN queue' = DOMAIN queue
    BY ONLY <1>2, <1>5 DEF ZAdd, IsZSet
  <2>2. /\ Out \in Slot
        /\ [Out EXCEPT !.step = "waiting"] \in Slot
        /\ [Out EXCEPT !.step = "waiting"].step = "waiting"
    BY <1>2 DEF Out, Slot
  <2>3. /\ lane' \in [Worker -> [Job -> Slot]]
        /\ \A v \in Worker, k \in Job :
             lane'[v][k] = lane[v][k] \/ lane'[v][k].step = "waiting"
    <3> DEFINE c == [Out EXCEPT !.step = "waiting"]
               g == [j \in Job |-> IF j \in B THEN c ELSE lane[w][j]]
    <3>1. CASE lane' = lane
      BY <1>2, <3>1
    <3>2. CASE lane' = [lane EXCEPT ![w] = g]
      <4>1. c \in Slot /\ c.step = "waiting"
        BY <2>2
      <4> HIDE DEF c
      <4>2. g \in [Job -> Slot] /\ \A k \in Job : g[k] = lane[w][k] \/ g[k] = c
        BY <1>2, <4>1
      <4> HIDE DEF g
      <4>3. lane' \in [Worker -> [Job -> Slot]]
        BY <1>2, <3>2, <4>2
      <4>4. \A v \in Worker, k \in Job : lane'[v][k] = lane[v][k] \/ lane'[v][k] = c
        BY <1>2, <3>2, <4>2
      <4> QED BY <4>1, <4>3, <4>4
    <3> QED BY <1>5, <3>1, <3>2
  <2>4. TypeOK'
    BY <1>1, <1>5, <2>1, <2>3 DEF TypeOK, Slot
  <2>5. SlotsTrue'
    BY <1>1, <1>5, <2>3 DEF SlotsTrue
  <2>6. NoJobLost'
    BY <1>1, <1>5, <2>1 DEF NoJobLost
  <2> QED BY <2>4, <2>5, <2>6 DEF Inv
<1>6. ASSUME NEW w \in Worker, Claim(w) \/ ClaimLost(w) PROVE Inv'
  <2>1. CASE Claim(w)
    <3>1. PICK B \in DueBatches(queue, 0, Batch) :
             /\ queue' = ZAdd(queue, [j \in B |-> Lease])
             /\ lane' = [lane EXCEPT ![w] =
                     [j \in Job |-> IF j \in B THEN [Out EXCEPT !.step = "waiting"] ELSE @[j]]]
      BY <2>1 DEF Claim
    <3>2. B \subseteq DOMAIN queue
      BY DEF DueBatches, Due
    <3> QED BY <1>2, <1>5, <2>1, <3>1, <3>2 DEF Claim
  <2>2. CASE ClaimLost(w)
    <3>1. PICK B \in DueBatches(queue, 0, Batch) : queue' = ZAdd(queue, [j \in B |-> Lease])
      BY <2>2 DEF ClaimLost
    <3>2. B \subseteq DOMAIN queue
      BY DEF DueBatches, Due
    <3>3. crashes' \in 0 .. MaxCrashes
      BY <1>2, <2>2 DEF ClaimLost
    <3> QED BY <1>5, <2>2, <3>1, <3>2, <3>3 DEF ClaimLost
  <2> QED BY <1>6, <2>1, <2>2
<1>7. ASSUME NEW w \in Worker, Crash(w) PROVE Inv'
  <2>1. /\ lane' = [lane EXCEPT ![w] = [j \in Job |-> Out]]
        /\ crashes' \in 0 .. MaxCrashes
        /\ UNCHANGED <<queue, attempts, seen, ended, failures>>
    BY <1>2, <1>7 DEF Crash
  <2>2. Out \in Slot /\ Out.step = "out"
    BY <1>2 DEF Out, Slot
  <2>3. /\ lane' \in [Worker -> [Job -> Slot]]
        /\ \A v \in Worker, k \in Job :
             lane'[v][k] = lane[v][k] \/ lane'[v][k].step = "out"
    BY <1>2, <2>1, <2>2
  <2>4. TypeOK'
    BY <1>1, <2>1, <2>3 DEF TypeOK, Slot
  <2>5. SlotsTrue' /\ NoJobLost'
    BY <1>1, <2>1, <2>3 DEF SlotsTrue, NoJobLost
  <2> QED BY <2>4, <2>5 DEF Inv
<1>8. ASSUME Pass PROVE Inv'
  <2>1. /\ queue' = [j \in DOMAIN queue |-> Less(queue[j])]
        /\ lane' = [w \in Worker |-> [j \in Job |-> [lane[w][j] EXCEPT !.left = Less(@)]]]
        /\ UNCHANGED <<attempts, crashes, seen, ended, failures>>
    BY <1>8 DEF Pass
  <2>2. IsZSet(queue', Job, Nat) /\ DOMAIN queue' = DOMAIN queue
    BY ONLY <1>2, <2>1 DEF IsZSet, Less
  <2>3. ASSUME NEW c \in Slot
        PROVE  /\ [c EXCEPT !.left = Less(c.left)] \in Slot
               /\ [c EXCEPT !.left = Less(c.left)].step = c.step
               /\ [c EXCEPT !.left = Less(c.left)].n = c.n
    <3> DEFINE l == Less(c.left)
    <3>1. l \in 0 .. Timeout
      BY <1>2 DEF Slot, Less
    <3> HIDE DEF l
    <3>2. [c EXCEPT !.left = l] \in Slot /\ [c EXCEPT !.left = l].step = c.step
          /\ [c EXCEPT !.left = l].n = c.n
      BY <3>1 DEF Slot
    <3> QED BY <3>2 DEF l
  <2>4. /\ lane' \in [Worker -> [Job -> Slot]]
        /\ \A v \in Worker, k \in Job :
             lane'[v][k].step = lane[v][k].step /\ lane'[v][k].n = lane[v][k].n
    <3>1. \A v \in Worker, k \in Job :
             lane[v][k] \in Slot /\ lane'[v][k] = [lane[v][k] EXCEPT !.left = Less(lane[v][k].left)]
      BY <1>2, <2>1
    <3>2. \A v \in Worker, k \in Job :
             /\ lane'[v][k] \in Slot
             /\ lane'[v][k].step = lane[v][k].step /\ lane'[v][k].n = lane[v][k].n
      <4> SUFFICES ASSUME NEW v \in Worker, NEW k \in Job
                   PROVE  /\ lane'[v][k] \in Slot
                          /\ lane'[v][k].step = lane[v][k].step /\ lane'[v][k].n = lane[v][k].n
        OBVIOUS
      <4> DEFINE c == lane[v][k]
      <4>1. c \in Slot /\ lane'[v][k] = [c EXCEPT !.left = Less(c.left)]
        BY <3>1
      <4> HIDE DEF c
      <4>2. lane'[v][k] \in Slot /\ lane'[v][k].step = c.step /\ lane'[v][k].n = c.n
        BY <2>3, <4>1
      <4> QED BY <4>2 DEF c
    <3>3. lane' \in [Worker -> [Job -> Slot]]
      BY <2>1, <3>1, <3>2
    <3> QED BY <3>2, <3>3
  <2>5. TypeOK'
    BY <1>1, <2>1, <2>2, <2>4 DEF TypeOK, Slot
  <2>6. SlotsTrue'
    BY <1>1, <2>1, <2>4 DEF SlotsTrue
  <2>7. NoJobLost'
    BY <1>1, <2>1, <2>2 DEF NoJobLost
  <2> QED BY <2>5, <2>6, <2>7 DEF Inv
<1>9. ASSUME NEW w \in Worker, NEW j \in Job,
             \/ Start(w, j)
             \/ \E how \in {"delivered", "dropped"} : WorkEnds(w, j, how)
             \/ WorkFails(w, j)
             \/ Bump(w, j) \/ BumpLost(w, j) \/ Reschedule(w, j)
             \/ DoneRemove(w, j) \/ DoneClear(w, j)
             \/ CommandFails(w, j)
      PROVE  Inv'
  <2> DEFINE c == lane[w][j]
  <2>1. c \in Slot /\ Out \in Slot /\ Out.step = "out"
    BY <1>2 DEF Out, Slot
  <2>2. /\ c.step \in {"ack", "clear"} => ended[j] # {}
        /\ c.step = "counted" => c.n \in 1 .. AttemptCap
    BY <1>1 DEF SlotsTrue
  <2>3. CASE Start(w, j)
    <3> DEFINE d == [step |-> "working", left |-> Timeout, n |-> 0]
    <3>1. d \in Slot /\ d.step = "working"
      BY <1>2 DEF Slot
    <3>2. lane' = [lane EXCEPT ![w][j] = d] /\ UNCHANGED <<queue, attempts, crashes, seen, ended, failures>>
      BY <2>3 DEF Start
    <3> HIDE DEF d
    <3>3. SlotStep(w, j, d)
      BY <1>2, <3>1, <3>2 DEF SlotStep
    <3> QED BY <3>1, <3>3, OneSlot
  <2>4. ASSUME NEW how \in {"delivered", "dropped"}, WorkEnds(w, j, how) PROVE Inv'
    <3> DEFINE d == [c EXCEPT !.step = "ack"]
    <3>1. d \in Slot /\ d.step = "ack"
      BY <2>1, SlotGoto
    <3>2. /\ lane' = [lane EXCEPT ![w][j] = d] /\ ended' = [ended EXCEPT ![j] = @ \cup {how}]
          /\ UNCHANGED <<queue, attempts, crashes, seen, failures>>
      BY <2>4 DEF WorkEnds, Goto
    <3> HIDE DEF d
    <3>3. /\ ended' \in [Job -> SUBSET Ending] /\ how \in ended'[j]
          /\ \A k \in Job : ended[k] \subseteq ended'[k]
      BY <1>2, <3>2
    <3>4. SlotStep(w, j, d)
      BY <1>2, <3>1, <3>2, <3>3 DEF SlotStep
    <3> QED BY <3>1, <3>4, OneSlot
  <2>5. CASE WorkFails(w, j)
    <3> DEFINE d == [c EXCEPT !.step = "failed"]
    <3>1. d \in Slot /\ d.step = "failed"
      BY <2>1, SlotGoto
    <3>2. /\ lane' = [lane EXCEPT ![w][j] = d] /\ failures' = [failures EXCEPT ![j] = Capped(@ + 1)]
          /\ UNCHANGED <<queue, attempts, crashes, seen, ended>>
      BY <2>5 DEF WorkFails, Goto
    <3> HIDE DEF d
    <3>3. failures' \in [Job -> 0 .. AttemptCap]
      BY <1>2, <3>2 DEF Capped
    <3>4. SlotStep(w, j, d)
      BY <1>2, <3>1, <3>2, <3>3 DEF SlotStep
    <3> QED BY <3>1, <3>4, OneSlot
  <2>6. CASE Bump(w, j)
    <3>1. PICK times \in 1 .. (1 + MaxResend) :
            /\ attempts' = ZAdd(attempts, [k \in {j} |-> CountAfter(j, times)])
            /\ ended' = IF GivesUp(CountAfter(j, times))
                        THEN [ended EXCEPT ![j] = @ \cup {"gaveUp"}] ELSE ended
            /\ lane' = [lane EXCEPT ![w][j].step =
                                       IF GivesUp(CountAfter(j, times)) THEN "ack" ELSE "counted",
                                    ![w][j].n = CountAfter(j, times)]
      BY <2>6 DEF Bump
    <3>2. times \in Nat \ {0}
      BY QueueAssumption
    <3> DEFINE n == CountAfter(j, times)
               s == IF GivesUp(n) THEN "ack" ELSE "counted"
               d == [c EXCEPT !.step = s, !.n = n]
    <3>3. n \in 1 .. AttemptCap
      BY <1>1, <3>2, CountType
    <3> HIDE DEF n
    <3>4. n \in 0 .. AttemptCap /\ s \in Step /\ s \in {"ack", "counted"}
      BY <1>2, <3>3
    <3> HIDE DEF s
    <3>5. ended' = IF GivesUp(n) THEN [ended EXCEPT ![j] = @ \cup {"gaveUp"}] ELSE ended
      BY <3>1 DEF n
    <3>6. lane' = [lane EXCEPT ![w][j] = d]
      BY <1>2, <3>1 DEF n, s
    <3>7. d \in Slot /\ d.step = s /\ d.n = n
      <4> DEFINE e == [c EXCEPT !.step = s]
      <4>1. e \in Slot /\ e.step = s
        BY <2>1, <3>4, SlotGoto
      <4>2. d = [e EXCEPT !.n = n]
        BY <2>1 DEF Slot
      <4> HIDE DEF e, d
      <4> QED BY <3>4, <4>1, <4>2 DEF Slot
    <3> HIDE DEF d
    <3>8. /\ ended' \in [Job -> SUBSET Ending] /\ (s = "ack" => ended'[j] # {})
          /\ \A k \in Job : ended[k] \subseteq ended'[k]
      BY <1>2, <3>5 DEF s
    <3>9. attempts' = ZAdd(attempts, [k \in {j} |-> n])
      BY <3>1 DEF n
    <3>10. IsZSet(attempts', Job, 1 .. AttemptCap)
      BY ONLY <1>2, <3>3, <3>9, j \in Job DEF ZAdd, IsZSet
    <3>11. UNCHANGED <<queue, crashes, seen, failures>>
      BY <2>6 DEF Bump
    <3>12. SlotStep(w, j, d)
      BY <1>2, <3>3, <3>6, <3>7, <3>4, <3>8, <3>10, <3>11 DEF SlotStep
    <3> QED BY <3>7, <3>12, OneSlot
  <2>7. ASSUME lane' = [lane EXCEPT ![w][j] = Out],
               IsZSet(queue', Job, Nat), IsZSet(attempts', Job, 1 .. AttemptCap),
               DOMAIN queue \subseteq DOMAIN queue',
               UNCHANGED <<crashes, seen, ended, failures>>
        PROVE  Inv'
    <3>1. SlotStep(w, j, Out)
      BY <1>2, <2>1, <2>7 DEF SlotStep
    <3> QED BY <2>1, <3>1, OneSlot
  <2>8. CASE BumpLost(w, j)
    <3>1. CountAfter(j, 1) \in 1 .. AttemptCap
      BY <1>1, CountType
    <3>2. attempts' = ZAdd(attempts, [k \in {j} |-> CountAfter(j, 1)])
      BY <2>8 DEF BumpLost
    <3>3. IsZSet(attempts', Job, 1 .. AttemptCap)
      BY ONLY <1>2, <3>1, <3>2, j \in Job DEF ZAdd, IsZSet
    <3> QED BY <1>2, <2>7, <2>8, <3>3 DEF BumpLost, Leave
  <2>9. CASE Reschedule(w, j)
    <3>1. Backoff[c.n] \in Nat
      BY <2>2, <2>9, QueueAssumption DEF Reschedule, Is
    <3>2. queue' = ZAdd(queue, [k \in {j} |-> Backoff[c.n]])
      BY <2>9 DEF Reschedule
    <3>3. IsZSet(queue', Job, Nat) /\ DOMAIN queue \subseteq DOMAIN queue'
      BY ONLY <1>2, <3>1, <3>2, j \in Job DEF ZAdd, IsZSet
    <3> QED BY <1>2, <2>7, <2>9, <3>3 DEF Reschedule, Leave
  <2>10. CASE DoneRemove(w, j)
    <3> DEFINE d == [c EXCEPT !.step = "clear"]
    <3>1. d \in Slot /\ d.step = "clear"
      BY <2>1, SlotGoto
    <3>2. /\ c.step = "ack" /\ lane' = [lane EXCEPT ![w][j] = d] /\ queue' = ZRem(queue, {j})
          /\ UNCHANGED <<attempts, crashes, seen, ended, failures>>
      BY <2>10 DEF DoneRemove, Goto, Is
    <3> HIDE DEF d
    <3>3. IsZSet(queue', Job, Nat) /\ DOMAIN queue' = DOMAIN queue \ {j}
      BY ONLY <1>2, <3>2 DEF ZRem, IsZSet
    <3>4. SlotStep(w, j, d)
      BY <1>2, <2>2, <3>1, <3>2, <3>3 DEF SlotStep
    <3> QED BY <3>1, <3>4, OneSlot
  <2>11. CASE DoneClear(w, j)
    <3>1. attempts' = ZRem(attempts, {j})
      BY <2>11 DEF DoneClear
    <3>2. IsZSet(attempts', Job, 1 .. AttemptCap)
      BY ONLY <1>2, <3>1 DEF ZRem, IsZSet
    <3> QED BY <1>2, <2>7, <2>11, <3>2 DEF DoneClear, Leave
  <2>12. CASE CommandFails(w, j)
    BY <1>2, <2>7, <2>12 DEF CommandFails, Leave
  <2> QED BY <1>9, <2>3, <2>4, <2>5, <2>6, <2>8, <2>9, <2>10, <2>11, <2>12
<1> QED BY <1>3, <1>4, <1>6, <1>7, <1>8, <1>9 DEF Next

-----------------------------------------------------------------------------
(* The inductive invariant holds in every reachable state.                 *)
THEOREM QueueInvariance == Spec => []Inv
BY InitQueue, NextQueue, PTL DEF Spec

(* Type correctness of the queue, its counters and every goroutine         *)
(* (queue.go 30-64, 168-238).                                              *)
THEOREM QueueTypeCorrect == Spec => []TypeOK
<1>1. Inv => TypeOK  BY DEF Inv
<1> QED BY <1>1, QueueInvariance, PTL

(* At-least-once: whatever the lease, and however many workers crash, lose *)
(* replies or overrun it, a job leaves the queue only after its Work has   *)
(* ended (queue.go 196-238).                                               *)
THEOREM JobsKept == Spec => []NoJobLost
<1>1. Inv => NoJobLost  BY DEF Inv
<1> QED BY <1>1, QueueInvariance, PTL

-----------------------------------------------------------------------------
(* Whatever is queued, or in some worker's hands, has been queued once.    *)
AllSeen ==
  /\ DOMAIN queue \subseteq seen
  /\ \A w \in Worker, j \in Job : ~ Is(w, j, "out") => j \in seen

(* At the start nothing is queued and nothing claimed.                     *)
LEMMA InitSeen == Init => AllSeen
<1>1. \A w \in Worker, j \in Job : Init => lane[w][j].step = "out"
  BY DEF Init, Out
<1> QED BY <1>1 DEF Init, AllSeen, Is, EmptyZSet

(* Only goroutines of queued or claimed jobs move.                         *)
LEMMA NextSeen == Inv /\ AllSeen /\ [Next]_vars => AllSeen'
<1> SUFFICES ASSUME Inv, AllSeen, [Next]_vars PROVE AllSeen'
  OBVIOUS
<1>1. lane \in [Worker -> [Job -> Slot]] /\ seen \subseteq Job
  BY DEF Inv, TypeOK, Slot
<1>2. CASE UNCHANGED vars
  BY <1>2 DEF vars, AllSeen, Is
<1>3. ASSUME NEW j \in Job, Enqueue(j) PROVE AllSeen'
  BY <1>3 DEF Enqueue, AllSeen, Is, ZAdd
<1>4. ASSUME NEW w \in Worker, Claim(w) \/ ClaimLost(w) PROVE AllSeen'
  <2>1. PICK B \in DueBatches(queue, 0, Batch) :
          /\ queue' = ZAdd(queue, [j \in B |-> Lease])
          /\ \/ lane' = lane
             \/ lane' = [lane EXCEPT ![w] =
                  [j \in Job |-> IF j \in B THEN [Out EXCEPT !.step = "waiting"] ELSE @[j]]]
    BY <1>4 DEF Claim, ClaimLost
  <2>2. B \subseteq DOMAIN queue
    BY DEF DueBatches, Due
  <2>3. seen' = seen
    BY <1>4 DEF Claim, ClaimLost
  <2>4. DOMAIN queue' \subseteq seen'
    BY <2>1, <2>2, <2>3 DEF ZAdd, AllSeen
  <2>5. \A v \in Worker, j \in Job : j \in B \/ lane'[v][j] = lane[v][j]
    BY <1>1, <2>1
  <2> QED BY <2>2, <2>3, <2>4, <2>5 DEF AllSeen, Is
<1>5. ASSUME NEW w \in Worker, Crash(w) PROVE AllSeen'
  <2>1. Out.step = "out"
    BY DEF Out
  <2>2. \A v \in Worker, j \in Job : lane'[v][j] = lane[v][j] \/ lane'[v][j] = Out
    BY <1>1, <1>5 DEF Crash
  <2> QED BY <1>5, <2>1, <2>2 DEF Crash, AllSeen, Is
<1>6. ASSUME Pass PROVE AllSeen'
  <2>0. lane' = [w \in Worker |-> [j \in Job |-> [lane[w][j] EXCEPT !.left = Less(@)]]]
    BY <1>6 DEF Pass
  <2>1. ASSUME NEW v \in Worker, NEW j \in Job PROVE lane'[v][j].step = lane[v][j].step
    <3>1. lane[v][j] \in Slot /\ lane'[v][j] = [lane[v][j] EXCEPT !.left = Less(lane[v][j].left)]
      BY ONLY <1>1, <2>0, v \in Worker, j \in Job
    <3> QED BY <3>1 DEF Slot
  <2> QED BY <1>6, <2>1 DEF Pass, AllSeen, Is
<1>7. ASSUME NEW w \in Worker, NEW j \in Job, ~ Is(w, j, "out"), seen' = seen,
             DOMAIN queue' \subseteq DOMAIN queue \cup {j}, NEW c, lane' = [lane EXCEPT ![w][j] = c]
      PROVE  AllSeen'
  <2>1. \A v \in Worker, k \in Job : k = j \/ lane'[v][k] = lane[v][k]
    BY <1>1, <1>7
  <2> QED BY <1>7, <2>1 DEF AllSeen, Is
<1>8. ASSUME NEW w \in Worker, NEW j \in Job,
             \/ Start(w, j)
             \/ \E how \in {"delivered", "dropped"} : WorkEnds(w, j, how)
             \/ WorkFails(w, j)
             \/ Bump(w, j) \/ BumpLost(w, j) \/ Reschedule(w, j)
             \/ DoneRemove(w, j) \/ DoneClear(w, j)
             \/ CommandFails(w, j)
      PROVE  AllSeen'
  <2>1. ~ Is(w, j, "out") /\ seen' = seen
    BY <1>8 DEF Start, WorkEnds, WorkFails, Bump, BumpLost, Reschedule, DoneRemove, DoneClear,
                CommandFails, Is
  <2>2. DOMAIN queue' \subseteq DOMAIN queue \cup {j}
    BY <1>8 DEF Start, WorkEnds, WorkFails, Bump, BumpLost, Reschedule, DoneRemove, DoneClear,
                CommandFails, ZAdd, ZRem
  <2>3. \E c : lane' = [lane EXCEPT ![w][j] = c]
    <3>1. CASE Bump(w, j)
      <4>1. PICK n, s : lane' = [lane EXCEPT ![w][j].step = s, ![w][j].n = n]
        BY <3>1 DEF Bump
      <4> DEFINE d == [[lane[w][j] EXCEPT !.step = s] EXCEPT !.n = n]
      <4>2. lane' = [lane EXCEPT ![w][j] = d]
        BY <1>1, <4>1
      <4> QED BY <4>2
    <3>2. ASSUME NEW s, Goto(w, j, s) PROVE \E c : lane' = [lane EXCEPT ![w][j] = c]
      <4> DEFINE d == [lane[w][j] EXCEPT !.step = s]
      <4>1. lane' = [lane EXCEPT ![w][j] = d]
        BY <3>2 DEF Goto
      <4> QED BY <4>1
    <3>3. CASE Leave(w, j)
      BY <3>3 DEF Leave
    <3>4. CASE Start(w, j)
      BY <3>4 DEF Start
    <3> QED BY <1>8, <3>1, <3>2, <3>3, <3>4
            DEF WorkEnds, WorkFails, BumpLost, Reschedule, DoneRemove, DoneClear, CommandFails
  <2> QED BY <1>7, <2>1, <2>2, <2>3
<1> QED BY <1>2, <1>3, <1>4, <1>5, <1>6, <1>8 DEF Next

(* Every step of the queue is a step of JobQueue, or shows nothing.        *)
LEMMA StepImplements ==
  ASSUME Inv, AllSeen, [Next]_vars
  PROVE  [Queue!Next]_<<DOMAIN queue, seen, ended>>
<1>1. /\ \A w \in Worker, j \in Job : lane[w][j].step \in {"ack", "clear"} => ended[j] # {}
      /\ DOMAIN queue \subseteq Job
      /\ IsZSet(queue, Job, Nat)
  BY DEF Inv, SlotsTrue, TypeOK, IsZSet
<1>2. CASE UNCHANGED vars
  BY <1>2 DEF vars
<1>3. ASSUME NEW j \in Job, Enqueue(j) PROVE Queue!Next
  <2>1. DOMAIN queue' = DOMAIN queue \cup {j}
    BY <1>3 DEF Enqueue, ZAdd
  <2>2. Queue!Put({j})
    BY <1>3, <2>1 DEF Enqueue, Queue!Put
  <2> QED BY <2>2 DEF Queue!Next
<1>4. ASSUME NEW w \in Worker, Claim(w) \/ ClaimLost(w)
      PROVE  UNCHANGED <<DOMAIN queue, seen, ended>>
  <2>1. PICK B \in DueBatches(queue, 0, Batch) : queue' = ZAdd(queue, [j \in B |-> Lease])
    BY <1>4 DEF Claim, ClaimLost
  <2>2. B \subseteq DOMAIN queue
    BY DEF DueBatches, Due
  <2> QED BY <1>4, <2>1, <2>2 DEF Claim, ClaimLost, ZAdd
<1>5. ASSUME NEW w \in Worker, Crash(w) PROVE UNCHANGED <<DOMAIN queue, seen, ended>>
  BY <1>5 DEF Crash
<1>6. ASSUME Pass PROVE UNCHANGED <<DOMAIN queue, seen, ended>>
  BY <1>6 DEF Pass
<1>7. ASSUME NEW w \in Worker, NEW j \in Job,
             Start(w, j) \/ WorkFails(w, j) \/ BumpLost(w, j) \/ DoneClear(w, j) \/ CommandFails(w, j)
      PROVE  UNCHANGED <<DOMAIN queue, seen, ended>>
  BY <1>7 DEF Start, WorkFails, BumpLost, DoneClear, CommandFails
<1>8. ASSUME NEW w \in Worker, NEW j \in Job, NEW how \in {"delivered", "dropped"},
             WorkEnds(w, j, how)
      PROVE  Queue!Next
  <2>1. j \in seen
    BY <1>8 DEF WorkEnds, AllSeen, Is
  <2>2. Queue!End(j, how)
    BY <1>8, <2>1 DEF WorkEnds, Queue!End
  <2> QED BY <2>2 DEF Queue!Next, Queue!HowEnded
<1>9. ASSUME NEW w \in Worker, NEW j \in Job, Bump(w, j)
      PROVE  Queue!Next \/ UNCHANGED <<DOMAIN queue, seen, ended>>
  <2>1. j \in seen /\ UNCHANGED <<queue, seen>>
    BY <1>9 DEF Bump, AllSeen, Is
  <2>2. ended' = [ended EXCEPT ![j] = @ \cup {"gaveUp"}] \/ ended' = ended
    BY <1>9 DEF Bump
  <2>3. CASE ended' = [ended EXCEPT ![j] = @ \cup {"gaveUp"}]
    <3>1. Queue!End(j, "gaveUp")
      BY <2>1, <2>3 DEF Queue!End
    <3> QED BY <3>1 DEF Queue!Next, Queue!HowEnded
  <2> QED BY <2>1, <2>2, <2>3
<1>10. ASSUME NEW w \in Worker, NEW j \in Job, Reschedule(w, j) PROVE Queue!Next
  <2>1. j \in seen /\ DOMAIN queue' = DOMAIN queue \cup {j}
    BY <1>10 DEF Reschedule, AllSeen, Is, ZAdd
  <2>2. Queue!PutBack(j)
    BY <1>10, <2>1 DEF Reschedule, Queue!PutBack
  <2> QED BY <2>2 DEF Queue!Next
<1>11. ASSUME NEW w \in Worker, NEW j \in Job, DoneRemove(w, j) PROVE Queue!Next
  <2>1. ended[j] # {} /\ DOMAIN queue' = DOMAIN queue \ {j}
    BY <1>1, <1>11 DEF DoneRemove, Is, ZRem
  <2>2. Queue!Remove(j)
    BY <1>11, <2>1 DEF DoneRemove, Queue!Remove
  <2> QED BY <2>2 DEF Queue!Next
<1> QED BY <1>2, <1>3, <1>4, <1>5, <1>6, <1>7, <1>8, <1>9, <1>10, <1>11 DEF Next

(* The detailed queue implements the promise of JobQueue, for any lease,   *)
(* batch, timeout and number of workers (queue.go 30-64, 168-238).         *)
THEOREM ImplementsQueue == Spec => ImplementsJobQueue
<1>1. Init => Queue!Init
  BY DEF Init, Queue!Init, EmptyZSet
<1>2. Inv /\ AllSeen /\ [Next]_vars => [Queue!Next]_<<DOMAIN queue, seen, ended>>
  BY StepImplements
<1> QED BY <1>1, <1>2, InitQueue, NextQueue, InitSeen, NextSeen, PTL
        DEF Spec, ImplementsJobQueue, Queue!Spec

-----------------------------------------------------------------------------
(* The goroutines that have a failure of the job still to record, and the  *)
(* failures that are recorded.                                             *)
Failed(j) == {w \in Worker : Is(w, j, "failed")}
Count(j)  == IF j \in DOMAIN attempts THEN attempts[j] ELSE 0

(* The counter never runs ahead of the job: the recorded failures and the  *)
(* ones about to be recorded have all happened (up to AttemptCap, where    *)
(* the history stops counting).                                            *)
Counted(j) ==
  /\ IsFiniteSet(Failed(j))
  /\ failures[j] = AttemptCap \/ Count(j) + Cardinality(Failed(j)) <= failures[j]
  /\ "gaveUp" \in ended[j] => failures[j] >= MaxAttempts

FailuresCounted == \A j \in Job : Counted(j)

(* What the counter holds.                                                 *)
LEMMA CountIs ==
  ASSUME TypeOK, NEW j \in Job
  PROVE  Count(j) \in 0 .. AttemptCap
BY QueueAssumption DEF Count, TypeOK, IsZSet

(* A step that makes no new failure of j, forgets counts at most, and does *)
(* not give j up.                                                          *)
LEMMA NoNewFailure ==
  ASSUME TypeOK, TypeOK', NEW j \in Job, Counted(j),
         Failed(j)' \subseteq Failed(j), Count(j)' <= Count(j),
         failures'[j] = failures[j], "gaveUp" \in ended'[j] => "gaveUp" \in ended[j]
  PROVE  Counted(j)'
<1>1. /\ IsFiniteSet(Failed(j)') /\ Cardinality(Failed(j)') \in Nat
      /\ Cardinality(Failed(j)') <= Cardinality(Failed(j)) /\ Cardinality(Failed(j)) \in Nat
  BY FS_Subset, FS_CardinalityType DEF Counted
<1>2. Count(j) \in Int /\ Count(j)' \in Int /\ failures[j] \in Int
  <2>1. Count(j) \in 0 .. AttemptCap /\ AttemptCap \in Nat /\ failures[j] \in 0 .. AttemptCap
    BY CountIs, QueueAssumption DEF TypeOK
  <2>2. Count(j)' \in 0 .. AttemptCap
    BY QueueAssumption DEF Count, TypeOK, IsZSet
  <2> QED BY <2>1, <2>2
<1> QED BY <1>1, <1>2 DEF Counted

(* Where one goroutine moves, the others' failures stay to be recorded.    *)
LEMMA OthersFailed ==
  ASSUME TypeOK, NEW w \in Worker, NEW j \in Job, NEW c, lane' = [lane EXCEPT ![w][j] = c]
  PROVE  /\ \A k \in Job : k # j => Failed(k)' = Failed(k)
         /\ c.step # "failed" => Failed(j)' = Failed(j) \ {w}
         /\ c.step = "failed" => Failed(j)' = Failed(j) \cup {w}
<1>1. lane \in [Worker -> [Job -> Slot]]
  BY DEF TypeOK, Slot
<1>2. /\ lane'[w][j] = c
      /\ \A v \in Worker, k \in Job : v # w \/ k # j => lane'[v][k] = lane[v][k]
  BY <1>1
<1> QED BY <1>2 DEF Failed, Is

(* No counts at the start.                                                 *)
LEMMA InitCounted == Init => FailuresCounted
<1> SUFFICES ASSUME Init, NEW j \in Job PROVE Counted(j)
  BY DEF FailuresCounted
<1>1. Failed(j) = {}
  BY DEF Init, Failed, Is, Out
<1>2. Count(j) = 0 /\ failures[j] = 0 /\ ended[j] = {}
  BY DEF Init, Count, EmptyZSet
<1> QED BY <1>1, <1>2, FS_EmptySet DEF Counted

(* With no command re-sent, every step keeps count and failures in order.  *)
LEMMA NextCounted ==
  ASSUME MaxResend = 0, Inv, Inv', FailuresCounted, [Next]_vars
  PROVE  FailuresCounted'
<1>1. /\ TypeOK /\ TypeOK' /\ \A k \in Job : Counted(k)
      /\ lane \in [Worker -> [Job -> Slot]] /\ IsZSet(attempts, Job, 1 .. AttemptCap)
      /\ ended \in [Job -> SUBSET Ending] /\ failures \in [Job -> 0 .. AttemptCap]
      /\ AttemptCap \in Nat \ {0} /\ MaxAttempts \in Nat /\ MaxAttempts <= AttemptCap
  BY QueueAssumption DEF Inv, TypeOK, Slot, FailuresCounted
<1> SUFFICES ASSUME NEW k \in Job PROVE Counted(k)'
  BY DEF FailuresCounted
<1>2. ASSUME UNCHANGED <<attempts, failures, ended>>, Failed(k)' \subseteq Failed(k)
      PROVE  Counted(k)'
  <2>1. Count(k)' = Count(k)
    BY <1>2 DEF Count
  <2>2. Count(k)' <= Count(k)
    BY <1>1, <2>1, CountIs
  <2> QED BY <1>1, <1>2, <2>2, NoNewFailure
<1>3. CASE UNCHANGED vars
  BY <1>2, <1>3 DEF vars, Failed, Is
<1>4. ASSUME NEW j \in Job, Enqueue(j) PROVE Counted(k)'
  BY <1>2, <1>4 DEF Enqueue, Failed, Is
<1>5. ASSUME NEW w \in Worker, Claim(w) \/ ClaimLost(w) \/ Crash(w) PROVE Counted(k)'
  <2>1. UNCHANGED <<attempts, failures, ended>>
    BY <1>5 DEF Claim, ClaimLost, Crash
  <2>2. ASSUME NEW v \in Worker, lane'[v][k].step = "failed" PROVE lane[v][k].step = "failed"
    <3> DEFINE c == [Out EXCEPT !.step = "waiting"]
    <3>1. c.step = "waiting" /\ Out.step = "out"
      BY DEF Out
    <3> HIDE DEF c
    <3>2. CASE Claim(w)
      <4>1. PICK B : lane' = [lane EXCEPT ![w] = [j \in Job |-> IF j \in B THEN c ELSE @[j]]]
        BY <3>2 DEF Claim, c
      <4>2. lane'[v][k] = lane[v][k] \/ lane'[v][k] = c
        BY <1>1, <4>1
      <4> QED BY <2>2, <3>1, <4>2
    <3>3. CASE ClaimLost(w)
      BY <2>2, <3>3 DEF ClaimLost
    <3>4. CASE Crash(w)
      <4>1. lane'[v][k] = lane[v][k] \/ lane'[v][k] = Out
        BY <1>1, <3>4 DEF Crash
      <4> QED BY <2>2, <3>1, <4>1
    <3> QED BY <1>5, <3>2, <3>3, <3>4
  <2> QED BY <1>2, <2>1, <2>2 DEF Failed, Is
<1>6. ASSUME Pass PROVE Counted(k)'
  <2>0. /\ lane' = [w \in Worker |-> [j \in Job |-> [lane[w][j] EXCEPT !.left = Less(@)]]]
        /\ UNCHANGED <<attempts, failures, ended>>
    BY <1>6 DEF Pass
  <2>1. ASSUME NEW v \in Worker PROVE lane'[v][k].step = lane[v][k].step
    <3>1. lane[v][k] \in Slot /\ lane'[v][k] = [lane[v][k] EXCEPT !.left = Less(lane[v][k].left)]
      BY ONLY <1>1, <2>0, v \in Worker, k \in Job
    <3> QED BY <3>1 DEF Slot
  <2> QED BY <1>2, <2>0, <2>1 DEF Failed, Is
<1>7. ASSUME NEW w \in Worker, NEW j \in Job, NEW c, c.step # "failed",
             lane' = [lane EXCEPT ![w][j] = c],
             attempts' = attempts \/ attempts' = ZRem(attempts, {j}),
             failures' = failures, "gaveUp" \in ended'[k] => "gaveUp" \in ended[k]
      PROVE  Counted(k)'
  <2>1. Failed(k)' \subseteq Failed(k)
    BY <1>1, <1>7, OthersFailed
  <2>2. Count(k)' = Count(k) \/ Count(k)' = 0
    BY <1>7 DEF Count, ZRem
  <2>3. Count(k)' <= Count(k)
    BY <1>1, <2>2, CountIs
  <2> QED BY <1>1, <1>7, <2>1, <2>3, NoNewFailure
<1>8. ASSUME NEW w \in Worker, NEW j \in Job,
             \/ Start(w, j)
             \/ \E how \in {"delivered", "dropped"} : WorkEnds(w, j, how)
             \/ Reschedule(w, j) \/ DoneRemove(w, j) \/ DoneClear(w, j) \/ CommandFails(w, j)
      PROVE  Counted(k)'
  <2> DEFINE l == lane[w][j]
  <2>1. l \in Slot /\ Out.step # "failed"
    BY <1>1 DEF Out
  <2>2. CASE Start(w, j)
    <3> DEFINE d == [step |-> "working", left |-> Timeout, n |-> 0]
    <3>1. d.step # "failed" /\ lane' = [lane EXCEPT ![w][j] = d]
          /\ UNCHANGED <<attempts, failures, ended>>
      BY <2>2 DEF Start
    <3> HIDE DEF d
    <3> QED BY <1>7, <3>1
  <2>3. ASSUME NEW how \in {"delivered", "dropped"}, WorkEnds(w, j, how) PROVE Counted(k)'
    <3> DEFINE d == [l EXCEPT !.step = "ack"]
    <3>1. d.step = "ack" /\ lane' = [lane EXCEPT ![w][j] = d]
      BY <2>1, <2>3, SlotGoto DEF WorkEnds, Goto
    <3> HIDE DEF d
    <3>2. "gaveUp" \in ended'[k] => "gaveUp" \in ended[k]
      BY <1>1, <2>3 DEF WorkEnds
    <3> QED BY <1>7, <2>3, <3>1, <3>2 DEF WorkEnds
  <2>4. CASE DoneRemove(w, j)
    <3> DEFINE d == [l EXCEPT !.step = "clear"]
    <3>1. d.step = "clear" /\ lane' = [lane EXCEPT ![w][j] = d]
      BY <2>1, <2>4, SlotGoto DEF DoneRemove, Goto
    <3> HIDE DEF d
    <3> QED BY <1>7, <2>4, <3>1 DEF DoneRemove
  <2>5. CASE Reschedule(w, j) \/ DoneClear(w, j) \/ CommandFails(w, j)
    BY <1>7, <2>1, <2>5 DEF Reschedule, DoneClear, CommandFails, Leave
  <2> QED BY <1>8, <2>2, <2>3, <2>4, <2>5
<1>9. ASSUME NEW w \in Worker, NEW j \in Job, WorkFails(w, j) PROVE Counted(k)'
  <2> DEFINE d == [lane[w][j] EXCEPT !.step = "failed"]
  <2>1. /\ d.step = "failed" /\ lane' = [lane EXCEPT ![w][j] = d]
        /\ failures' = [failures EXCEPT ![j] = Capped(@ + 1)]
        /\ UNCHANGED <<attempts, ended>> /\ lane[w][j].step = "working"
    BY <1>1, <1>9, SlotGoto DEF WorkFails, Goto, Is
  <2> HIDE DEF d
  <2>2. Count(k)' = Count(k) /\ Count(k) \in 0 .. AttemptCap
    BY <1>1, <2>1, CountIs DEF Count
  <2>3. CASE k # j
    <3>1. Failed(k)' = Failed(k) /\ failures'[k] = failures[k]
      BY <1>1, <2>1, <2>3, OthersFailed
    <3> QED BY <1>1, <2>1, <2>2, <3>1, NoNewFailure
  <2>4. CASE k = j
    <3>1. Failed(k)' = Failed(k) \cup {w} /\ w \notin Failed(k)
      BY <1>1, <2>1, <2>4, OthersFailed DEF Failed, Is
    <3>2. IsFiniteSet(Failed(k)) /\ Cardinality(Failed(k)) \in Nat
      BY <1>1, FS_CardinalityType DEF Counted
    <3>3. IsFiniteSet(Failed(k)') /\ Cardinality(Failed(k)') = Cardinality(Failed(k)) + 1
      BY <3>1, <3>2, FS_AddElement
    <3>4. failures'[k] = Capped(failures[k] + 1) /\ failures[k] \in 0 .. AttemptCap
      BY <1>1, <2>1, <2>4
    <3>5. failures'[k] = AttemptCap \/ Count(k)' + Cardinality(Failed(k)') <= failures'[k]
      BY <1>1, <2>2, <3>2, <3>3, <3>4 DEF Counted, Capped
    <3>6. "gaveUp" \in ended'[k] => failures'[k] >= MaxAttempts
      BY <1>1, <2>1, <3>4 DEF Counted, Capped
    <3> QED BY <3>3, <3>5, <3>6 DEF Counted
  <2> QED BY <2>3, <2>4
<1>10. ASSUME NEW w \in Worker, NEW j \in Job, Bump(w, j) \/ BumpLost(w, j) PROVE Counted(k)'
  <2> DEFINE n == CountAfter(j, 1)
             l == lane[w][j]
  <2>0. lane[w][j].step = "failed"
    BY <1>10 DEF Bump, BumpLost, Is
  <2>1. /\ attempts' = ZAdd(attempts, [i \in {j} |-> n])
        /\ UNCHANGED failures
        /\ ended' = ended \/ (GivesUp(n) /\ ended' = [ended EXCEPT ![j] = @ \cup {"gaveUp"}])
    <3>1. CASE Bump(w, j)
      <4>1. \A times \in 1 .. (1 + MaxResend) : times = 1
        OBVIOUS
      <4> QED BY <3>1, <4>1 DEF Bump
    <3> QED BY <1>10, <3>1 DEF BumpLost
  <2>2. n = Capped(Count(j) + 1)
    BY DEF CountAfter, Count
  <2>3. \E c : c.step # "failed" /\ lane' = [lane EXCEPT ![w][j] = c]
    <3>1. CASE Bump(w, j)
      <4>0. PICK s \in {"ack", "counted"} :
              \E m : lane' = [lane EXCEPT ![w][j].step = s, ![w][j].n = m]
        BY <3>1 DEF Bump
      <4>1. PICK m : lane' = [lane EXCEPT ![w][j].step = s, ![w][j].n = m]
        BY <4>0
      <4> DEFINE e == [l EXCEPT !.step = s]
                 d == [e EXCEPT !.n = m]
      <4>2. l \in Slot /\ s \in Step
        BY <1>1
      <4>3. e \in Slot /\ e.step = s
        BY <4>2, SlotGoto
      <4>4. lane' = [lane EXCEPT ![w][j] = d]
        BY <1>1, <4>1
      <4> HIDE DEF e
      <4>5. d.step = s
        BY <4>3 DEF Slot
      <4> QED BY <4>4, <4>5
    <3>2. CASE BumpLost(w, j)
      BY <3>2 DEF BumpLost, Leave, Out
    <3> QED BY <1>10, <3>1, <3>2
  <2>4. /\ k # j => Failed(k)' = Failed(k)
        /\ Failed(j)' = Failed(j) \ {w} /\ w \in Failed(j)
    BY <1>1, <2>0, <2>3, OthersFailed DEF Failed, Is
  <2> HIDE DEF n
  <2>5. CASE k # j
    <3>1. Count(k)' = Count(k) /\ Count(k) \in 0 .. AttemptCap
      BY <1>1, <2>1, <2>5, CountIs DEF Count, ZAdd
    <3>2. ended'[k] = ended[k] /\ failures'[k] = failures[k]
      BY <1>1, <2>1, <2>5
    <3> QED BY <1>1, <2>4, <2>5, <3>1, <3>2, NoNewFailure
  <2>6. CASE k = j
    <3>1. Count(k)' = n
      BY <2>1, <2>6 DEF Count, ZAdd
    <3>2. IsFiniteSet(Failed(k)) /\ Cardinality(Failed(k)) \in Nat
      BY <1>1, FS_CardinalityType DEF Counted
    <3>3. IsFiniteSet(Failed(k)') /\ Cardinality(Failed(k)') = Cardinality(Failed(k)) - 1
      BY <2>4, <2>6, <3>2, FS_RemoveElement
    <3>4. /\ Count(k) \in 0 .. AttemptCap /\ failures[k] \in 0 .. AttemptCap
          /\ failures'[k] = failures[k] /\ n = Capped(Count(k) + 1)
          /\ Cardinality(Failed(k)') \in Nat
      BY <1>1, <2>1, <2>2, <2>6, <3>3, CountIs, FS_CardinalityType
    <3>5. failures'[k] = AttemptCap \/ Count(k)' + Cardinality(Failed(k)') <= failures'[k]
      BY <1>1, <3>1, <3>2, <3>3, <3>4 DEF Counted, Capped
    <3>6. failures[k] = AttemptCap \/ n <= failures[k]
      BY <1>1, <3>1, <3>4, <3>5 DEF Capped
    <3>7. "gaveUp" \in ended'[k] => failures'[k] >= MaxAttempts
      BY <1>1, <2>1, <2>6, <3>4, <3>6 DEF Counted, GivesUp, Capped
    <3> QED BY <3>3, <3>5, <3>7 DEF Counted
  <2> QED BY <2>5, <2>6
<1> QED BY <1>3, <1>4, <1>5, <1>6, <1>8, <1>9, <1>10 DEF Next

(* A job is given up only after its Work has failed MaxAttempts times, on  *)
(* any number of workers, crashing, overrunning their leases and losing    *)
(* replies, as long as the client re-sends no count (queue.go 208-216).    *)
THEOREM GivesUpTrue ==
  ASSUME MaxResend = 0
  PROVE  Spec => []GivesUpAfterMaxAttempts
<1>1. Inv /\ Inv' /\ FailuresCounted /\ [Next]_vars => FailuresCounted'
  BY NextCounted
<1>2. FailuresCounted => GivesUpAfterMaxAttempts
  BY DEF FailuresCounted, Counted, GivesUpAfterMaxAttempts
<1> QED BY <1>1, <1>2, InitCounted, QueueInvariance, PTL DEF Spec

-----------------------------------------------------------------------------
(* The steps at which a goroutine still relies on the lease of its job;    *)
(* at "clear" the job has left the queue.                                  *)
Hand == {"waiting", "working", "failed", "counted", "ack"}

Waiting(w) == {j \in Job : Is(w, j, "waiting")}

(* The jobs in flight that may still run m timeouts after the claim; a is  *)
(* the age of the claim.                                                   *)
Late(w, a, m) == {j \in InFlight(w) : a + lane[w][j].left > m * Timeout}

(* A batch of at most r rounds of Parallel jobs, claimed a ago: every job  *)
(* of it in hand has its lease, and by the time m - 1 timeouts have passed *)
(* at most r - m rounds are left that do not start in round m or earlier.  *)
BatchOf(w, r, a) ==
  /\ \A j \in Job : lane[w][j].step \in Hand => j \in DOMAIN queue /\ queue[j] = Lease - a
  /\ IsFiniteSet(Waiting(w)) /\ IsFiniteSet(InFlight(w))
  /\ \A m \in 0 .. r : a > (m - 1) * Timeout =>
       Cardinality(Waiting(w)) + Cardinality(Late(w, a, m)) <= (r - m) * Parallel

LeaseInv(r) ==
  /\ IsFiniteSet(DOMAIN queue)
  /\ \A w \in Worker, j \in Job : Is(w, j, "clear") => j \notin DOMAIN queue
  /\ LeasedToOneCaller
  /\ \A w \in Worker : \E a \in Nat : BatchOf(w, r, a)

(* What one claim can take fits into r rounds: the limit of a claim is     *)
(* small, or at most that many jobs are due at any one time.               *)
ShortBacklog(r) == Batch <= r * Parallel \/ Cardinality(Due(queue, 0)) <= r * Parallel

(* The sets a batch is counted by are finite.                              *)
LEMMA LateFinite ==
  ASSUME NEW w, NEW a, NEW m, IsFiniteSet(InFlight(w))
  PROVE  /\ IsFiniteSet(Late(w, a, m)) /\ Cardinality(Late(w, a, m)) \in Nat
         /\ Cardinality(Late(w, a, m)) <= Cardinality(InFlight(w))
<1>1. Late(w, a, m) \in SUBSET InFlight(w)
  BY DEF Late
<1> QED BY <1>1, FS_Subset, FS_CardinalityType

(* Rounds, counted.                                                        *)
LEMMA Rounds ==
  ASSUME NEW m \in Int, NEW n \in Nat
  PROVE  /\ m * n \in Int /\ (m - 1) * n = m * n - n /\ (m + 1) * n = m * n + n
         /\ m >= 0 => m * n >= 0
  OBVIOUS

(* A worker's batch is through before its lease ends: a job in hand is     *)
(* never due.                                                              *)
LEMMA HeldNotDue ==
  ASSUME TypeOK, NEW r \in Nat, r * Timeout < Lease, NEW w \in Worker, NEW a \in Nat,
         BatchOf(w, r, a), NEW j \in Job, lane[w][j].step \in Hand
  PROVE  j \in DOMAIN queue /\ queue[j] = Lease - a /\ queue[j] > 0
<1>1. j \in DOMAIN queue /\ queue[j] = Lease - a
  BY DEF BatchOf
<1>2. /\ Timeout \in Nat \ {0} /\ Lease \in Nat /\ r * Timeout \in Int
      /\ (r - 1) * Timeout = r * Timeout - Timeout /\ (r - r) * Parallel = 0
      /\ lane[w][j] \in Slot
  BY QueueAssumption, Rounds DEF TypeOK, Slot
<1>3. CASE a > (r - 1) * Timeout
  <2>1. Cardinality(Waiting(w)) + Cardinality(Late(w, a, r)) <= 0
    BY <1>2, <1>3 DEF BatchOf
  <2>2. /\ IsFiniteSet(Waiting(w)) /\ IsFiniteSet(Late(w, a, r))
        /\ Cardinality(Waiting(w)) \in Nat /\ Cardinality(Late(w, a, r)) \in Nat
    BY LateFinite, FS_CardinalityType DEF BatchOf
  <2>3. Waiting(w) = {} /\ Late(w, a, r) = {}
    BY <2>1, <2>2, FS_EmptySet
  <2>4. j \in InFlight(w)
    BY <2>3 DEF Waiting, InFlight, Is, Hand
  <2>5. ~ (a + lane[w][j].left > r * Timeout)
    BY <2>3, <2>4 DEF Late
  <2>6. lane[w][j].left \in Nat
    BY <1>2 DEF Slot
  <2> QED BY <1>1, <1>2, <2>5, <2>6
<1>4. CASE ~ (a > (r - 1) * Timeout)
  BY <1>1, <1>2, <1>4
<1> QED BY <1>3, <1>4

(* A worker that does not move, and whose leases are not touched.          *)
LEMMA BatchKept ==
  ASSUME NEW r \in Nat, NEW v \in Worker, NEW a \in Nat, BatchOf(v, r, a), lane'[v] = lane[v],
         \A j \in Job : lane[v][j].step \in Hand => j \in DOMAIN queue' /\ queue'[j] = queue[j]
  PROVE  BatchOf(v, r, a)'
<1>1. /\ Waiting(v)' = Waiting(v) /\ InFlight(v)' = InFlight(v)
      /\ \A m : Late(v, a, m)' = Late(v, a, m)
  BY DEF Waiting, InFlight, Late, Is
<1> QED BY <1>1 DEF BatchOf

(* A worker with nothing in hand holds an empty batch.                     *)
LEMMA EmptyBatch ==
  ASSUME NEW r \in Nat, NEW w \in Worker, \A j \in Job : lane[w][j].step = "out"
  PROVE  BatchOf(w, r, 0)
<1>1. Waiting(w) = {} /\ InFlight(w) = {} /\ \A m : Late(w, 0, m) = {}
  BY DEF Waiting, InFlight, Late, Is
<1>2. ASSUME NEW m \in 0 .. r PROVE 0 <= (r - m) * Parallel
  BY QueueAssumption, Rounds
<1>3. ASSUME NEW m \in 0 .. r
      PROVE  Cardinality(Waiting(w)) + Cardinality(Late(w, 0, m)) <= (r - m) * Parallel
  <2>1. Cardinality(Waiting(w)) = 0 /\ Cardinality(Late(w, 0, m)) = 0
    BY <1>1, FS_EmptySet
  <2> QED BY <1>2, <2>1
<1>4. IsFiniteSet(Waiting(w)) /\ IsFiniteSet(InFlight(w))
  BY <1>1, FS_EmptySet
<1>5. \A j \in Job : lane[w][j].step \notin Hand
  BY DEF Hand
<1> QED BY <1>3, <1>4, <1>5 DEF BatchOf

(* Leases at the start.                                                    *)
LEMMA InitLease == ASSUME NEW r \in Nat PROVE Init => LeaseInv(r)
<1> SUFFICES ASSUME Init PROVE LeaseInv(r)
  OBVIOUS
<1>1. \A w \in Worker, j \in Job : lane[w][j].step = "out"
  BY DEF Init, Out
<1>2. \A w \in Worker : BatchOf(w, r, 0)
  BY <1>1, EmptyBatch
<1>3. DOMAIN queue = {}
  BY DEF Init, EmptyZSet
<1> QED BY <1>1, <1>2, <1>3, FS_EmptySet DEF LeaseInv, LeasedToOneCaller, Is

(* A step of w's goroutine for j that leaves its slot at c: the lease of   *)
(* no other job is touched, a goroutine that goes on keeps its job in the  *)
(* queue and its context, and only a job that leaves the queue is cleared. *)
LaneStep(w, j, c) ==
  /\ ~ Is(w, j, "out") /\ lane' = [lane EXCEPT ![w][j] = c]
  /\ DOMAIN queue' \subseteq DOMAIN queue
  /\ \A k \in DOMAIN queue : k # j => k \in DOMAIN queue' /\ queue'[k] = queue[k]
  /\ c.step \in Hand =>
       lane[w][j].step \in Hand /\ (j \in DOMAIN queue => j \in DOMAIN queue' /\ queue'[j] = queue[j])
  /\ c.step = "clear" => j \notin DOMAIN queue'
  /\ c.step # "waiting"
  /\ Is(w, j, "waiting") \/ c.step \notin Running \/ c.left = lane[w][j].left

(* Such a step keeps every lease.                                          *)
LEMMA OneLane ==
  ASSUME TypeOK, NEW r \in Nat, LeaseInv(r), NEW w \in Worker, NEW j \in Job, NEW c,
         LaneStep(w, j, c)
  PROVE  LeaseInv(r)'
<1>1. lane \in [Worker -> [Job -> Slot]]
  BY DEF TypeOK, Slot
<1>2. /\ lane'[w][j] = c
      /\ \A v \in Worker, k \in Job : v # w \/ k # j => lane'[v][k] = lane[v][k]
      /\ \A v \in Worker : v # w => lane'[v] = lane[v]
  BY <1>1 DEF LaneStep
<1>3. IsFiniteSet(DOMAIN queue)'
  BY FS_Subset DEF LaneStep, LeaseInv
<1>4. \A v \in Worker, k \in Job : lane'[v][k].step = "clear" => k \notin DOMAIN queue'
  BY <1>2 DEF LaneStep, LeaseInv, Is
<1>5. LeasedToOneCaller'
  BY <1>2 DEF LaneStep, LeaseInv, LeasedToOneCaller, Is
<1>6. ASSUME NEW v \in Worker, v # w PROVE \E a \in Nat : BatchOf(v, r, a)'
  <2>1. PICK a \in Nat : BatchOf(v, r, a)
    BY DEF LeaseInv
  <2>2. lane[v][j].step = "out"
    BY <1>6 DEF LeaseInv, LeasedToOneCaller, LaneStep, Is
  <2>3. \A k \in Job : lane[v][k].step \in Hand => k \in DOMAIN queue' /\ queue'[k] = queue[k]
    BY <2>1, <2>2 DEF BatchOf, LaneStep, Hand
  <2> QED BY <1>2, <1>6, <2>1, <2>3, BatchKept
<1>7. \E a \in Nat : BatchOf(w, r, a)'
  <2>1. PICK a \in Nat : BatchOf(w, r, a)
    BY DEF LeaseInv
  <2>2. \A k \in Job : lane'[w][k].step \in Hand => k \in DOMAIN queue' /\ queue'[k] = Lease - a
    BY <1>2, <2>1 DEF BatchOf, LaneStep
  <2>3. /\ IsFiniteSet(Waiting(w)) /\ IsFiniteSet(InFlight(w))
        /\ Cardinality(Waiting(w)) \in Nat
    BY <2>1, FS_CardinalityType DEF BatchOf
  <2>4. /\ IsFiniteSet(Waiting(w)') /\ IsFiniteSet(InFlight(w)')
        /\ \A m \in 0 .. r : Cardinality(Waiting(w)') + Cardinality(Late(w, a, m)')
                               <= Cardinality(Waiting(w)) + Cardinality(Late(w, a, m))
    <3>1. CASE Is(w, j, "waiting")
      <4>1. Waiting(w)' = Waiting(w) \ {j} /\ j \in Waiting(w)
        BY <1>2, <3>1 DEF Waiting, LaneStep, Is
      <4>2. InFlight(w)' \subseteq InFlight(w) \cup {j}
        BY <1>2 DEF InFlight
      <4>3. \A m : Late(w, a, m)' \subseteq Late(w, a, m) \cup {j}
        BY <1>2 DEF Late, InFlight
      <4>4. IsFiniteSet(Waiting(w)') /\ Cardinality(Waiting(w)') = Cardinality(Waiting(w)) - 1
        BY <2>3, <4>1, FS_RemoveElement
      <4>5. IsFiniteSet(InFlight(w)')
        BY <2>3, <4>2, FS_AddElement, FS_Subset
      <4>6. ASSUME NEW m \in 0 .. r
            PROVE  Cardinality(Late(w, a, m)') <= Cardinality(Late(w, a, m)) + 1
        <5>1. IsFiniteSet(Late(w, a, m)) /\ Cardinality(Late(w, a, m)) \in Nat
          BY <2>3, LateFinite
        <5> DEFINE T == Late(w, a, m) \cup {j}
        <5>2. IsFiniteSet(T) /\ Cardinality(T) <= Cardinality(Late(w, a, m)) + 1
          <6>1. /\ IsFiniteSet(T)
                /\ Cardinality(T) = IF j \in Late(w, a, m) THEN Cardinality(Late(w, a, m))
                                                           ELSE Cardinality(Late(w, a, m)) + 1
            BY ONLY <5>1, FS_AddElement DEF T
          <6> QED BY <5>1, <6>1
        <5>3. Late(w, a, m)' \in SUBSET T
          BY <4>3
        <5> HIDE DEF T
        <5>4. Cardinality(Late(w, a, m)') <= Cardinality(T) /\ IsFiniteSet(Late(w, a, m)')
          BY <5>2, <5>3, FS_Subset
        <5>5. Cardinality(Late(w, a, m)') \in Nat /\ Cardinality(T) \in Nat
          BY <5>2, <5>4, FS_CardinalityType
        <5> QED BY <5>1, <5>2, <5>4, <5>5
      <4>7. ASSUME NEW m \in 0 .. r
            PROVE Cardinality(Late(w, a, m)) \in Nat /\ Cardinality(Late(w, a, m)') \in Nat
        <5>1. Late(w, a, m)' \in SUBSET InFlight(w)'
          BY DEF Late
        <5> QED BY <2>3, <4>5, <5>1, LateFinite, FS_Subset, FS_CardinalityType
      <4> QED BY <2>3, <4>4, <4>5, <4>6, <4>7
    <3>2. CASE ~ Is(w, j, "waiting")
      <4>0. lane[w][j] \in Slot /\ lane[w][j].step \in Running
        BY <1>1, <3>2 DEF LaneStep, Slot, Is
      <4>1. Waiting(w)' = Waiting(w)
        BY <1>2, <3>2 DEF Waiting, LaneStep, Is
      <4>2. InFlight(w)' \subseteq InFlight(w)
        BY <1>2, <4>0 DEF InFlight
      <4>3. \A m : Late(w, a, m)' \subseteq Late(w, a, m)
        BY <1>2, <3>2, <4>0 DEF Late, InFlight, LaneStep
      <4>4. IsFiniteSet(InFlight(w)')
        BY <2>3, <4>2, FS_Subset
      <4>5. ASSUME NEW m \in 0 .. r
            PROVE  /\ Cardinality(Late(w, a, m)') <= Cardinality(Late(w, a, m))
                   /\ Cardinality(Late(w, a, m)) \in Nat /\ Cardinality(Late(w, a, m)') \in Nat
        <5>1. IsFiniteSet(Late(w, a, m)) /\ Cardinality(Late(w, a, m)) \in Nat
          BY <2>3, LateFinite
        <5>2. Late(w, a, m)' \in SUBSET Late(w, a, m)
          BY <4>3
        <5> QED BY <5>1, <5>2, FS_Subset, FS_CardinalityType
      <4> QED BY <2>3, <4>1, <4>4, <4>5
    <3> QED BY <3>1, <3>2
  <2>5. ASSUME NEW m \in 0 .. r
        PROVE  /\ Cardinality(Late(w, a, m)) \in Nat /\ Cardinality(Late(w, a, m)') \in Nat
               /\ Cardinality(Waiting(w)') \in Nat /\ (r - m) * Parallel \in Int
    <3>1. Late(w, a, m)' \in SUBSET InFlight(w)'
      BY DEF Late
    <3>2. (r - m) * Parallel \in Int
      BY QueueAssumption
    <3> QED BY <2>3, <2>4, <3>1, <3>2, LateFinite, FS_Subset, FS_CardinalityType
  <2>6. ASSUME NEW m \in 0 .. r, a > (m - 1) * Timeout
        PROVE  Cardinality(Waiting(w)') + Cardinality(Late(w, a, m)') <= (r - m) * Parallel
    <3>1. Cardinality(Waiting(w)) + Cardinality(Late(w, a, m)) <= (r - m) * Parallel
      BY <2>1, <2>6 DEF BatchOf
    <3> QED BY <2>3, <2>4, <2>5, <3>1
  <2>7. BatchOf(w, r, a)'
    BY <2>2, <2>4, <2>6 DEF BatchOf
  <2> QED BY <2>7
<1>8. \A v \in Worker : \E a \in Nat : BatchOf(v, r, a)'
  BY <1>6, <1>7
<1> QED BY <1>3, <1>4, <1>5, <1>8 DEF LeaseInv, Is

(* One unit of time: the batch gets older, its jobs in flight use up their *)
(* contexts at the same rate, and a new round begins only with every slot  *)
(* taken or nothing waiting.                                               *)
LEMMA PassBatch ==
  ASSUME TypeOK, NEW r \in Nat, r * Timeout < Lease, Pass, NEW w \in Worker, NEW a \in Nat,
         BatchOf(w, r, a)
  PROVE  BatchOf(w, r, a + 1)'
<1>1. /\ lane \in [Worker -> [Job -> Slot]] /\ Timeout \in Nat \ {0} /\ Lease \in Nat
      /\ Parallel \in Nat \ {0} /\ WorkLimit \in 0 .. Timeout
  BY QueueAssumption DEF TypeOK, Slot
<1>2. /\ queue' = [j \in DOMAIN queue |-> Less(queue[j])]
      /\ lane' = [v \in Worker |-> [j \in Job |-> [lane[v][j] EXCEPT !.left = Less(@)]]]
      /\ \A j \in Job : ~ Settling(w, j)
  BY DEF Pass
<1>3. ASSUME NEW j \in Job
      PROVE  /\ lane[w][j] \in Slot /\ lane[w][j].left \in 0 .. Timeout
             /\ lane'[w][j].step = lane[w][j].step
             /\ lane'[w][j].left = Less(lane[w][j].left)
  <2>1. lane[w][j] \in Slot /\ lane'[w][j] = [lane[w][j] EXCEPT !.left = Less(lane[w][j].left)]
    BY ONLY <1>1, <1>2, w \in Worker, j \in Job
  <2>2. lane[w][j].left \in 0 .. Timeout
    BY <2>1 DEF Slot
  <2> QED BY <2>1, <2>2 DEF Slot
<1>4. ASSUME NEW j \in InFlight(w)
      PROVE  /\ lane[w][j].left \in 1 .. Timeout
             /\ a + 1 + lane'[w][j].left = a + lane[w][j].left
  <2>1. j \in Job /\ lane[w][j].step \in Running
    BY DEF InFlight
  <2>2. lane[w][j].left > 0
    <3>1. CASE lane[w][j].step = "working"
      <4>1. ~ (lane[w][j].left <= Timeout - WorkLimit)
        BY <1>2, <2>1, <3>1 DEF Settling, Is
      <4> QED BY <1>1, <1>3, <2>1, <4>1
    <3>2. CASE lane[w][j].step # "working"
      BY <1>2, <2>1, <3>2 DEF Settling, Open
    <3> QED BY <3>1, <3>2
  <2>3. lane'[w][j].left = lane[w][j].left - 1
    BY <1>1, <1>3, <2>1, <2>2 DEF Less
  <2> QED BY <1>1, <1>3, <2>1, <2>2, <2>3
<1>5. Waiting(w)' = Waiting(w) /\ InFlight(w)' = InFlight(w)
  BY <1>3 DEF Waiting, InFlight, Is
<1>6. \A m : Late(w, a + 1, m)' = Late(w, a, m)
  BY <1>4, <1>5 DEF Late
<1>7. /\ IsFiniteSet(Waiting(w)) /\ IsFiniteSet(InFlight(w))
      /\ Cardinality(Waiting(w)) \in Nat /\ Cardinality(InFlight(w)) \in Nat
  BY FS_CardinalityType DEF BatchOf
<1>8. ASSUME NEW j \in Job, lane'[w][j].step \in Hand
      PROVE  j \in DOMAIN queue' /\ queue'[j] = Lease - (a + 1)
  <2>1. j \in DOMAIN queue /\ queue[j] = Lease - a /\ queue[j] > 0
    BY <1>3, <1>8, HeldNotDue
  <2> QED BY <1>1, <1>2, <2>1 DEF Less
<1>9. ASSUME NEW m \in 0 .. r, a + 1 > (m - 1) * Timeout
      PROVE  Cardinality(Waiting(w)) + Cardinality(Late(w, a, m)) <= (r - m) * Parallel
  <2>1. CASE a > (m - 1) * Timeout
    BY <2>1 DEF BatchOf
  <2>2. CASE ~ (a > (m - 1) * Timeout)
    <3>1. (m - 1) * Timeout \in Int /\ (m - 1) * Timeout = m * Timeout - Timeout
          /\ m * Timeout \in Int
      BY <1>1, Rounds
    <3>2. a = (m - 1) * Timeout /\ m * Timeout = a + Timeout
      <4> DEFINE x == (m - 1) * Timeout
                 y == m * Timeout
      <4>1. x \in Int /\ x = y - Timeout /\ y \in Int /\ a + 1 > x /\ ~ (a > x)
        BY <1>9, <2>2, <3>1
      <4> HIDE DEF x, y
      <4>2. a = x /\ y = a + Timeout
        BY <1>1, <4>1
      <4> QED BY <4>2 DEF x, y
    <3>3. m # 0
      <4>1. m = 0 => m * Timeout = 0
        BY <1>1
      <4> QED BY <1>1, <3>2, <4>1
    <3>4. Late(w, a, m) = {}
      <4>1. ASSUME NEW j \in InFlight(w) PROVE ~ (a + lane[w][j].left > m * Timeout)
        BY <1>1, <1>4, <3>2
      <4> QED BY <4>1 DEF Late
    <3>5. Cardinality(Late(w, a, m)) = 0
      BY <3>4, FS_EmptySet
    <3>6. (r - m) * Parallel \in Int /\ (r - m) * Parallel >= 0
          /\ (r - (m - 1)) * Parallel = (r - m) * Parallel + Parallel
      <4>1. r - m \in Int /\ r - m >= 0 /\ r - (m - 1) = (r - m) + 1
        OBVIOUS
      <4> DEFINE x == r - m
      <4> HIDE DEF x
      <4>2. x \in Int /\ x >= 0
        BY <4>1 DEF x
      <4>3. x * Parallel \in Int /\ x * Parallel >= 0 /\ (x + 1) * Parallel = x * Parallel + Parallel
        BY <1>1, <4>2, Rounds
      <4> QED BY <4>1, <4>3 DEF x
    <3>7. CASE Waiting(w) = {}
      <4>1. Cardinality(Waiting(w)) = 0
        BY <3>7, FS_EmptySet
      <4> QED BY <3>5, <3>6, <4>1
    <3>8. CASE Waiting(w) # {}
      <4>1. PICK j \in Job : Is(w, j, "waiting")
        BY <3>8 DEF Waiting
      <4>2. ~ (Cardinality(InFlight(w)) < Parallel)
        BY <1>2, <4>1 DEF Settling
      <4>3. Late(w, a, m - 1) = InFlight(w)
        <5>1. ASSUME NEW i \in InFlight(w) PROVE a + lane[w][i].left > (m - 1) * Timeout
          BY <1>1, <1>4, <3>2
        <5> QED BY <5>1 DEF Late
      <4>4. a > (m - 2) * Timeout
        <5>1. m - 1 \in Int /\ (m - 1) - 1 = m - 2
          OBVIOUS
        <5> DEFINE x == m - 1
        <5>2. x \in Int /\ x - 1 = m - 2 /\ a = x * Timeout
          BY <3>2, <5>1
        <5> HIDE DEF x
        <5>3. (x - 1) * Timeout = x * Timeout - Timeout /\ x * Timeout \in Int
          BY <1>1, <5>2, Rounds
        <5>4. (m - 2) * Timeout = a - Timeout
          BY <5>2, <5>3
        <5> QED BY <1>1, <5>4
      <4>5. Cardinality(Waiting(w)) + Cardinality(Late(w, a, m - 1)) <= (r - (m - 1)) * Parallel
        <5>1. m - 1 \in 0 .. r /\ (m - 1) - 1 = m - 2
          BY <3>3
        <5>2. \A i \in 0 .. r : a > (i - 1) * Timeout =>
                 Cardinality(Waiting(w)) + Cardinality(Late(w, a, i)) <= (r - i) * Parallel
          BY DEF BatchOf
        <5> DEFINE i == m - 1
        <5>3. i \in 0 .. r /\ a > (i - 1) * Timeout
          BY <4>4, <5>1
        <5> HIDE DEF i
        <5>4. Cardinality(Waiting(w)) + Cardinality(Late(w, a, i)) <= (r - i) * Parallel
          BY <5>2, <5>3
        <5> QED BY <5>4 DEF i
      <4> QED BY <1>1, <1>7, <3>5, <3>6, <4>2, <4>3, <4>5
    <3> QED BY <3>7, <3>8
  <2> QED BY <2>1, <2>2
<1>10. \A m \in 0 .. r : a + 1 > (m - 1) * Timeout =>
          Cardinality(Waiting(w)') + Cardinality(Late(w, a + 1, m)') <= (r - m) * Parallel
  BY <1>5, <1>6, <1>9
<1> QED BY <1>5, <1>7, <1>8, <1>10 DEF BatchOf

(* What a claim takes is due, so in nobody's hands.                        *)
LEMMA ClaimedNotHeld ==
  ASSUME TypeOK, NEW r \in Nat, r * Timeout < Lease, LeaseInv(r),
         NEW B \in DueBatches(queue, 0, Batch)
  PROVE  /\ B \subseteq DOMAIN queue
         /\ \A v \in Worker, j \in Job : lane[v][j].step # "out" => j \notin B
<1>1. B \subseteq DOMAIN queue /\ \A j \in B : queue[j] <= 0
  BY DEF DueBatches, Due
<1>2. ASSUME NEW v \in Worker, NEW j \in Job, lane[v][j].step # "out" PROVE j \notin B
  <2>1. lane[v][j].step \in Hand \/ lane[v][j].step = "clear"
    BY <1>2 DEF TypeOK, Hand
  <2>2. CASE lane[v][j].step = "clear"
    BY <1>1, <2>2 DEF LeaseInv, Is
  <2>3. CASE lane[v][j].step \in Hand
    <3>1. PICK a \in Nat : BatchOf(v, r, a)
      BY DEF LeaseInv
    <3>2. queue[j] > 0 /\ queue[j] = Lease - a
      BY <2>3, <3>1, HeldNotDue
    <3>3. Lease - a \in Int
      BY QueueAssumption
    <3> QED BY <1>1, <3>2, <3>3
  <2> QED BY <2>1, <2>2, <2>3
<1> QED BY <1>1, <1>2

(* A claimed batch fits into r rounds.                                     *)
LEMMA NewBatch ==
  ASSUME NEW r \in Nat, ShortBacklog(r), IsFiniteSet(DOMAIN queue),
         NEW B \in DueBatches(queue, 0, Batch)
  PROVE  IsFiniteSet(B) /\ Cardinality(B) \in Nat /\ Cardinality(B) <= r * Parallel
<1>1. B \in SUBSET Due(queue, 0) /\ Cardinality(B) <= Batch
  BY DEF DueBatches
<1>2. IsFiniteSet(Due(queue, 0)) /\ Cardinality(Due(queue, 0)) \in Nat
  <2>1. Due(queue, 0) \in SUBSET DOMAIN queue
    BY DEF Due
  <2> QED BY <2>1, FS_Subset, FS_CardinalityType
<1>3. IsFiniteSet(B) /\ Cardinality(B) \in Nat /\ Cardinality(B) <= Cardinality(Due(queue, 0))
  BY <1>1, <1>2, FS_Subset, FS_CardinalityType
<1>4. Batch \in Nat /\ r * Parallel \in Int
  BY QueueAssumption
<1> QED BY <1>1, <1>2, <1>3, <1>4 DEF ShortBacklog

(* Every step keeps every lease, while a claim fits into r rounds.         *)
LEMMA NextLease ==
  ASSUME NEW r \in Nat, r * Timeout < Lease, Inv, AllSeen, ShortBacklog(r), LeaseInv(r),
         [Next]_vars
  PROVE  LeaseInv(r)'
<1>1. /\ TypeOK /\ lane \in [Worker -> [Job -> Slot]] /\ IsZSet(queue, Job, Nat)
      /\ IsFiniteSet(DOMAIN queue)
      /\ \A v \in Worker, k \in Job : lane[v][k].step = "clear" => k \notin DOMAIN queue
      /\ LeasedToOneCaller
      /\ \A v \in Worker : \E a \in Nat : BatchOf(v, r, a)
  BY DEF Inv, TypeOK, Slot, LeaseInv, Is
<1>2. ASSUME lane' = lane, IsFiniteSet(DOMAIN queue'),
             \A k \in Job : (\E v \in Worker : lane[v][k].step # "out") =>
               /\ k \in DOMAIN queue => k \in DOMAIN queue' /\ queue'[k] = queue[k]
               /\ k \notin DOMAIN queue => k \notin DOMAIN queue'
      PROVE  LeaseInv(r)'
  <2>1. ASSUME NEW v \in Worker PROVE \E a \in Nat : BatchOf(v, r, a)'
    <3>1. PICK a \in Nat : BatchOf(v, r, a)
      BY <1>1
    <3>2. \A k \in Job : lane[v][k].step \in Hand => k \in DOMAIN queue' /\ queue'[k] = queue[k]
      BY <1>2, <3>1 DEF BatchOf, Hand
    <3> QED BY <1>2, <3>1, <3>2, BatchKept
  <2>2. \A v \in Worker, k \in Job : lane'[v][k].step = "clear" => k \notin DOMAIN queue'
    BY <1>1, <1>2
  <2>3. LeasedToOneCaller'
    BY <1>1, <1>2 DEF LeasedToOneCaller, Is
  <2> QED BY <1>2, <2>1, <2>2, <2>3 DEF LeaseInv, Is
<1>3. CASE UNCHANGED vars
  BY <1>1, <1>2, <1>3 DEF vars
<1>4. ASSUME NEW j \in Job, Enqueue(j) PROVE LeaseInv(r)'
  <2>1. j \notin seen /\ lane' = lane /\ queue' = ZAdd(queue, [k \in {j} |-> 0])
    BY <1>4 DEF Enqueue
  <2>2. \A v \in Worker : lane[v][j].step = "out"
    BY <2>1 DEF AllSeen, Is
  <2>3. DOMAIN queue' = DOMAIN queue \cup {j} /\ \A k \in DOMAIN queue : k # j => queue'[k] = queue[k]
    BY <2>1 DEF ZAdd
  <2>4. IsFiniteSet(DOMAIN queue')
    BY <1>1, <2>3, FS_AddElement
  <2> QED BY <1>2, <2>1, <2>2, <2>3, <2>4
<1>5. ASSUME NEW w \in Worker, Claim(w) \/ ClaimLost(w) PROVE LeaseInv(r)'
  <2> DEFINE c == [Out EXCEPT !.step = "waiting"]
  <2>1. PICK B \in DueBatches(queue, 0, Batch) :
          /\ queue' = ZAdd(queue, [j \in B |-> Lease])
          /\ \/ lane' = lane
             \/ /\ lane' = [lane EXCEPT ![w] = [j \in Job |-> IF j \in B THEN c ELSE @[j]]]
                /\ \A j \in Job : lane[w][j].step = "out"
    BY <1>5 DEF Claim, ClaimLost, Is
  <2>2. /\ B \subseteq DOMAIN queue
        /\ \A v \in Worker, j \in Job : lane[v][j].step # "out" => j \notin B
    BY <1>1, ClaimedNotHeld
  <2>3. /\ DOMAIN queue' = DOMAIN queue
        /\ \A k \in DOMAIN queue : k \notin B => queue'[k] = queue[k]
        /\ \A k \in B : queue'[k] = Lease
    BY <2>1, <2>2 DEF ZAdd
  <2>4. CASE lane' = lane
    BY <1>1, <1>2, <2>2, <2>3, <2>4
  <2>5. CASE /\ lane' = [lane EXCEPT ![w] = [j \in Job |-> IF j \in B THEN c ELSE @[j]]]
             /\ \A j \in Job : lane[w][j].step = "out"
    <3>1. c.step = "waiting"
      BY DEF Out
    <3> HIDE DEF c
    <3>2. /\ \A v \in Worker : v # w => lane'[v] = lane[v]
          /\ \A j \in Job : j \in B => lane'[w][j] = c
          /\ \A j \in Job : j \notin B => lane'[w][j] = lane[w][j]
      BY <1>1, <2>5
    <3>3. \A v \in Worker, k \in Job : lane'[v][k].step = "clear" => k \notin DOMAIN queue'
      BY <1>1, <2>3, <2>5, <3>1, <3>2
    <3>4. LeasedToOneCaller'
      BY <1>1, <2>2, <2>5, <3>2 DEF LeasedToOneCaller, Is
    <3>5. ASSUME NEW v \in Worker, v # w PROVE \E a \in Nat : BatchOf(v, r, a)'
      <4>1. PICK a \in Nat : BatchOf(v, r, a)
        BY <1>1
      <4>2. \A k \in Job : lane[v][k].step \in Hand => k \in DOMAIN queue' /\ queue'[k] = queue[k]
        BY <2>2, <2>3, <4>1 DEF BatchOf, Hand
      <4> QED BY <3>2, <3>5, <4>1, <4>2, BatchKept
    <3>6. BatchOf(w, r, 0)'
      <4>1. Waiting(w)' = B
        <5>1. B \subseteq Job
          BY <1>1, <2>2 DEF IsZSet
        <5> QED BY <2>5, <3>1, <3>2, <5>1 DEF Waiting, Is
      <4>2. InFlight(w)' = {}
        BY <2>5, <3>1, <3>2 DEF InFlight
      <4>3. \A m : Late(w, 0, m)' = {}
        BY <4>2 DEF Late
      <4>4. IsFiniteSet(B) /\ Cardinality(B) \in Nat /\ Cardinality(B) <= r * Parallel
        BY <1>1, NewBatch
      <4>5. ASSUME NEW m \in 0 .. r, 0 > (m - 1) * Timeout
            PROVE  Cardinality(Waiting(w)') + Cardinality(Late(w, 0, m)') <= (r - m) * Parallel
        <5>1. m = 0
          <6>1. CASE m - 1 >= 0
            <7> DEFINE x == m - 1
            <7>1. x \in Int /\ x >= 0 /\ 0 > x * Timeout
              BY <4>5, <6>1
            <7> HIDE DEF x
            <7> QED BY <7>1, QueueAssumption, Rounds
          <6> QED BY <6>1
        <5>2. (r - m) * Parallel = r * Parallel
          BY <5>1
        <5>3. Cardinality(Late(w, 0, m)') = 0
          BY <4>3, FS_EmptySet
        <5> QED BY <4>1, <4>4, <5>2, <5>3
      <4>6. \A j \in Job : lane'[w][j].step \in Hand => j \in DOMAIN queue' /\ queue'[j] = Lease - 0
        <5>1. Lease - 0 = Lease
          BY QueueAssumption
        <5> QED BY <2>2, <2>3, <2>5, <3>2, <5>1 DEF Hand
      <4> QED BY <4>1, <4>2, <4>4, <4>5, <4>6, FS_EmptySet DEF BatchOf
    <3>7. \A v \in Worker : \E a \in Nat : BatchOf(v, r, a)'
      BY <3>5, <3>6
    <3>8. IsFiniteSet(DOMAIN queue)'
      BY <1>1, <2>3
    <3> QED BY <3>3, <3>4, <3>7, <3>8 DEF LeaseInv, Is
  <2> QED BY <2>1, <2>4, <2>5
<1>6. ASSUME NEW w \in Worker, Crash(w) PROVE LeaseInv(r)'
  <2>1. lane' = [lane EXCEPT ![w] = [j \in Job |-> Out]] /\ UNCHANGED queue /\ Out.step = "out"
    BY <1>6 DEF Crash, Out
  <2>2. /\ \A v \in Worker : v # w => lane'[v] = lane[v]
        /\ \A j \in Job : lane'[w][j].step = "out"
    BY <1>1, <2>1
  <2>3. BatchOf(w, r, 0)'
    <3>1. Waiting(w)' = {} /\ InFlight(w)' = {} /\ \A m : Late(w, 0, m)' = {}
      BY <2>2 DEF Waiting, InFlight, Late, Is
    <3>2. ASSUME NEW m \in 0 .. r
          PROVE  Cardinality(Waiting(w)') + Cardinality(Late(w, 0, m)') <= (r - m) * Parallel
      <4>1. Cardinality(Waiting(w)') = 0 /\ Cardinality(Late(w, 0, m)') = 0
        BY <3>1, FS_EmptySet
      <4>2. 0 <= (r - m) * Parallel
        BY QueueAssumption, Rounds
      <4> QED BY <4>1, <4>2
    <3>3. \A j \in Job : lane'[w][j].step \notin Hand
      BY <2>2 DEF Hand
    <3> QED BY <3>1, <3>2, <3>3, FS_EmptySet DEF BatchOf
  <2>4. ASSUME NEW v \in Worker, v # w PROVE \E a \in Nat : BatchOf(v, r, a)'
    <3>1. PICK a \in Nat : BatchOf(v, r, a)
      BY <1>1
    <3>2. \A k \in Job : lane[v][k].step \in Hand => k \in DOMAIN queue' /\ queue'[k] = queue[k]
      BY <2>1, <3>1 DEF BatchOf
    <3> QED BY <2>2, <2>4, <3>1, <3>2, BatchKept
  <2>5. \A v \in Worker : \E a \in Nat : BatchOf(v, r, a)'
    BY <2>3, <2>4
  <2>6. LeasedToOneCaller' /\ IsFiniteSet(DOMAIN queue)'
    BY <1>1, <2>1, <2>2 DEF LeasedToOneCaller, Is
  <2>7. \A v \in Worker, k \in Job : lane'[v][k].step = "clear" => k \notin DOMAIN queue'
    BY <1>1, <2>1, <2>2
  <2> QED BY <2>5, <2>6, <2>7 DEF LeaseInv, Is
<1>7. ASSUME Pass PROVE LeaseInv(r)'
  <2>1. \A v \in Worker : \E a \in Nat : BatchOf(v, r, a)'
    <3> SUFFICES ASSUME NEW v \in Worker PROVE \E a \in Nat : BatchOf(v, r, a)'
      OBVIOUS
    <3>1. PICK a \in Nat : BatchOf(v, r, a)
      BY <1>1
    <3>2. BatchOf(v, r, a + 1)' /\ a + 1 \in Nat
      BY <1>1, <1>7, <3>1, PassBatch
    <3> DEFINE b == a + 1
    <3>3. BatchOf(v, r, b)' /\ b \in Nat
      BY <3>2
    <3> HIDE DEF b
    <3> QED BY <3>3
  <2>2. DOMAIN queue' = DOMAIN queue
    BY <1>7 DEF Pass
  <2>3. ASSUME NEW v \in Worker, NEW k \in Job PROVE lane'[v][k].step = lane[v][k].step
    <3>0. lane' = [w \in Worker |-> [j \in Job |-> [lane[w][j] EXCEPT !.left = Less(@)]]]
      BY <1>7 DEF Pass
    <3>1. lane[v][k] \in Slot /\ lane'[v][k] = [lane[v][k] EXCEPT !.left = Less(lane[v][k].left)]
      BY ONLY <1>1, <3>0, v \in Worker, k \in Job
    <3> QED BY <3>1 DEF Slot
  <2>4. LeasedToOneCaller' /\ IsFiniteSet(DOMAIN queue)'
    BY <1>1, <2>2, <2>3 DEF LeasedToOneCaller, Is
  <2>5. \A v \in Worker, k \in Job : lane'[v][k].step = "clear" => k \notin DOMAIN queue'
    BY <1>1, <2>2, <2>3
  <2> QED BY <2>1, <2>4, <2>5 DEF LeaseInv, Is
<1>8. ASSUME NEW w \in Worker, NEW j \in Job,
             \/ Start(w, j)
             \/ \E how \in {"delivered", "dropped"} : WorkEnds(w, j, how)
             \/ WorkFails(w, j)
             \/ Bump(w, j) \/ BumpLost(w, j) \/ Reschedule(w, j)
             \/ DoneRemove(w, j) \/ DoneClear(w, j)
             \/ CommandFails(w, j)
      PROVE  LeaseInv(r)'
  <2> DEFINE l == lane[w][j]
  <2>1. l \in Slot /\ Out.step = "out"
    BY <1>1 DEF Out
  <2>2. l.step \in Hand => j \in DOMAIN queue
    BY <1>1 DEF BatchOf
  <2>3. CASE Start(w, j)
    <3> DEFINE d == [step |-> "working", left |-> Timeout, n |-> 0]
    <3>1. /\ d.step = "working" /\ lane' = [lane EXCEPT ![w][j] = d]
          /\ UNCHANGED queue /\ Is(w, j, "waiting")
      BY <2>3 DEF Start
    <3> HIDE DEF d
    <3>2. LaneStep(w, j, d)
      BY <3>1 DEF LaneStep, Hand, Is
    <3> QED BY <1>1, <3>2, OneLane
  <2>4. ASSUME NEW s \in {"failed", "ack"}, Goto(w, j, s), UNCHANGED queue, l.step = "working"
        PROVE  LeaseInv(r)'
    <3> DEFINE d == [l EXCEPT !.step = s]
    <3>1. /\ d.step = s /\ d.left = l.left /\ lane' = [lane EXCEPT ![w][j] = d]
      BY <2>1, <2>4 DEF Goto, Slot
    <3> HIDE DEF d
    <3>2. LaneStep(w, j, d)
      BY <2>4, <3>1 DEF LaneStep, Hand, Is
    <3> QED BY <1>1, <3>2, OneLane
  <2>5. CASE Bump(w, j)
    <3>0. PICK s \in {"ack", "counted"} :
            \E n : lane' = [lane EXCEPT ![w][j].step = s, ![w][j].n = n]
      BY <2>5 DEF Bump
    <3>1. PICK n : lane' = [lane EXCEPT ![w][j].step = s, ![w][j].n = n]
      BY <3>0
    <3> DEFINE e == [l EXCEPT !.step = s]
               d == [e EXCEPT !.n = n]
    <3>2. lane' = [lane EXCEPT ![w][j] = d]
      BY <1>1, <3>1
    <3>3. e \in Slot /\ e.step = s /\ e.left = l.left
      BY <2>1 DEF Slot
    <3> HIDE DEF e
    <3>4. d.step = s /\ d.left = l.left
      BY <3>3 DEF Slot
    <3> HIDE DEF d
    <3>5. l.step = "failed" /\ UNCHANGED queue
      BY <2>5 DEF Bump, Is
    <3>6. LaneStep(w, j, d)
      BY <3>2, <3>4, <3>5 DEF LaneStep, Hand, Is
    <3> QED BY <1>1, <3>6, OneLane
  <2>6. CASE BumpLost(w, j) \/ DoneClear(w, j) \/ CommandFails(w, j)
    <3>1. l.step # "out" /\ lane' = [lane EXCEPT ![w][j] = Out] /\ UNCHANGED queue
      BY <2>6 DEF BumpLost, DoneClear, CommandFails, Leave, Is
    <3>2. LaneStep(w, j, Out)
      BY <2>1, <3>1 DEF LaneStep, Hand, Is
    <3> QED BY <1>1, <3>2, OneLane
  <2>7. CASE Reschedule(w, j)
    <3>1. /\ l.step = "counted" /\ lane' = [lane EXCEPT ![w][j] = Out]
          /\ queue' = ZAdd(queue, [k \in {j} |-> Backoff[l.n]])
      BY <2>7 DEF Reschedule, Leave, Is
    <3>2. j \in DOMAIN queue
      BY <2>2, <3>1 DEF Hand
    <3>3. DOMAIN queue' = DOMAIN queue /\ \A k \in DOMAIN queue : k # j => queue'[k] = queue[k]
      BY <3>1, <3>2 DEF ZAdd
    <3>4. LaneStep(w, j, Out)
      BY <2>1, <3>1, <3>3 DEF LaneStep, Hand, Is
    <3> QED BY <1>1, <3>4, OneLane
  <2>8. CASE DoneRemove(w, j)
    <3> DEFINE d == [l EXCEPT !.step = "clear"]
    <3>1. /\ l.step = "ack" /\ queue' = ZRem(queue, {j})
          /\ d.step = "clear" /\ d.left = l.left /\ lane' = [lane EXCEPT ![w][j] = d]
      BY <2>1, <2>8 DEF DoneRemove, Goto, Is, Slot
    <3> HIDE DEF d
    <3>2. DOMAIN queue' = DOMAIN queue \ {j} /\ \A k \in DOMAIN queue : k # j => queue'[k] = queue[k]
      BY <3>1 DEF ZRem
    <3>3. LaneStep(w, j, d)
      BY <3>1, <3>2 DEF LaneStep, Hand, Is
    <3> QED BY <1>1, <3>3, OneLane
  <2> QED BY <1>8, <2>3, <2>4, <2>5, <2>6, <2>7, <2>8 DEF WorkEnds, WorkFails, Is
<1> QED BY <1>3, <1>4, <1>5, <1>6, <1>7, <1>8 DEF Next

(* No step puts a removed job back: only a goroutine that holds its lease  *)
(* reschedules it, and its job is in the queue.                            *)
LEMMA StaysRemoved ==
  ASSUME NEW r \in Nat, Inv, LeaseInv(r), [Next]_vars
  PROVE  [\A j \in seen \ DOMAIN queue : j \notin DOMAIN queue']_vars
<1> SUFFICES ASSUME Next, NEW k \in seen \ DOMAIN queue PROVE k \notin DOMAIN queue'
  OBVIOUS
<1>1. k \in Job
  BY DEF Inv, TypeOK
<1>2. ASSUME NEW w \in Worker, Claim(w) \/ ClaimLost(w) PROVE k \notin DOMAIN queue'
  <2>1. PICK B \in DueBatches(queue, 0, Batch) : queue' = ZAdd(queue, [j \in B |-> Lease])
    BY <1>2 DEF Claim, ClaimLost
  <2> QED BY <2>1 DEF DueBatches, Due, ZAdd
<1>3. ASSUME NEW w \in Worker, NEW j \in Job, Reschedule(w, j) PROVE k \notin DOMAIN queue'
  <2>1. lane[w][j].step \in Hand
    BY <1>3 DEF Reschedule, Is, Hand
  <2>2. j \in DOMAIN queue
    BY <2>1 DEF LeaseInv, BatchOf
  <2> QED BY <1>3, <2>2 DEF Reschedule, ZAdd
<1>4. ASSUME UNCHANGED queue \/ DOMAIN queue' \subseteq DOMAIN queue PROVE k \notin DOMAIN queue'
  BY <1>4
<1>5. ASSUME NEW j \in Job, Enqueue(j) PROVE k \notin DOMAIN queue'
  BY <1>5 DEF Enqueue, ZAdd
<1>6. ASSUME NEW w \in Worker, NEW j \in Job,
             \/ Start(w, j)
             \/ \E how \in {"delivered", "dropped"} : WorkEnds(w, j, how)
             \/ WorkFails(w, j) \/ Bump(w, j) \/ BumpLost(w, j)
             \/ DoneRemove(w, j) \/ DoneClear(w, j) \/ CommandFails(w, j)
      PROVE  k \notin DOMAIN queue'
  BY <1>6 DEF Start, WorkEnds, WorkFails, Bump, BumpLost, DoneRemove, DoneClear, CommandFails, ZRem
<1>7. ASSUME NEW w \in Worker, Crash(w) PROVE k \notin DOMAIN queue'
  BY <1>7 DEF Crash
<1>8. CASE Pass
  BY <1>8 DEF Pass
<1> QED BY <1>2, <1>3, <1>5, <1>6, <1>7, <1>8 DEF Next

(* While every claim fits into r rounds of Parallel jobs, and r timeouts   *)
(* into a lease, the lease invariant holds.                                *)
LEMMA LeaseInvariance ==
  ASSUME NEW r \in Nat, r * Timeout < Lease
  PROVE  Spec /\ []ShortBacklog(r) => [](Inv /\ LeaseInv(r))
<1>1. Init => LeaseInv(r)
  BY InitLease
<1>2. Inv /\ AllSeen /\ ShortBacklog(r) /\ LeaseInv(r) /\ [Next]_vars => LeaseInv(r)'
  BY NextLease
<1> QED BY <1>1, <1>2, InitQueue, NextQueue, InitSeen, NextSeen, PTL DEF Spec

(* "every job is leased to one caller" (queue.go 166): as long as no claim *)
(* can take more than r rounds of Parallel jobs and r timeouts are over    *)
(* before the lease is, no two workers have the same job in hand, whoever  *)
(* crashes and whichever commands fail.                                    *)
THEOREM LeaseHolds ==
  ASSUME NEW r \in Nat, r * Timeout < Lease
  PROVE  Spec /\ []ShortBacklog(r) => []LeasedToOneCaller
<1>1. LeaseInv(r) => LeasedToOneCaller
  BY DEF LeaseInv
<1> QED BY <1>1, LeaseInvariance, PTL

(* Under the same premise a job that has been removed stays removed: no    *)
(* worker puts it back, so its Work is not run again (queue.go 206-237).   *)
THEOREM RemovedForGood ==
  ASSUME NEW r \in Nat, r * Timeout < Lease
  PROVE  Spec /\ []ShortBacklog(r) => RemovedStaysRemoved
<1>1. Inv /\ LeaseInv(r) /\ [Next]_vars => [\A j \in seen \ DOMAIN queue : j \notin DOMAIN queue']_vars
  BY StaysRemoved
<1> QED BY <1>1, LeaseInvariance, PTL DEF Spec, RemovedStaysRemoved

(* A claim whose limit fits into the lease needs no premise on the load:   *)
(* with `limit` at most r * parallel the lease would be one caller's.      *)
THEOREM LimitWithinLease ==
  ASSUME NEW r \in Nat, r * Timeout < Lease, Batch <= r * Parallel
  PROVE  Spec => []LeasedToOneCaller /\ RemovedStaysRemoved
<1>1. ShortBacklog(r)
  BY DEF ShortBacklog
<1> QED BY <1>1, LeaseHolds, RemovedForGood, PTL
=============================================================================
