---------------------------- MODULE ServerProofs -----------------------------
(***************************************************************************)
(* Any number of replicas, workers, workflows, requests and pings: what a  *)
(* process has when it serves, and what it still has while its work ends.  *)
(* The invariant says, for each stage of run(), which deferred closes are  *)
(* on the stack, which goroutines run and what start-up has left in the    *)
(* stores; a close takes only the top of the stack.  What ensureIndex      *)
(* leaves is the invariant of SearchIndexProofs: every step of a replica   *)
(* is a step of the index or leaves it alone.                              *)
(***************************************************************************)
EXTENDS Server, SearchIndexProofs, SequenceTheorems

BeforeClients == {"down", "config", "otel"}
WithClients   == {"files", "templates", "index", "table", "engine", "metrics"}
WithLoops     == {"loops", "serving", "drain", "await"}
AtWork        == {"serving", "drain", "await", "close"}

NoClose    == <<>>
OtelClose  == Append(NoClose, "otel")
RedisClose == Append(OtelClose, "redis")
StoreClose == Append(RedisClose, "postgres")
AllClose   == Append(StoreClose, "metrics")
Stacks     == {NoClose, OtelClose, RedisClose, StoreClose, AllClose}

Held(d) == {d[i] : i \in DOMAIN d}

(* The deferred closes of each stage, in the order of their defers.        *)
DefersOfStage ==
  /\ defers \in [Process -> Stacks]
  /\ \A p \in Process :
     /\ pc[p] \in BeforeClients => defers[p] = NoClose
     /\ pc[p] = "redis" => defers[p] = OtelClose
     /\ pc[p] = "postgres" => defers[p] = RedisClose
     /\ pc[p] \in WithClients => defers[p] = StoreClose
     /\ pc[p] \in WithLoops => defers[p] \in {StoreClose, AllClose}

(* What runs beside run() in each stage.                                   *)
WorkOfStage ==
  \A p \in Process :
    /\ pc[p] \notin AtWork =>
         handlers[p] = 0 /\ \A w \in Worker : worker[p][w] = "off"
    /\ pc[p] \in {"serving", "drain"} => \A w \in Worker : worker[p][w] # "off"
    /\ pc[p] = "await" => (handlers[p] > 0 => overran[p])
    /\ pc[p] = "close" =>
         \/ outcome[p] = "error"
         \/ (\A w \in Worker : worker[p][w] = "off") /\ (handlers[p] > 0 => overran[p])
    /\ \A w \in Worker : worker[p][w] = "tick" => jobs[p][w] > 0

(* What a stage that has been passed leaves in the stores.                 *)
StoresOfStage ==
  \A p \in Process :
    /\ pc[p] \in {"index", "table", "engine", "metrics"} \cup WithLoops => templates = Workflow
    /\ pc[p] \in {"table", "engine", "metrics"} \cup WithLoops => step[p] = "done"
    /\ pc[p] \in {"engine", "metrics"} \cup WithLoops => table

ServerInv == TypeOK /\ DefersOfStage /\ WorkOfStage /\ StoresOfStage

-----------------------------------------------------------------------------
(* Append of a close, and SubSeq taking it away again.                     *)
LEMMA PushPop ==
  ASSUME NEW d \in Seq(Closer), NEW c \in Closer
  PROVE  /\ Append(d, c) \in Seq(Closer) /\ Len(Append(d, c)) = Len(d) + 1
         /\ \A i \in 1 .. Len(d) : Append(d, c)[i] = d[i]
         /\ Append(d, c)[Len(d) + 1] = c
         /\ SubSeq(Append(d, c), 1, Len(Append(d, c)) - 1) = d
<1> DEFINE a == Append(d, c)
<1>1. /\ a \in Seq(Closer) /\ Len(a) = Len(d) + 1
      /\ \A i \in 1 .. Len(d) : a[i] = d[i]
      /\ a[Len(d) + 1] = c
  BY AppendProperties
<1> HIDE DEF a
<1> DEFINE b == SubSeq(a, 1, Len(d))
<1>2. Len(d) \in Nat
  OBVIOUS
<1>3. \A i \in 1 .. Len(d) : a[i] \in Closer
  BY <1>1, ElementOfSeq
<1>4. b \in Seq(Closer) /\ Len(b) = Len(d) /\ \A i \in 1 .. Len(d) : b[i] = d[i]
  BY <1>1, <1>2, <1>3, SubSeqProperties
<1> HIDE DEF b
<1>5. b = d
  BY <1>4, SeqEqual
<1>6. Len(a) - 1 = Len(d)
  BY <1>1, <1>2
<1> QED BY <1>1, <1>5, <1>6 DEF a, b

(* What a stack holds once another close is on it.                         *)
LEMMA PushHolds ==
  ASSUME NEW d \in Seq(Closer), NEW c \in Closer
  PROVE  Held(d) \cup {c} \subseteq Held(Append(d, c))
<1>1. Len(d) \in Nat
  OBVIOUS
<1>2. DOMAIN d = 1 .. Len(d) /\ DOMAIN Append(d, c) = 1 .. Len(d) + 1
  BY PushPop
<1>3. ASSUME NEW i \in DOMAIN d PROVE d[i] \in Held(Append(d, c))
  <2>1. i \in DOMAIN Append(d, c) /\ Append(d, c)[i] = d[i]
    BY <1>1, <1>2, <1>3, PushPop
  <2> QED BY <2>1 DEF Held
<1>4. c \in Held(Append(d, c))
  <2>1. Len(d) + 1 \in DOMAIN Append(d, c) /\ Append(d, c)[Len(d) + 1] = c
    BY <1>1, <1>2, PushPop
  <2> QED BY <2>1 DEF Held
<1> QED BY <1>3, <1>4 DEF Held

(* The names of the closes.                                                *)
LEMMA Closers ==
  /\ "otel" \in Closer /\ "redis" \in Closer
  /\ "postgres" \in Closer /\ "metrics" \in Closer
BY DEF Closer

(* The five stacks are sequences of closes.                                *)
LEMMA StackTyped ==
  /\ NoClose \in Seq(Closer) /\ OtelClose \in Seq(Closer) /\ RedisClose \in Seq(Closer)
  /\ StoreClose \in Seq(Closer) /\ AllClose \in Seq(Closer)
<1>1. NoClose \in Seq(Closer)  BY DEF NoClose
<1>2. OtelClose \in Seq(Closer)  BY <1>1, Closers, PushPop DEF OtelClose
<1>3. RedisClose \in Seq(Closer)  BY <1>2, Closers, PushPop DEF RedisClose
<1>4. StoreClose \in Seq(Closer)  BY <1>3, Closers, PushPop DEF StoreClose
<1>5. AllClose \in Seq(Closer)  BY <1>4, Closers, PushPop DEF AllClose
<1> QED BY <1>1, <1>2, <1>3, <1>4, <1>5

(* What TypeOK says of a stack.                                            *)
LEMMA StackBounded ==
  ASSUME NEW d \in Stacks PROVE d \in Seq(Closer) /\ Len(d) <= 4
<1>1. Len(NoClose) <= 0  BY DEF NoClose
<1>2. Len(OtelClose) <= 1  BY <1>1, Closers, StackTyped, PushPop DEF OtelClose
<1>3. Len(RedisClose) <= 2  BY <1>2, Closers, StackTyped, PushPop DEF RedisClose
<1>4. Len(StoreClose) <= 3  BY <1>3, Closers, StackTyped, PushPop DEF StoreClose
<1>5. Len(AllClose) <= 4  BY <1>4, Closers, StackTyped, PushPop DEF AllClose
<1>6. d \in Seq(Closer)  BY StackTyped DEF Stacks
<1>7. CASE d = NoClose  BY <1>1, <1>6, <1>7
<1>8. CASE d = OtelClose  BY <1>2, <1>6, <1>8
<1>9. CASE d = RedisClose  BY <1>3, <1>6, <1>9
<1>10. CASE d = StoreClose  BY <1>4, <1>6, <1>10
<1>11. CASE d = AllClose  BY <1>5, <1>6, <1>11
<1> QED BY <1>7, <1>8, <1>9, <1>10, <1>11 DEF Stacks

(* A close takes the last one away.                                        *)
LEMMA StackShrinks ==
  ASSUME NEW d \in Stacks, d # <<>> PROVE SubSeq(d, 1, Len(d) - 1) \in Stacks
<1>1. SubSeq(OtelClose, 1, Len(OtelClose) - 1) = NoClose
  BY Closers, PushPop, StackTyped DEF OtelClose
<1>2. SubSeq(RedisClose, 1, Len(RedisClose) - 1) = OtelClose
  BY Closers, PushPop, StackTyped DEF RedisClose
<1>3. SubSeq(StoreClose, 1, Len(StoreClose) - 1) = RedisClose
  BY Closers, PushPop, StackTyped DEF StoreClose
<1>4. SubSeq(AllClose, 1, Len(AllClose) - 1) = StoreClose
  BY Closers, PushPop, StackTyped DEF AllClose
<1>5. d = OtelClose \/ d = RedisClose \/ d = StoreClose \/ d = AllClose
  BY DEF Stacks, NoClose
<1> QED BY <1>1, <1>2, <1>3, <1>4, <1>5 DEF Stacks

(* Both stacks with the stores' closes hold all three of the clients.      *)
LEMMA StackHolds ==
  ASSUME NEW p \in Process, defers[p] \in {StoreClose, AllClose}
  PROVE  {"otel", "redis", "postgres"} \subseteq Open(p)
<1>1. "otel" \in Held(OtelClose)
  BY Closers, PushHolds, StackTyped DEF OtelClose
<1>2. {"otel", "redis"} \subseteq Held(RedisClose)
  BY <1>1, Closers, PushHolds, StackTyped DEF RedisClose
<1>3. {"otel", "redis", "postgres"} \subseteq Held(StoreClose)
  BY <1>2, Closers, PushHolds, StackTyped DEF StoreClose
<1>4. {"otel", "redis", "postgres"} \subseteq Held(AllClose)
  BY <1>3, Closers, PushHolds, StackTyped DEF AllClose
<1> QED BY <1>3, <1>4 DEF Open, Held

(* The initial states: every process is down and has nothing.              *)
LEMMA ServerInitInv == ASSUME Init PROVE ServerInv
<1> USE ServerAssumption
<1>1. DefersOfStage
  BY DEF Init, DefersOfStage, Stacks, BeforeClients, WithClients, WithLoops, NoClose
<1>2. IndexTypeOK
  BY IndexInitInv DEF Init, IndexInv
<1>3. \A p \in Process : defers[p] \in Seq(Closer) /\ Len(defers[p]) <= 4
  BY <1>1, StackBounded DEF DefersOfStage
<1>4. \A p \in Process : 0 \in 0 .. MaxAttempts - 1 /\ 0 \in 0 .. Batch /\ 0 \in 0 .. MaxHandler
  OBVIOUS
<1>5. TypeOK
  BY <1>2, <1>3, <1>4 DEF Init, TypeOK
<1>6. WorkOfStage /\ StoresOfStage
  BY DEF Init, WorkOfStage, StoresOfStage, AtWork, WithLoops
<1> QED BY <1>1, <1>5, <1>6 DEF ServerInv

(* The types of the index, whatever the releases want.                     *)
LEMMA IndexTypesKept ==
  ASSUME IndexTypeOK, NEW p \in Process, Begin(p) \/ EnsureStep(p) \/ EnsureFails(p)
  PROVE  IndexTypeOK'
<1> USE SchemaAssumption DEF IndexTypeOK, Command, Goto
<1>1. CASE Begin(p)  BY <1>1 DEF Begin
<1>2. CASE GetVersion(p)  BY <1>2 DEF GetVersion
<1>3. CASE Info(p)  BY <1>3 DEF Info
<1>4. CASE DropIndex(p)  BY <1>4 DEF DropIndex
<1>5. CASE CreateIndex(p)  BY <1>5 DEF CreateIndex, Created
<1>6. CASE SetVersion(p)  BY <1>6 DEF SetVersion
<1>7. CASE EnsureFails(p)  BY <1>7 DEF EnsureFails, Created
<1> QED BY <1>1, <1>2, <1>3, <1>4, <1>5, <1>6, <1>7 DEF EnsureStep

(* Of the processes only the one that moves goes on in ensureIndex.        *)
LEMMA OthersStayInIndex ==
  ASSUME IndexTypeOK, NEW p \in Process, Begin(p) \/ EnsureStep(p) \/ EnsureFails(p)
  PROVE  /\ DOMAIN step' = Process
         /\ \A q \in Process : q # p => step'[q] = step[q]
BY DEF IndexTypeOK, Begin, EnsureStep, EnsureFails, GetVersion, Info, DropIndex,
       CreateIndex, SetVersion, Goto

(* A stage that ends in another before the server listens has no work      *)
(* beside it.                                                              *)
LEMMA NoWorkYet ==
  ASSUME TypeOK, WorkOfStage, NEW p \in Process, NEW s, pc[p] \notin AtWork, s \notin AtWork,
         To(p, s), UNCHANGED <<loops, handlers, overran, outcome>>
  PROVE  WorkOfStage'
BY DEF TypeOK, WorkOfStage, To, loops, AtWork

(* The stages of start-up up to the loops: each passes on what it found    *)
(* and adds its own client, templates, index or table.                     *)
LEMMA StagesKeep ==
  ASSUME ServerInv, NEW p \in Process,
         \/ LoadConfig(p) \/ SetupOtel(p) \/ DBConnect(p) \/ ConnectPostgres(p) \/ PingFails(p)
         \/ LoadFiles(p) \/ TemplatesStored(p) \/ IndexStep(p) \/ CreateTable(p)
         \/ (\E wf \in Workflow \ templates : StoreTemplate(p, wf))
         \/ StartEngine(p) \/ ListenMetrics(p)
  PROVE  ServerInv'
<1> USE ServerAssumption
<1>0. TypeOK /\ DefersOfStage /\ WorkOfStage /\ StoresOfStage
  BY DEF ServerInv
<1>1. CASE LoadConfig(p)
  <2>1. WorkOfStage'
    BY <1>0, <1>1, NoWorkYet DEF LoadConfig, Stage, To, AtWork
  <2>2. DefersOfStage'
    BY <1>0, <1>1 DEF LoadConfig, Stage, To, DefersOfStage, TypeOK,
       BeforeClients, WithClients, WithLoops, Stacks
  <2>3. StoresOfStage'
    BY <1>0, <1>1 DEF LoadConfig, Stage, To, StoresOfStage, TypeOK, indexVars, WithLoops
  <2>4. TypeOK'
    BY <1>0, <1>1, <2>2, StackBounded DEF LoadConfig, Stage, To, DefersOfStage, TypeOK,
       Startup, loops, indexVars, IndexTypeOK
  <2> QED BY <2>1, <2>2, <2>3, <2>4 DEF ServerInv
<1>2. CASE SetupOtel(p)
  <2>1. WorkOfStage'
    BY <1>0, <1>2, NoWorkYet DEF SetupOtel, Stage, To, AtWork
  <2>2. DefersOfStage'
    BY <1>0, <1>2 DEF SetupOtel, Stage, To, Defer, OtelClose, DefersOfStage, TypeOK,
       BeforeClients, WithClients, WithLoops, Stacks
  <2>3. StoresOfStage'
    BY <1>0, <1>2 DEF SetupOtel, Stage, To, StoresOfStage, TypeOK, indexVars, WithLoops
  <2>4. TypeOK'
    BY <1>0, <1>2, <2>2, StackBounded DEF SetupOtel, Stage, To, DefersOfStage, TypeOK,
       Startup, loops, indexVars, IndexTypeOK
  <2> QED BY <2>1, <2>2, <2>3, <2>4 DEF ServerInv
<1>3. CASE DBConnect(p)
  <2>1. WorkOfStage'
    BY <1>0, <1>3, NoWorkYet DEF DBConnect, Stage, To, AtWork
  <2>2. DefersOfStage'
    BY <1>0, <1>3 DEF DBConnect, Stage, To, Defer, RedisClose, DefersOfStage, TypeOK,
       BeforeClients, WithClients, WithLoops, Stacks
  <2>3. StoresOfStage'
    BY <1>0, <1>3 DEF DBConnect, Stage, To, StoresOfStage, TypeOK, indexVars, WithLoops
  <2>4. TypeOK'
    BY <1>0, <1>3, <2>2, StackBounded DEF DBConnect, Stage, To, DefersOfStage, TypeOK,
       Startup, loops, indexVars, IndexTypeOK
  <2> QED BY <2>1, <2>2, <2>3, <2>4 DEF ServerInv
<1>4. CASE ConnectPostgres(p)
  <2>0. 0 \in 0 .. MaxAttempts - 1
    OBVIOUS
  <2>1. WorkOfStage'
    BY <1>0, <1>4, NoWorkYet DEF ConnectPostgres, Stage, To, AtWork
  <2>2. DefersOfStage'
    BY <1>0, <1>4
       DEF ConnectPostgres, Stage, To, Defer, StoreClose, DefersOfStage, TypeOK,
       BeforeClients, WithClients, WithLoops, Stacks
  <2>3. StoresOfStage'
    BY <1>0, <1>4
       DEF ConnectPostgres, Stage, To, StoresOfStage, TypeOK, indexVars, WithLoops
  <2>4. TypeOK'
    BY <1>0, <1>4, <2>2, <2>0, StackBounded
       DEF ConnectPostgres, Stage, To, DefersOfStage, TypeOK,
       Startup, loops, indexVars, IndexTypeOK
  <2> QED BY <2>1, <2>2, <2>3, <2>4 DEF ServerInv
<1>5. CASE PingFails(p)
  <2>1. WorkOfStage'
    BY <1>0, <1>5, NoWorkYet DEF PingFails, Stage, To, AtWork
  <2>2. DefersOfStage'
    BY <1>0, <1>5 DEF PingFails, Stage, To, DefersOfStage, TypeOK,
       BeforeClients, WithClients, WithLoops, Stacks
  <2>3. StoresOfStage'
    BY <1>0, <1>5 DEF PingFails, Stage, To, StoresOfStage, TypeOK, indexVars, WithLoops
  <2>4. TypeOK'
    BY <1>0, <1>5, <2>2, StackBounded DEF PingFails, Stage, To, DefersOfStage, TypeOK,
       Startup, loops, indexVars, IndexTypeOK
  <2> QED BY <2>1, <2>2, <2>3, <2>4 DEF ServerInv
<1>6. CASE LoadFiles(p)
  <2>1. WorkOfStage'
    BY <1>0, <1>6, NoWorkYet DEF LoadFiles, Stage, To, AtWork
  <2>2. DefersOfStage'
    BY <1>0, <1>6 DEF LoadFiles, Stage, To, DefersOfStage, TypeOK,
       BeforeClients, WithClients, WithLoops, Stacks
  <2>3. StoresOfStage'
    BY <1>0, <1>6 DEF LoadFiles, Stage, To, StoresOfStage, TypeOK, indexVars, WithLoops
  <2>4. TypeOK'
    BY <1>0, <1>6, <2>2, StackBounded DEF LoadFiles, Stage, To, DefersOfStage, TypeOK,
       Startup, loops, indexVars, IndexTypeOK
  <2> QED BY <2>1, <2>2, <2>3, <2>4 DEF ServerInv
<1>7. CASE TemplatesStored(p)
  <2>1. WorkOfStage'
    BY <1>0, <1>7, NoWorkYet DEF TemplatesStored, Stage, To, AtWork
  <2>2. DefersOfStage'
    BY <1>0, <1>7 DEF TemplatesStored, Stage, To, DefersOfStage, TypeOK,
       BeforeClients, WithClients, WithLoops, Stacks
  <2>3. StoresOfStage'
    BY <1>0, <1>7, IndexTypesKept, OthersStayInIndex
       DEF TemplatesStored, Stage, To, StoresOfStage, TypeOK, indexVars, WithLoops
  <2>4. TypeOK'
    BY <1>0, <1>7, <2>2, StackBounded, IndexTypesKept
       DEF TemplatesStored, Stage, To, DefersOfStage, TypeOK,
       Startup, loops, indexVars, IndexTypeOK
  <2> QED BY <2>1, <2>2, <2>3, <2>4 DEF ServerInv
<1>8. CASE IndexStep(p)
  <2>1. WorkOfStage'
    BY <1>0, <1>8, NoWorkYet DEF IndexStep, Stage, To, AtWork
  <2>2. DefersOfStage'
    BY <1>0, <1>8 DEF IndexStep, Stage, To, DefersOfStage, TypeOK,
       BeforeClients, WithClients, WithLoops, Stacks
  <2>3. StoresOfStage'
    BY <1>0, <1>8, IndexTypesKept, OthersStayInIndex
       DEF IndexStep, Stage, To, StoresOfStage, TypeOK, indexVars, WithLoops
  <2>4. TypeOK'
    BY <1>0, <1>8, <2>2, StackBounded, IndexTypesKept
       DEF IndexStep, Stage, To, DefersOfStage, TypeOK,
       Startup, loops, indexVars, IndexTypeOK
  <2> QED BY <2>1, <2>2, <2>3, <2>4 DEF ServerInv
<1>9. CASE CreateTable(p)
  <2>1. WorkOfStage'
    BY <1>0, <1>9, NoWorkYet DEF CreateTable, Stage, To, AtWork
  <2>2. DefersOfStage'
    BY <1>0, <1>9 DEF CreateTable, Stage, To, DefersOfStage, TypeOK,
       BeforeClients, WithClients, WithLoops, Stacks
  <2>3. StoresOfStage'
    BY <1>0, <1>9 DEF CreateTable, Stage, To, StoresOfStage, TypeOK, indexVars, WithLoops
  <2>4. TypeOK'
    BY <1>0, <1>9, <2>2, StackBounded DEF CreateTable, Stage, To, DefersOfStage, TypeOK,
       Startup, loops, indexVars, IndexTypeOK
  <2> QED BY <2>1, <2>2, <2>3, <2>4 DEF ServerInv
<1>10. CASE StartEngine(p)
  <2>1. WorkOfStage'
    BY <1>0, <1>10, NoWorkYet DEF StartEngine, Stage, To, AtWork
  <2>2. DefersOfStage'
    BY <1>0, <1>10 DEF StartEngine, Stage, To, DefersOfStage, TypeOK,
       BeforeClients, WithClients, WithLoops, Stacks
  <2>3. StoresOfStage'
    BY <1>0, <1>10 DEF StartEngine, Stage, To, StoresOfStage, TypeOK, indexVars, WithLoops
  <2>4. TypeOK'
    BY <1>0, <1>10, <2>2, StackBounded DEF StartEngine, Stage, To, DefersOfStage, TypeOK,
       Startup, loops, indexVars, IndexTypeOK
  <2> QED BY <2>1, <2>2, <2>3, <2>4 DEF ServerInv
<1>11. CASE ListenMetrics(p)
  <2>1. WorkOfStage'
    BY <1>0, <1>11, NoWorkYet DEF ListenMetrics, Stage, To, AtWork
  <2>2. DefersOfStage'
    BY <1>0, <1>11 DEF ListenMetrics, Stage, To, Defer, AllClose, DefersOfStage, TypeOK,
       BeforeClients, WithClients, WithLoops, Stacks
  <2>3. StoresOfStage'
    BY <1>0, <1>11
       DEF ListenMetrics, Stage, To, StoresOfStage, TypeOK, indexVars, WithLoops
  <2>4. TypeOK'
    BY <1>0, <1>11, <2>2, StackBounded
       DEF ListenMetrics, Stage, To, DefersOfStage, TypeOK,
       Startup, loops, indexVars, IndexTypeOK
  <2> QED BY <2>1, <2>2, <2>3, <2>4 DEF ServerInv
<1>12. CASE \E wf \in Workflow \ templates : StoreTemplate(p, wf)
  <2>1. WorkOfStage'
    BY <1>0, <1>12, NoWorkYet DEF StoreTemplate, Stage, To, AtWork
  <2>2. DefersOfStage'
    BY <1>0, <1>12 DEF StoreTemplate, Stage, To, DefersOfStage, TypeOK,
       BeforeClients, WithClients, WithLoops, Stacks
  <2>3. StoresOfStage'
    BY <1>0, <1>12
       DEF StoreTemplate, Stage, To, StoresOfStage, TypeOK, indexVars, WithLoops
  <2>4. TypeOK'
    BY <1>0, <1>12, <2>2, StackBounded
       DEF StoreTemplate, Stage, To, DefersOfStage, TypeOK,
       Startup, loops, indexVars, IndexTypeOK
  <2> QED BY <2>1, <2>2, <2>3, <2>4 DEF ServerInv
<1> QED BY <1>1, <1>2, <1>3, <1>4, <1>5, <1>6, <1>7, <1>8, <1>9, <1>10, <1>11, <1>12

(* Between the last stage of start-up and the drain: the loops are         *)
(* started, requests come and go, a signal arrives, the server fails.      *)
LEMMA ServingKeeps ==
  ASSUME ServerInv, NEW p \in Process,
         \/ Launch(p) \/ StartLoops(p) \/ Accept(p) \/ Handled(p)
         \/ Signal(p) \/ ServeFails(p)
  PROVE  ServerInv'
<1> USE ServerAssumption
<1>0. TypeOK /\ DefersOfStage /\ WorkOfStage /\ StoresOfStage
  BY DEF ServerInv
<1>1. CASE Launch(p)
  <2>1. WorkOfStage'
    BY <1>0, <1>1 DEF Launch, To, WorkOfStage, TypeOK, AtWork, loops
  <2>2. DefersOfStage'
    BY <1>0, <1>1 DEF Launch, To, DefersOfStage, TypeOK,
       BeforeClients, WithClients, WithLoops, Stacks
  <2>3. StoresOfStage'
    BY <1>0, <1>1 DEF Launch, To, StoresOfStage, TypeOK, indexVars, WithLoops
  <2>4. TypeOK'
    BY <1>0, <1>1, <2>2, StackBounded DEF Launch, To, DefersOfStage, TypeOK,
       Startup, Teardown, loops, indexVars, IndexTypeOK
  <2> QED BY <2>1, <2>2, <2>3, <2>4 DEF ServerInv
<1>2. CASE StartLoops(p)
  <2>1. WorkOfStage'
    BY <1>0, <1>2 DEF StartLoops, To, WorkOfStage, TypeOK, AtWork, loops
  <2>2. DefersOfStage'
    BY <1>0, <1>2 DEF StartLoops, To, DefersOfStage, TypeOK,
       BeforeClients, WithClients, WithLoops, Stacks
  <2>3. StoresOfStage'
    BY <1>0, <1>2 DEF StartLoops, To, StoresOfStage, TypeOK, indexVars, WithLoops
  <2>4. TypeOK'
    BY <1>0, <1>2, <2>2, StackBounded DEF StartLoops, To, DefersOfStage, TypeOK,
       Startup, Teardown, loops, indexVars, IndexTypeOK
  <2> QED BY <2>1, <2>2, <2>3, <2>4 DEF ServerInv
<1>3. CASE Accept(p)
  <2>1. WorkOfStage'
    BY <1>0, <1>3 DEF Accept, WorkOfStage, TypeOK, AtWork, loops
  <2>2. DefersOfStage'
    BY <1>0, <1>3 DEF Accept, DefersOfStage, TypeOK,
       BeforeClients, WithClients, WithLoops, Stacks
  <2>3. StoresOfStage'
    BY <1>0, <1>3 DEF Accept, StoresOfStage, TypeOK, indexVars, WithLoops
  <2>4. TypeOK'
    BY <1>0, <1>3, <2>2, StackBounded DEF Accept, DefersOfStage, TypeOK,
       Startup, Teardown, loops, indexVars, IndexTypeOK
  <2> QED BY <2>1, <2>2, <2>3, <2>4 DEF ServerInv
<1>4. CASE Handled(p)
  <2>1. WorkOfStage'
    BY <1>0, <1>4 DEF Handled, WorkOfStage, TypeOK, AtWork, loops
  <2>2. DefersOfStage'
    BY <1>0, <1>4 DEF Handled, DefersOfStage, TypeOK,
       BeforeClients, WithClients, WithLoops, Stacks
  <2>3. StoresOfStage'
    BY <1>0, <1>4 DEF Handled, StoresOfStage, TypeOK, indexVars, WithLoops
  <2>4. TypeOK'
    BY <1>0, <1>4, <2>2, StackBounded DEF Handled, DefersOfStage, TypeOK,
       Startup, Teardown, loops, indexVars, IndexTypeOK
  <2> QED BY <2>1, <2>2, <2>3, <2>4 DEF ServerInv
<1>5. CASE Signal(p)
  <2>1. WorkOfStage'
    BY <1>0, <1>5 DEF Signal, WorkOfStage, TypeOK, AtWork, loops
  <2>2. DefersOfStage'
    BY <1>0, <1>5 DEF Signal, DefersOfStage, TypeOK,
       BeforeClients, WithClients, WithLoops, Stacks
  <2>3. StoresOfStage'
    BY <1>0, <1>5 DEF Signal, StoresOfStage, TypeOK, indexVars, WithLoops
  <2>4. TypeOK'
    BY <1>0, <1>5, <2>2, StackBounded DEF Signal, DefersOfStage, TypeOK,
       Startup, Teardown, loops, indexVars, IndexTypeOK
  <2> QED BY <2>1, <2>2, <2>3, <2>4 DEF ServerInv
<1>6. CASE ServeFails(p)
  <2>1. WorkOfStage'
    BY <1>0, <1>6 DEF ServeFails, To, WorkOfStage, TypeOK, AtWork, loops
  <2>2. DefersOfStage'
    BY <1>0, <1>6 DEF ServeFails, To, DefersOfStage, TypeOK,
       BeforeClients, WithClients, WithLoops, Stacks
  <2>3. StoresOfStage'
    BY <1>0, <1>6 DEF ServeFails, To, StoresOfStage, TypeOK, indexVars, WithLoops
  <2>4. TypeOK'
    BY <1>0, <1>6, <2>2, StackBounded DEF ServeFails, To, DefersOfStage, TypeOK,
       Startup, Teardown, loops, indexVars, IndexTypeOK
  <2> QED BY <2>1, <2>2, <2>3, <2>4 DEF ServerInv
<1> QED BY <1>1, <1>2, <1>3, <1>4, <1>5, <1>6

(* The drain, the wait for the workers and the deferred closes: an orderly *)
(* end closes the stores after the work, and each close takes one away.    *)
LEMMA TeardownKeeps ==
  ASSUME ServerInv, NEW p \in Process,
         ShuttingDown(p) \/ Drained(p) \/ WorkersStopped(p) \/ Close(p)
  PROVE  ServerInv'
<1> USE ServerAssumption
<1>0. TypeOK /\ DefersOfStage /\ WorkOfStage /\ StoresOfStage
  BY DEF ServerInv
<1>1. CASE ShuttingDown(p)
  <2>1. WorkOfStage'
    BY <1>0, <1>1 DEF ShuttingDown, To, WorkOfStage, TypeOK, AtWork, loops
  <2>2. DefersOfStage'
    BY <1>0, <1>1 DEF ShuttingDown, To, DefersOfStage, TypeOK,
       BeforeClients, WithClients, WithLoops, Stacks
  <2>3. StoresOfStage'
    BY <1>0, <1>1 DEF ShuttingDown, To, StoresOfStage, TypeOK, indexVars, WithLoops
  <2>4. TypeOK'
    BY <1>0, <1>1, <2>2, StackBounded DEF ShuttingDown, To, DefersOfStage, TypeOK,
       Startup, Teardown, loops, indexVars, IndexTypeOK
  <2> QED BY <2>1, <2>2, <2>3, <2>4 DEF ServerInv
<1>2. CASE Drained(p)
  <2>0. /\ pc' = [pc EXCEPT ![p] = "await"] /\ UNCHANGED <<handlers, outcome, worker, jobs>>
        /\ handlers[p] > 0 => overran'[p]
        /\ \A q \in Process : q # p => overran'[q] = overran[q]
    BY <1>0, <1>2 DEF Drained, To, TypeOK, loops
  <2>1. WorkOfStage'
    BY <1>0, <2>0 DEF WorkOfStage, TypeOK, AtWork
  <2>2. DefersOfStage'
    BY <1>0, <1>2 DEF Drained, To, DefersOfStage, TypeOK,
       BeforeClients, WithClients, WithLoops, Stacks
  <2>3. StoresOfStage'
    BY <1>0, <1>2 DEF Drained, To, StoresOfStage, TypeOK, indexVars, WithLoops
  <2>4. TypeOK'
    BY <1>0, <1>2, <2>2, StackBounded DEF Drained, To, DefersOfStage, TypeOK,
       Startup, Teardown, loops, indexVars, IndexTypeOK
  <2> QED BY <2>1, <2>2, <2>3, <2>4 DEF ServerInv
<1>3. CASE WorkersStopped(p)
  <2>1. WorkOfStage'
    BY <1>0, <1>3 DEF WorkersStopped, To, WorkOfStage, TypeOK, AtWork, loops
  <2>2. DefersOfStage'
    BY <1>0, <1>3 DEF WorkersStopped, To, DefersOfStage, TypeOK,
       BeforeClients, WithClients, WithLoops, Stacks
  <2>3. StoresOfStage'
    BY <1>0, <1>3 DEF WorkersStopped, To, StoresOfStage, TypeOK, indexVars, WithLoops
  <2>4. TypeOK'
    BY <1>0, <1>3, <2>2, StackBounded DEF WorkersStopped, To, DefersOfStage, TypeOK,
       Startup, Teardown, loops, indexVars, IndexTypeOK
  <2> QED BY <2>1, <2>2, <2>3, <2>4 DEF ServerInv
<1>4. CASE Close(p)
  <2>1. WorkOfStage'
    BY <1>0, <1>4 DEF Close, WorkOfStage, TypeOK, AtWork, loops
  <2>2. DefersOfStage'
    BY <1>0, <1>4, StackShrinks DEF Close, DefersOfStage, TypeOK,
       BeforeClients, WithClients, WithLoops, Stacks
  <2>3. StoresOfStage'
    BY <1>0, <1>4 DEF Close, StoresOfStage, TypeOK, indexVars, WithLoops
  <2>4. TypeOK'
    BY <1>0, <1>4, <2>2, StackBounded DEF Close, DefersOfStage, TypeOK,
       Startup, Teardown, loops, indexVars, IndexTypeOK
  <2> QED BY <2>1, <2>2, <2>3, <2>4 DEF ServerInv
<1> QED BY <1>1, <1>2, <1>3, <1>4

(* A process that has exited or was killed has nothing; what it left in    *)
(* the stores others may rely on.                                          *)
LEMMA GoneKeeps ==
  ASSUME ServerInv, NEW p \in Process,
         Exit(p) \/ Kill(p)
  PROVE  ServerInv'
<1> USE ServerAssumption
<1>0. TypeOK /\ DefersOfStage /\ WorkOfStage /\ StoresOfStage
  BY DEF ServerInv
<1>1. CASE Exit(p)
  <2>1. WorkOfStage'
    BY <1>0, <1>1 DEF Exit, Gone, To, WorkOfStage, TypeOK, AtWork, loops
  <2>2. DefersOfStage'
    BY <1>0, <1>1 DEF Exit, Gone, To, DefersOfStage, TypeOK,
       BeforeClients, WithClients, WithLoops, Stacks, NoClose
  <2>3. StoresOfStage'
    BY <1>0, <1>1 DEF Exit, Gone, To, StoresOfStage, TypeOK, indexVars, WithLoops
  <2>4. TypeOK'
    BY <1>0, <1>1, <2>2, StackBounded DEF Exit, Gone, To, DefersOfStage, TypeOK,
       Startup, Teardown, loops, indexVars, IndexTypeOK
  <2> QED BY <2>1, <2>2, <2>3, <2>4 DEF ServerInv
<1>2. CASE Kill(p)
  <2>1. WorkOfStage'
    BY <1>0, <1>2 DEF Kill, Gone, To, WorkOfStage, TypeOK, AtWork, loops
  <2>2. DefersOfStage'
    BY <1>0, <1>2 DEF Kill, Gone, To, DefersOfStage, TypeOK,
       BeforeClients, WithClients, WithLoops, Stacks, NoClose
  <2>3. StoresOfStage'
    BY <1>0, <1>2, OthersStayInIndex
       DEF Kill, Gone, To, StoresOfStage, TypeOK, indexVars, WithLoops
  <2>4. TypeOK'
    BY <1>0, <1>2, <2>2, StackBounded, IndexTypesKept
       DEF Kill, Gone, To, DefersOfStage, TypeOK,
       Startup, Teardown, loops, indexVars, IndexTypeOK
  <2> QED BY <2>1, <2>2, <2>3, <2>4 DEF ServerInv
<1> QED BY <1>1, <1>2

(* A stage of start-up that fails runs the closes deferred so far.         *)
LEMMA FailureKeeps ==
  ASSUME ServerInv, NEW p \in Process,
         StartupFails(p)
  PROVE  ServerInv'
<1> USE ServerAssumption
<1>0. TypeOK /\ DefersOfStage /\ WorkOfStage /\ StoresOfStage
  BY DEF ServerInv
<1>1. /\ pc[p] \in Startup \ {"loops"} /\ pc' = [pc EXCEPT ![p] = "close"]
      /\ outcome' = [outcome EXCEPT ![p] = "error"] /\ attempt' = [attempt EXCEPT ![p] = 0]
      /\ UNCHANGED <<signalled, defers, jobs, worker, handlers, overran>>
  BY DEF StartupFails, To, loops
<1>2. /\ templates \subseteq templates' /\ templates' \subseteq Workflow
      /\ (table => table') /\ table' \in BOOLEAN
      /\ (EnsureFails(p) \/ UNCHANGED indexVars)
  <2>1. CASE pc[p] # "index" /\ UNCHANGED <<templates, table, indexVars>>
    BY <1>0, <2>1 DEF TypeOK
  <2>2. CASE pc[p] = "templates" /\ (\E wf \in Workflow : templates' = templates \cup {wf})
             /\ UNCHANGED <<table, indexVars>>
    BY <1>0, <2>2 DEF TypeOK
  <2>3. CASE pc[p] = "table" /\ table' = TRUE /\ UNCHANGED <<templates, indexVars>>
    BY <1>0, <2>3 DEF TypeOK
  <2>4. CASE pc[p] = "index" /\ EnsureFails(p) /\ UNCHANGED <<templates, table>>
    BY <1>0, <2>4 DEF TypeOK
  <2> QED BY <2>1, <2>2, <2>3, <2>4 DEF StartupFails
<1>3. IndexTypeOK' /\ \A q \in Process : q # p => step'[q] = step[q]
  BY <1>0, <1>2, IndexTypesKept, OthersStayInIndex DEF TypeOK, indexVars, IndexTypeOK
<1>4. WorkOfStage'
  BY <1>0, <1>1 DEF WorkOfStage, TypeOK, AtWork, Startup
<1>5. DefersOfStage'
  BY <1>0, <1>1 DEF DefersOfStage, TypeOK, BeforeClients, WithClients, WithLoops, Stacks
<1>6. StoresOfStage'
  BY <1>0, <1>1, <1>2, <1>3 DEF StoresOfStage, TypeOK, WithLoops
<1>7. 0 \in 0 .. MaxAttempts - 1
  OBVIOUS
<1>8. TypeOK'
  <2>1. pc' \in [Process -> {"down", "serving"} \cup Startup \cup Teardown]
    BY <1>0, <1>1 DEF TypeOK, Teardown
  <2>2. attempt' \in [Process -> 0 .. MaxAttempts - 1]
    BY <1>0, <1>1, <1>7 DEF TypeOK
  <2>3. outcome' \in [Process -> {"none", "ok", "error"}]
    BY <1>0, <1>1 DEF TypeOK
  <2>4. \A q \in Process : defers'[q] \in Seq(Closer) /\ Len(defers'[q]) <= 4
    BY <1>0, <1>1 DEF TypeOK
  <2>5. /\ signalled' \in [Process -> BOOLEAN] /\ overran' \in [Process -> BOOLEAN]
        /\ worker' \in [Process -> [Worker -> {"off", "select", "tick"}]]
        /\ jobs' \in [Process -> [Worker -> 0 .. Batch]]
        /\ handlers' \in [Process -> 0 .. MaxHandler]
    BY <1>0, <1>1 DEF TypeOK
  <2>6. templates' \subseteq Workflow /\ table' \in BOOLEAN /\ IndexTypeOK'
    BY <1>2, <1>3
  <2> QED BY <2>1, <2>2, <2>3, <2>4, <2>5, <2>6, Zenon DEF TypeOK
<1> QED BY <1>4, <1>5, <1>6, <1>8 DEF ServerInv

(* A worker claims, works and ends; once its loop is stopped it claims no  *)
(* more.                                                                   *)
LEMMA WorkerKeeps ==
  ASSUME ServerInv, NEW p \in Process, NEW w \in Worker, WorkerStep(p, w)
  PROVE  ServerInv'
<1> USE ServerAssumption
<1>0. TypeOK /\ DefersOfStage /\ WorkOfStage /\ StoresOfStage
  BY DEF ServerInv
<1>1. CASE WorkerClaims(p, w)
  <2>1. WorkOfStage'
    BY <1>0, <1>1 DEF WorkerClaims, Stopped, WorkOfStage, TypeOK, AtWork, loops
  <2>2. DefersOfStage'
    BY <1>0, <1>1 DEF WorkerClaims, Stopped, DefersOfStage, TypeOK,
       BeforeClients, WithClients, WithLoops, Stacks
  <2>3. StoresOfStage'
    BY <1>0, <1>1 DEF WorkerClaims, Stopped, StoresOfStage, TypeOK, indexVars, WithLoops
  <2>4. TypeOK'
    BY <1>0, <1>1, <2>2, StackBounded DEF WorkerClaims, Stopped, DefersOfStage, TypeOK,
       Startup, Teardown, loops, indexVars, IndexTypeOK
  <2> QED BY <2>1, <2>2, <2>3, <2>4 DEF ServerInv
<1>2. CASE JobEnds(p, w)
  <2>0. jobs[p][w] - 1 \in 0 .. Batch
    BY <1>0, <1>2 DEF JobEnds, TypeOK, WorkOfStage
  <2>1. WorkOfStage'
    BY <1>0, <1>2 DEF JobEnds, WorkOfStage, TypeOK, AtWork, loops
  <2>2. DefersOfStage'
    BY <1>0, <1>2 DEF JobEnds, DefersOfStage, TypeOK,
       BeforeClients, WithClients, WithLoops, Stacks
  <2>3. StoresOfStage'
    BY <1>0, <1>2 DEF JobEnds, StoresOfStage, TypeOK, indexVars, WithLoops
  <2>4. TypeOK'
    BY <1>0, <1>2, <2>2, <2>0, StackBounded DEF JobEnds, DefersOfStage, TypeOK,
       Startup, Teardown, loops, indexVars, IndexTypeOK
  <2> QED BY <2>1, <2>2, <2>3, <2>4 DEF ServerInv
<1>3. CASE WorkerEnds(p, w)
  <2>1. WorkOfStage'
    BY <1>0, <1>3 DEF WorkerEnds, Stopped, WorkOfStage, TypeOK, AtWork, loops
  <2>2. DefersOfStage'
    BY <1>0, <1>3 DEF WorkerEnds, Stopped, DefersOfStage, TypeOK,
       BeforeClients, WithClients, WithLoops, Stacks
  <2>3. StoresOfStage'
    BY <1>0, <1>3 DEF WorkerEnds, Stopped, StoresOfStage, TypeOK, indexVars, WithLoops
  <2>4. TypeOK'
    BY <1>0, <1>3, <2>2, StackBounded DEF WorkerEnds, Stopped, DefersOfStage, TypeOK,
       Startup, Teardown, loops, indexVars, IndexTypeOK
  <2> QED BY <2>1, <2>2, <2>3, <2>4 DEF ServerInv
<1> QED BY <1>1, <1>2, <1>3 DEF WorkerStep

(* A step of a replica is a step of ensureIndex or leaves the index alone. *)
LEMMA StepsOfIndex ==
  ASSUME Next PROVE [IndexNext]_indexVars
<1> PICK p \in Process :
      \/ Launch(p) \/ StartupStep(p) \/ StartupFails(p)
      \/ Accept(p) \/ Handled(p)
      \/ \E w \in Worker : WorkerStep(p, w)
      \/ Signal(p) \/ ServeFails(p) \/ TeardownStep(p) \/ Kill(p)
  BY DEF Next
<1> SUFFICES Begin(p) \/ EnsureStep(p) \/ EnsureFails(p) \/ UNCHANGED indexVars
  BY DEF IndexNext
<1>1. CASE StartupStep(p)
  BY <1>1 DEF StartupStep, LoadConfig, SetupOtel, DBConnect, ConnectPostgres, PingFails,
     LoadFiles, TemplatesStored, IndexStep, CreateTable, StoreTemplate, StartEngine,
     ListenMetrics, StartLoops
<1>2. CASE StartupFails(p)
  BY <1>2 DEF StartupFails
<1>3. CASE \E w \in Worker : WorkerStep(p, w)
  BY <1>3 DEF WorkerStep, WorkerClaims, JobEnds, WorkerEnds
<1>4. CASE TeardownStep(p)
  BY <1>4 DEF TeardownStep, ShuttingDown, Drained, WorkersStopped, Close, Exit
<1>5. CASE Kill(p)
  BY <1>5 DEF Kill
<1> QED BY <1>1, <1>2, <1>3, <1>4, <1>5 DEF Launch, Accept, Handled, Signal, ServeFails

(* Every step of every replica keeps the invariant.                        *)
LEMMA ServerNextInv ==
  ASSUME ServerInv, [Next]_vars PROVE ServerInv'
<1>1. CASE UNCHANGED vars
  BY <1>1 DEF vars, loops, indexVars, ServerInv, TypeOK, IndexTypeOK, DefersOfStage,
     WorkOfStage, StoresOfStage
<1>2. CASE Next
  BY <1>2, StagesKeep, ServingKeeps, TeardownKeeps, GoneKeeps, FailureKeeps, WorkerKeeps
     DEF Next, StartupStep, TeardownStep
<1> QED BY <1>1, <1>2

-----------------------------------------------------------------------------
(* The invariant holds of every behaviour of the replicas.                 *)
THEOREM ServerInvariance == Spec => []ServerInv
<1>1. Init => ServerInv
  BY ServerInitInv
<1>2. ServerInv /\ [Next]_vars => ServerInv'
  BY ServerNextInv
<1> QED BY <1>1, <1>2, PTL DEF Spec

(* (main.go:190) The types of what run() keeps: pings below their limit,   *)
(* at most four deferred closes, jobs and requests within their bounds.    *)
THEOREM ServerTypeCorrect == Spec => []TypeOK
<1>1. ServerInv => TypeOK
  BY DEF ServerInv
<1> QED BY <1>1, ServerInvariance, PTL

(* (main.go:361) However many workers and requests there are and wherever  *)
(* the signal finds them: work still running when the stores' clients are  *)
(* closed means that the server failed or the request outlived Shutdown.   *)
THEOREM WorkOutlivesNoClient == Spec => []WorkKeepsItsClients
<1>1. ASSUME ServerInv PROVE WorkKeepsItsClients
  <2> SUFFICES ASSUME NEW p \in Process, ~({"redis", "postgres"} \subseteq Open(p))
               PROVE  /\ (\E w \in Worker : worker[p][w] = "tick") => outcome[p] = "error"
                      /\ handlers[p] > 0 => outcome[p] = "error" \/ overran[p]
    BY DEF WorkKeepsItsClients
  <2>1. defers[p] \notin {StoreClose, AllClose}
    BY StackHolds
  <2>2. pc[p] \notin {"serving", "drain", "await"}
    BY <1>1, <2>1 DEF ServerInv, DefersOfStage, WithLoops
  <2> QED BY <1>1, <2>2 DEF ServerInv, WorkOfStage, AtWork
<1> QED BY <1>1, ServerInvariance, PTL

(* (templating.go:172) What IndexOfOneRelease says of ensureIndex by       *)
(* itself holds of it inside run(), where every stage may fail, be         *)
(* signalled or be killed.                                                 *)
THEOREM IndexOfReplicas == ASSUME OneRelease PROVE Spec => []IndexInv
<1>1. Init => IndexInv
  BY IndexInitInv DEF Init
<1>2. ASSUME IndexInv, [Next]_vars PROVE IndexInv'
  <2>1. [IndexNext]_indexVars
    BY <1>2, StepsOfIndex DEF vars
  <2> QED BY <1>2, <2>1, IndexNextInv
<1> QED BY <1>1, <1>2, PTL DEF Spec

(* The index that the replicas of a release leave, as a property of run(). *)
THEOREM ReplicasSettleIndex == ASSUME OneRelease PROVE Spec => []SettledIndexRight
<1>1. IndexInv => SettledIndexRight
  BY IndexInvSettled
<1> QED BY <1>1, IndexOfReplicas, PTL

(* (main.go:190) A process of the release serves only with its clients,    *)
(* its loops, every template, the table and, once no start is under way,   *)
(* the index of its schema: whatever failed before and whoever starts      *)
(* beside it.                                                              *)
THEOREM ServesComplete == ASSUME OneRelease PROVE Spec => []ServesOnlyComplete
<1>1. ASSUME ServerInv, IndexInv PROVE ServesOnlyComplete
  <2> SUFFICES ASSUME NEW p \in Process, pc[p] = "serving"
               PROVE  /\ {"otel", "redis", "postgres"} \subseteq Open(p)
                      /\ \A w \in Worker : worker[p][w] # "off"
                      /\ templates = Workflow /\ table
                      /\ Settled => indexed = SchemaOf[p]
    BY DEF ServesOnlyComplete
  <2>1. {"otel", "redis", "postgres"} \subseteq Open(p)
    BY <1>1, StackHolds DEF ServerInv, DefersOfStage, WithLoops
  <2>2. \A w \in Worker : worker[p][w] # "off"
    BY <1>1 DEF ServerInv, WorkOfStage
  <2>3. templates = Workflow /\ table /\ step[p] = "done"
    BY <1>1 DEF ServerInv, StoresOfStage, WithLoops
  <2>4. Settled => indexed = SchemaOf[p]
    BY <1>1, <2>3, IndexInvSettled DEF SettledIndexRight
  <2> QED BY <2>1, <2>2, <2>3, <2>4
<1> QED BY <1>1, ServerInvariance, IndexOfReplicas, PTL
=============================================================================
