-------------------------- MODULE SearchIndexProofs --------------------------
(***************************************************************************)
(* Any number of processes of one release may start, fail and start again  *)
(* together: the index they leave is the one they want.                    *)
(***************************************************************************)
EXTENDS SearchIndex, TLAPS

OneRelease == \A p, q \in Process : SchemaOf[p] = SchemaOf[q]

Unsettled == {"get", "info", "drop", "create", "failed"}

(* The version is only ever set to the wanted schema, after the index of   *)
(* another release is gone for good.                                       *)
VersionTrusted ==
  \A p \in Process :
    /\ (step[p] \in {"create", "set", "done"} \/ version = SchemaOf[p]) =>
         indexed \in {SchemaOf[p], NoSchema}
    /\ (step[p] = "done" \/ have[p] = SchemaOf[p]) => version = SchemaOf[p]

(* Whoever drops an index others rely on has still to create it.           *)
GapOwned ==
  indexed = NoSchema /\ (\E p \in Process : step[p] \in {"set", "done"}) =>
    \E q \in Process : step[q] \in Unsettled

IndexInv == IndexTypeOK /\ VersionTrusted /\ GapOwned

(* The initial states: nobody has begun, nothing has been read.            *)
LEMMA IndexInitInv == ASSUME IndexInit PROVE IndexInv
  <1>1. IndexTypeOK  BY SchemaAssumption DEF IndexInit, IndexTypeOK, Command
  <1>2. VersionTrusted  BY SchemaAssumption DEF IndexInit, VersionTrusted
  <1>3. GapOwned  BY DEF IndexInit, GapOwned
  <1> QED  BY <1>1, <1>2, <1>3 DEF IndexInv

(* Every command of ensureIndex, its failure and its beginning keep the    *)
(* invariant if the processes want the same schema.                        *)
LEMMA IndexNextInv ==
  ASSUME OneRelease, IndexInv, [IndexNext]_indexVars PROVE IndexInv'
  <1> USE SchemaAssumption
  <1> USE DEF IndexInv
  <1>1. ASSUME NEW p \in Process, Begin(p) PROVE IndexInv'
    <2>1. IndexTypeOK'  BY <1>1 DEF Begin, Goto, IndexTypeOK, Command
    <2>2. VersionTrusted'  BY <1>1 DEF Begin, Goto, IndexTypeOK, VersionTrusted
    <2>3. GapOwned'
      <3>1. step'[p] \in Unsettled  BY <1>1 DEF Begin, Goto, IndexTypeOK, Unsettled
      <3> QED  BY <3>1 DEF GapOwned
    <2> QED  BY <2>1, <2>2, <2>3
  <1>2. ASSUME NEW p \in Process, GetVersion(p) PROVE IndexInv'
    <2>1. IndexTypeOK'  BY <1>2 DEF GetVersion, Goto, IndexTypeOK, Command
    <2>2. VersionTrusted'  BY <1>2 DEF GetVersion, Goto, IndexTypeOK, VersionTrusted
    <2>3. GapOwned'
      <3>1. step'[p] \in Unsettled  BY <1>2 DEF GetVersion, Goto, IndexTypeOK, Unsettled
      <3> QED  BY <3>1 DEF GapOwned
    <2> QED  BY <2>1, <2>2, <2>3
  <1>3. ASSUME NEW p \in Process, Info(p) PROVE IndexInv'
    <2>1. IndexTypeOK'  BY <1>3 DEF Info, Goto, IndexTypeOK, Command
    <2>2. VersionTrusted'
      BY <1>3 DEF Info, Goto, IndexTypeOK, VersionTrusted, OneRelease
    <2>3. GapOwned'
      <3>1. CASE indexed = NoSchema
        <4>1. step'[p] \in Unsettled  BY <1>3, <3>1 DEF Info, Goto, IndexTypeOK, Unsettled
        <4> QED  BY <4>1 DEF GapOwned
      <3>2. CASE indexed # NoSchema  BY <1>3, <3>2 DEF Info, GapOwned
      <3> QED  BY <3>1, <3>2
    <2> QED  BY <2>1, <2>2, <2>3
  <1>4. ASSUME NEW p \in Process, DropIndex(p) PROVE IndexInv'
    <2>1. IndexTypeOK'  BY <1>4 DEF DropIndex, Goto, IndexTypeOK, Command
    <2>2. VersionTrusted'  BY <1>4 DEF DropIndex, Goto, IndexTypeOK, VersionTrusted
    <2>3. GapOwned'
      <3>1. step'[p] \in Unsettled  BY <1>4 DEF DropIndex, Goto, IndexTypeOK, Unsettled
      <3> QED  BY <3>1 DEF GapOwned
    <2> QED  BY <2>1, <2>2, <2>3
  <1>5. ASSUME NEW p \in Process, CreateIndex(p) PROVE IndexInv'
    <2>0. indexed' = SchemaOf[p]
      BY <1>5 DEF CreateIndex, Created, VersionTrusted
    <2>1. IndexTypeOK'  BY <1>5, <2>0 DEF CreateIndex, Goto, IndexTypeOK, Command
    <2>2. VersionTrusted'
      BY <1>5, <2>0 DEF CreateIndex, Goto, IndexTypeOK, VersionTrusted, OneRelease
    <2>3. GapOwned'  BY <2>0 DEF GapOwned
    <2> QED  BY <2>1, <2>2, <2>3
  <1>6. ASSUME NEW p \in Process, SetVersion(p) PROVE IndexInv'
    <2>1. IndexTypeOK'  BY <1>6 DEF SetVersion, Goto, IndexTypeOK, Command
    <2>2. VersionTrusted'
      BY <1>6 DEF SetVersion, Goto, IndexTypeOK, VersionTrusted, OneRelease
    <2>3. ASSUME indexed' = NoSchema PROVE \E q \in Process : step'[q] \in Unsettled
      <3>1. PICK q \in Process : step[q] \in Unsettled
        BY <1>6, <2>3 DEF SetVersion, GapOwned
      <3>2. step'[q] = step[q]
        BY <1>6, <3>1 DEF SetVersion, Goto, IndexTypeOK, Unsettled
      <3> QED  BY <3>1, <3>2
    <2>4. GapOwned'  BY <2>3 DEF GapOwned
    <2> QED  BY <2>1, <2>2, <2>4
  <1>7. ASSUME NEW p \in Process, EnsureFails(p) PROVE IndexInv'
    <2>0. /\ indexed' \in {indexed, NoSchema} \/ (step[p] = "create" /\ indexed' = Created(p))
          /\ version' = version \/ (step[p] = "set" /\ version' = SchemaOf[p])
          /\ step' = [step EXCEPT ![p] = "failed"]
          /\ have' = [have EXCEPT ![p] = NoSchema]
      BY <1>7 DEF EnsureFails, Goto
    <2>1. IndexTypeOK'  BY <2>0 DEF Created, IndexTypeOK, Command
    <2>2. VersionTrusted'
      BY <2>0 DEF Created, IndexTypeOK, VersionTrusted, OneRelease
    <2>3. GapOwned'
      <3>1. step'[p] \in Unsettled  BY <2>0 DEF IndexTypeOK, Unsettled
      <3> QED  BY <3>1 DEF GapOwned
    <2> QED  BY <2>1, <2>2, <2>3
  <1>8. CASE UNCHANGED indexVars
    BY <1>8 DEF indexVars, IndexTypeOK, VersionTrusted, GapOwned
  <1> QED
    BY <1>1, <1>2, <1>3, <1>4, <1>5, <1>6, <1>7, <1>8 DEF IndexNext, EnsureStep

(* What the invariant says once everybody has come through.                *)
LEMMA IndexInvSettled == ASSUME IndexInv PROVE SettledIndexRight
  <1> SUFFICES ASSUME Settled, NEW p \in Process, step[p] = "done"
               PROVE  indexed = SchemaOf[p] /\ version = SchemaOf[p]
    BY DEF SettledIndexRight
  <1>1. indexed # NoSchema
    BY DEF IndexInv, GapOwned, Settled, Unsettled
  <1> QED  BY <1>1 DEF IndexInv, VersionTrusted

(* ensureIndex (templating.go:172), of any number of processes of one      *)
(* release: when all that started have come through, the index is there    *)
(* with the schema they want, whatever was there before and whatever       *)
(* command failed.                                                         *)
THEOREM IndexOfOneRelease == ASSUME OneRelease PROVE IndexSpec => []SettledIndexRight
  <1>1. IndexInit => IndexInv  BY IndexInitInv
  <1>2. IndexInv /\ [IndexNext]_indexVars => IndexInv'  BY IndexNextInv
  <1>3. IndexInv => SettledIndexRight  BY IndexInvSettled
  <1> QED  BY <1>1, <1>2, <1>3, PTL DEF IndexSpec
=============================================================================
