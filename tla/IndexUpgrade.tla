---------------------------- MODULE IndexUpgrade -----------------------------
(***************************************************************************)
(* ensureIndex across releases: processes that want different schemas, as  *)
(* in an upgrade or a rollback.                                            *)
(***************************************************************************)
EXTENDS SearchIndex

VARIABLE alone   \* history: the process whose start no other has overlapped

UpgradeInit == IndexInit /\ alone = {}

(* Nobody else is in ensureIndex when p begins; nobody begins before p is  *)
(* through and nobody has begun since.                                     *)
UpgradeNext ==
  \E p \in Process :
    \/ /\ Begin(p)
       /\ alone' = {q \in {p} : \A r \in Process \ {q} : step[r] \notin Command}
    \/ (EnsureStep(p) \/ EnsureFails(p)) /\ UNCHANGED alone

UpgradeSpec == UpgradeInit /\ [][UpgradeNext]_<<indexVars, alone>>

(* (templating.go:169) "when the index exists with a different schema it   *)
(* is dropped [...] and recreated so a code upgrade that changes the       *)
(* schema takes effect without manual intervention": a process whose       *)
(* ensureIndex nobody overlapped leaves the index with its own schema.     *)
AloneHasItsIndex ==
  \A p \in alone : step[p] = "done" => indexed = SchemaOf[p]
=============================================================================
