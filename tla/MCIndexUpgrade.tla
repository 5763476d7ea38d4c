--------------------------- MODULE MCIndexUpgrade ----------------------------
(***************************************************************************)
(* A process of the old release and one of the new.                        *)
(***************************************************************************)
EXTENDS IndexUpgrade

MCSchemaOf == [p \in {"old", "new"} |-> IF p = "old" THEN "s1" ELSE "s2"]
=============================================================================
