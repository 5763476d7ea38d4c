--------------------------- MODULE StaleDeadline ----------------------------
(***************************************************************************)
(* The engine never leaves a deadline behind (DeadlineExact), but the      *)
(* script has branches for one that is there all the same: a member put    *)
(* back by hand or by restoring task_deadlines alone.  This module adds    *)
(* such a member and asks what the reaper does with it.                    *)
(***************************************************************************)
EXTENDS MCInstanceEngine

Stale(k) == Exists(k[1]) /\ ~ (Live(k[1]) /\ states[k[1]][k[2]] = "PUBLISHED")

(* External: a stale member appears in task_deadlines.                     *)
PlantDeadline(k) ==
  /\ Stale(k)
  /\ deadlines' = ZAdd(deadlines, [x \in {k} |-> now])
  /\ UNCHANGED <<docVars, archive, webhooks, now, call, wire, reaper, told>>

StaleNext == Next \/ \E k \in TaskKey : PlantDeadline(k)
StaleSpec == Init /\ [][StaleNext]_vars

(* transition.lua:237 and contract.md:32: a tick that comes across a stale *)
(* deadline discards it.                                                   *)
StaleDeadlineDiscarded ==
  [][\A p \in Reaper : ReapTick(p) =>
       \A k \in Due(deadlines, reaper[p]) :
         Stale(k) /\ Cardinality(Due(deadlines, reaper[p])) <= BatchLimit
           => k \notin DOMAIN deadlines']_vars
=============================================================================
