-------------------------------- MODULE ZSet --------------------------------
(***************************************************************************)
(* The Redis sorted set, as the engine uses it: every member has one       *)
(* score, a unix time at which the member is due.  task_deadlines,         *)
(* archive_pending and webhook_pending are sorted sets.  Redis itself is   *)
(* external; only the four commands the scripts issue are modelled.  A     *)
(* sorted set is a function whose domain is the set of its members.        *)
(***************************************************************************)
EXTENDS Integers, FiniteSets

EmptyZSet == [m \in {} |-> 0]

IsZSet(z, M, S) == DOMAIN z \subseteq M /\ z \in [DOMAIN z -> S]

(* ZADD: the scores of `upd` are written over those of z.                  *)
ZAdd(z, upd) ==
  [m \in DOMAIN z \cup DOMAIN upd |->
      IF m \in DOMAIN upd THEN upd[m] ELSE z[m]]

(* ZREM: removing a member that is not there is a no-op.                   *)
ZRem(z, S) == [m \in DOMAIN z \ S |-> z[m]]

(* ZRANGEBYSCORE z -inf t: the members due at time t.                      *)
Due(z, t) == {m \in DOMAIN z : z[m] <= t}

(* ZRANGEBYSCORE z -inf t LIMIT 0 n: at most n due members, lowest scores  *)
(* first.  Redis orders equal scores by the bytes of the member; members   *)
(* start with a random UUID, so between equal scores any choice is         *)
(* possible.                                                               *)
DueBatches(z, t, n) ==
  {B \in SUBSET Due(z, t) :
      /\ Cardinality(B) <= n
      /\ Cardinality(B) < n => B = Due(z, t)
      /\ \A b \in B, m \in Due(z, t) \ B : z[b] <= z[m]}
=============================================================================
