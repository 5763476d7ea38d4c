----------------------------- MODULE SearchIndex -----------------------------
(***************************************************************************)
(* ensureIndex: the processes of one or two releases bring a RediSearch    *)
(* index up to date at their start.  The index and the hash of its schema  *)
(* (index_schema:<name>) are two things in Redis, changed by separate      *)
(* commands of any number of processes that do not know of each other.  A  *)
(* schema stands for its hash.  Start-up runs it for two indexes, one      *)
(* after the other, which share nothing; the model has one.                *)
(***************************************************************************)
EXTENDS FiniteSets

CONSTANTS Process, Schema, NoSchema,
          SchemaOf        \* the schema the release of each process wants

ASSUME SchemaAssumption == SchemaOf \in [Process -> Schema] /\ NoSchema \notin Schema

VARIABLES
  indexed,   \* the schema the index was created with; NoSchema: no index
  version,   \* index_schema:<name>
  step,      \* the command each process is about to send
  have       \* what it has read of version, until it is used

indexVars == <<indexed, version, step, have>>

Command == {"get", "info", "drop", "create", "set"}

IndexTypeOK ==
  /\ indexed \in Schema \cup {NoSchema} /\ version \in Schema \cup {NoSchema}
  /\ step \in [Process -> Command \cup {"idle", "done", "failed"}]
  /\ have \in [Process -> Schema \cup {NoSchema}]

(* A new store, or one that a release (this one or another) has used.      *)
IndexInit ==
  /\ indexed \in Schema \cup {NoSchema} /\ version = indexed
  /\ step = [p \in Process |-> "idle"]
  /\ have = [p \in Process |-> NoSchema]

Goto(p, s) == step' = [step EXCEPT ![p] = s]

(* A process starts, or starts again.                                      *)
Begin(p) ==
  /\ step[p] \in {"idle", "done", "failed"}
  /\ Goto(p, "get")
  /\ UNCHANGED <<indexed, version, have>>

GetVersion(p) ==
  /\ step[p] = "get"
  /\ have' = [have EXCEPT ![p] = version]
  /\ Goto(p, "info")
  /\ UNCHANGED <<indexed, version>>

(* Mutant: the version alone decides, whether or not the index is there.   *)
InfoTrustsVersion(p) ==
  /\ step[p] = "info"
  /\ Goto(p, IF have[p] = SchemaOf[p] THEN "done"
             ELSE IF indexed = NoSchema THEN "create" ELSE "drop")
  /\ have' = [have EXCEPT ![p] = NoSchema]
  /\ UNCHANGED <<indexed, version>>

(* FT.INFO.                                                                *)
Info(p) ==
  /\ step[p] = "info"
  /\ Goto(p, IF indexed = NoSchema THEN "create"
             ELSE IF have[p] = SchemaOf[p] THEN "done" ELSE "drop")
  /\ have' = [have EXCEPT ![p] = NoSchema]
  /\ UNCHANGED <<indexed, version>>

(* FT.DROPINDEX; an index that is not there (any more) is not an error.    *)
DropIndex(p) ==
  /\ step[p] = "drop"
  /\ indexed' = NoSchema
  /\ Goto(p, "create")
  /\ UNCHANGED <<version, have>>

(* FT.CREATE; "Index already exists" is taken for success.                 *)
Created(p) == IF indexed = NoSchema THEN SchemaOf[p] ELSE indexed

CreateIndex(p) ==
  /\ step[p] = "create"
  /\ indexed' = Created(p)
  /\ Goto(p, "set")
  /\ UNCHANGED <<version, have>>

SetVersion(p) ==
  /\ step[p] = "set"
  /\ version' = SchemaOf[p]
  /\ Goto(p, "done")
  /\ UNCHANGED <<indexed, have>>

(* A command fails or the process dies, before or after it took effect:    *)
(* the start-up is over.                                                   *)
EnsureFails(p) ==
  /\ step[p] \in Command
  /\ \/ UNCHANGED <<indexed, version>>
     \/ step[p] = "drop" /\ indexed' = NoSchema /\ UNCHANGED version
     \/ step[p] = "create" /\ indexed' = Created(p) /\ UNCHANGED version
     \/ step[p] = "set" /\ version' = SchemaOf[p] /\ UNCHANGED indexed
  /\ Goto(p, "failed")
  /\ have' = [have EXCEPT ![p] = NoSchema]

(* A step of ensureIndex that is neither its beginning nor its failure.    *)
EnsureStep(p) ==
  GetVersion(p) \/ Info(p) \/ DropIndex(p) \/ CreateIndex(p) \/ SetVersion(p)

IndexNext == \E p \in Process : Begin(p) \/ EnsureStep(p) \/ EnsureFails(p)

IndexSpec == IndexInit /\ [][IndexNext]_indexVars

-----------------------------------------------------------------------------
(* Every process that has started has come through.                        *)
Settled == \A p \in Process : step[p] \in {"idle", "done"}

(* (comment at templating.go:199) Processes of one release that start      *)
(* together drop and create the same index in any order, and any of them   *)
(* may die on the way: once all that started have come through, the index  *)
(* exists with their schema and the version says so.                       *)
SettledIndexRight ==
  Settled => \A p \in Process : step[p] = "done" =>
               indexed = SchemaOf[p] /\ version = SchemaOf[p]
=============================================================================
