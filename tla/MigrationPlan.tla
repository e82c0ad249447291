---------------------------- MODULE MigrationPlan ----------------------------
(***************************************************************************)
(* What a build of the application knows about the schema: the rendered    *)
(* plan of its migration Set, the embedded snapshots, and the decisions a  *)
(* Runner takes by comparing them with the recorded history               *)
(* (go/orm/migrations: migration_set.go, down_deriver.go and the           *)
(* validation half of migration_runner.go).                                *)
(*                                                                         *)
(* A database outlives the builds that migrate it, so the plan is indexed  *)
(* by Releases: an older, a newer and an edited build may all be deployed  *)
(* against the same history.                                               *)
(***************************************************************************)
EXTENDS Integers, Sequences

CONSTANTS
    Releases,     \* builds of the application
    Objects,      \* database objects: tables, views, triggers
    Views,        \* the objects with a stored definition a guard can compare
    Columns,      \* columns of tables: a renamed column is the same column
    Types,        \* storage types
    Defs,         \* definitions an object can have: of a table the shapes, of others the source texts
    Sqls,         \* rendered statement texts
    Plan,         \* [Releases -> Seq(RenderedVersion)], what Set.Render returns
    Snapshots,    \* [Releases -> SUBSET Snapshot], the embedded .schema.json files
    Absent        \* an object that does not exist

(***************************************************************************)
(* Table shapes.  A shape gives each of a table's columns a type and a     *)
(* nullability.                                                            *)
(***************************************************************************)
Column == [type: Types, nullable: BOOLEAN]

Shapes == UNION {[C -> Column] : C \in SUBSET Columns}

Nullable(column) == [column EXCEPT !.nullable = TRUE]

\* What is left of a definition when some NOT NULL columns of a table have become nullable.
Loosened(d, of) ==
    \/ d = of
    \/ /\ d \in Shapes /\ of \in Shapes /\ DOMAIN d = DOMAIN of
       /\ \A col \in DOMAIN of : d[col] \in {of[col], Nullable(of[col])}

(***************************************************************************)
(* Rendered plans.  A MigrationStatement is its SQL text and what the      *)
(* engine does with it: a guard compares the object's live definition with *)
(* def, any other statement takes the object to definition def, setting    *)
(* the columns "sets" of a table itself.                                   *)
(***************************************************************************)
Statement == [sql: Sqls, guard: BOOLEAN, object: Objects, def: Defs \cup {Absent}, sets: SUBSET Columns]

\* Mutant of Left: the columns the reverted version added are not dropped.
LeftWithAdded(now, s) ==
    IF now \in Shapes /\ s.def \in Shapes
    THEN [col \in DOMAIN now \cup DOMAIN s.def |->
             IF col \in DOMAIN s.def /\ col \notin DOMAIN now THEN Nullable(s.def[col])
             ELSE IF col \in s.sets THEN s.def[col] ELSE now[col]]
    ELSE s.def

\* What a statement that is no guard leaves of an object that is "now".  A table that exists is
\* altered: a column the statement does not set stays as nullable as it is, one that it only adds
\* back is nullable (the NOT NULL constraint is not derivable), and the others go.
Left(now, s) ==
    IF now \in Shapes /\ s.def \in Shapes
    THEN [col \in DOMAIN s.def |->
             IF col \notin s.sets /\ (col \in DOMAIN now => now[col] = Nullable(s.def[col]))
             THEN Nullable(s.def[col]) ELSE s.def[col]]
    ELSE s.def

DownPlan == [pre: Seq(Statement), core: Seq(Statement), post: Seq(Statement)]

RenderedStep == [object: Objects, up: Seq(Statement), down: DownPlan]

RenderedVersion == [version: Nat, draft: BOOLEAN, steps: Seq(RenderedStep)]

\* A snapshot is what the shadow replayer recorded of an object at a version, with the text the dialect
\* renders its definition to; "foreign" when its stamp names another dialect than the runner's.
Snapshot == [object: Objects, version: Nat, def: Defs, sql: Sqls, foreign: BOOLEAN]

\* What NewSet and Render establish (MIG-002, and the sort): versions ascend,
\* and a version composes an object once.
WellFormed(plan) ==
    /\ \A i, j \in DOMAIN plan : i < j => plan[i].version < plan[j].version
    /\ \A i \in DOMAIN plan : \A m, n \in DOMAIN plan[i].steps :
          plan[i].steps[m].object = plan[i].steps[n].object => m = n

ASSUME PlanAssumption ==
    /\ Views \subseteq Objects
    /\ Absent \notin Defs \cup Shapes
    /\ \A d \in Shapes, of \in Defs : Loosened(d, of) => d \in Defs
    /\ Plan \in [Releases -> Seq(RenderedVersion)]
    /\ \A r \in Releases : WellFormed(Plan[r])
    /\ Snapshots \in [Releases -> SUBSET Snapshot]

(***************************************************************************)
(* The schema_version table: one row per (version, object), with the       *)
(* checksum of the step's Up SQL.  SHA-256 is taken to be injective, so a  *)
(* checksum is the sequence of the statements' texts; like the digest it   *)
(* ignores everything else about a statement.                              *)
(***************************************************************************)
computeChecksum(statements) == [i \in DOMAIN statements |-> statements[i].sql]

Row == [version: Nat, object: Objects, checksum: Seq(Sqls)]

RowOf(v, step) ==
    [version |-> v, object |-> step.object, checksum |-> computeChecksum(step.up)]

VersionRows(rv) == {RowOf(rv.version, rv.steps[i]) : i \in DOMAIN rv.steps}

Versions(rows) == {x.version : x \in rows}

(***************************************************************************)
(* Commands.  op is the Runner method, target the version argument of      *)
(* MigrateDown and Baseline, force is RunOptions.AllowViewDrift.           *)
(***************************************************************************)
Ops == {"migrate", "down", "baseline"}

Command == [op: Ops, release: Releases, target: Nat, force: BOOLEAN]

\* The versions a command works on: migrate applies the unrecorded ones, down
\* reverts the recorded ones above the target, baseline records the unrecorded
\* ones up to it.
Selected(c, rv, recorded) ==
    CASE c.op = "migrate"  -> rv.version \notin Versions(recorded)
      [] c.op = "down"     -> rv.version > c.target /\ rv.version \in Versions(recorded)
      [] c.op = "baseline" -> rv.version <= c.target /\ rv.version \notin Versions(recorded)

\* Migrate and baseline walk versions and steps in order, down walks both backwards.
VersionAt(c, k) ==
    LET plan == Plan[c.release] IN
    IF c.op = "down" THEN plan[Len(plan) + 1 - k] ELSE plan[k]

StepAt(c, rv, k) ==
    IF c.op = "down" THEN rv.steps[Len(rv.steps) + 1 - k] ELSE rv.steps[k]

\* validateHistory, first half: a recorded version lacks the row of one of its
\* steps, or the row's checksum is not the step's.
HistoryDrifted(r, recorded) ==
    \E i \in DOMAIN Plan[r] :
        /\ Plan[r][i].version \in Versions(recorded)
        /\ ~ (VersionRows(Plan[r][i]) \subseteq recorded)

\* validateHistory, second half: a recorded version the plan does not have.
HistoryUnknown(r, recorded) ==
    \E v \in Versions(recorded) : \A i \in DOMAIN Plan[r] : Plan[r][i].version # v

\* Mutant of PendingDraft: the draft gate is missing.
NoDraftGate(c, recorded) == FALSE

\* refusePendingDrafts, with the scope of the command that calls it.
PendingDraft(c, recorded) ==
    \E i \in DOMAIN Plan[c.release] :
        LET rv == Plan[c.release][i] IN
        /\ rv.draft
        /\ rv.version \notin Versions(recorded)
        /\ c.op = "baseline" => rv.version <= c.target

(***************************************************************************)
(* Derived rollbacks.  The snapshot at the version says what the step      *)
(* left, the latest one before it what to restore; a view's (or a          *)
(* trigger's) rollback is guarded by the definition being destroyed.       *)
(***************************************************************************)
SnapshotsAt(r, o, v) == {s \in Snapshots[r] : s.object = o /\ s.version = v}

SnapshotsBefore(r, o, v) == {s \in Snapshots[r] : s.object = o /\ s.version < v}

At(r, o, v) == CHOOSE s \in SnapshotsAt(r, o, v) : TRUE

LatestBefore(r, o, v) ==
    CHOOSE s \in SnapshotsBefore(r, o, v) : \A t \in SnapshotsBefore(r, o, v) : t.version <= s.version

\* The definition the latest earlier snapshot holds; Absent when this version
\* created the object.
DefBefore(r, o, v) == IF SnapshotsBefore(r, o, v) = {} THEN Absent ELSE LatestBefore(r, o, v).def

\* A column that both snapshots have changed its type or its nullability.
TypeChanged(at, before) ==
    /\ at \in Shapes /\ before \in Shapes
    /\ \E col \in DOMAIN at \cap DOMAIN before : at[col] # before[col]

\* Why the rollback of a step cannot be derived: no snapshot at the version, a snapshot of another
\* dialect, a column that changed.
DeriveRefusal(r, o, v) ==
    CASE SnapshotsAt(r, o, v) = {} -> "MIG-020"
      [] OTHER ->
            IF At(r, o, v).foreign \/ (SnapshotsBefore(r, o, v) # {} /\ LatestBefore(r, o, v).foreign) THEN "MIG-014"
            ELSE IF TypeChanged(At(r, o, v).def, DefBefore(r, o, v)) THEN "MIG-020"
            ELSE "ok"

\* The alteration of a table to its previous shape sets no column: those it has stay as they are, those
\* that were dropped are added back.
DeriveDown(r, o, v) ==
    LET at == At(r, o, v)
        expect == [sql |-> at.sql, guard |-> TRUE, object |-> o, def |-> at.def, sets |-> {}]
        drop == [sql |-> at.sql, guard |-> FALSE, object |-> o, def |-> Absent, sets |-> {}]
        restore == [sql |-> at.sql, guard |-> FALSE, object |-> o, def |-> DefBefore(r, o, v), sets |-> {}]
    IN  IF o \notin Views THEN <<restore>>
        ELSE IF SnapshotsBefore(r, o, v) = {} THEN <<expect, drop>>
        ELSE <<expect, drop, restore>>

\* A step needs no derivation when it has nothing to undo or carries a
\* hand-written Down core.
NeedsDerivation(step) == step.up # <<>> /\ step.down.core = <<>>

DownCore(r, v, step) ==
    IF NeedsDerivation(step) THEN DeriveDown(r, step.object, v) ELSE step.down.core

\* The places of the steps in the range whose rollback can be neither derived nor is overridden.
Underivable(c, recorded) ==
    LET plan == Plan[c.release] IN
    {x \in UNION {{<<i, j>> : j \in DOMAIN plan[i].steps} : i \in DOMAIN plan} :
        LET rv == plan[x[1]]
            step == rv.steps[x[2]]
        IN  /\ Selected(c, rv, recorded) /\ NeedsDerivation(step)
            /\ DeriveRefusal(c.release, step.object, rv.version) # "ok"}

\* The first of them ends the run: versions are resolved newest first, a version's steps in order.
FirstUnderivable(places) ==
    CHOOSE x \in places : \A y \in places : y[1] < x[1] \/ (y[1] = x[1] /\ x[2] <= y[2])

DownRefusal(c, recorded) ==
    LET places == Underivable(c, recorded)
        first == FirstUnderivable(places)
        rv == Plan[c.release][first[1]]
    IN  IF places = {} THEN "ok"
        ELSE IF DeriveRefusal(c.release, rv.steps[first[2]].object, rv.version) = "MIG-014" THEN "MIG-014"
        ELSE "MIG-020"

\* The statements a command executes for one step.
StepStatements(c, rv, step) ==
    CASE c.op = "migrate"  -> step.up
      [] c.op = "down"     -> step.down.pre \o DownCore(c.release, rv.version, step)
                                            \o step.down.post
      [] c.op = "baseline" -> <<>>

(***************************************************************************)
(* The outcome of the checks every command makes on the history it read    *)
(* under the run lock, before its first statement.  Baseline does not call *)
(* validateHistory.                                                        *)
(***************************************************************************)
Refusal(c, recorded) ==
    CASE c.op # "baseline" /\ HistoryDrifted(c.release, recorded) -> "MIG-010"
      [] /\ c.op # "baseline"
         /\ ~HistoryDrifted(c.release, recorded)
         /\ HistoryUnknown(c.release, recorded)                   -> "MIG-011"
      [] OTHER ->
            IF c.op # "down" /\ PendingDraft(c, recorded) THEN "MIG-013"
            ELSE IF c.op = "down" THEN DownRefusal(c, recorded)
            ELSE "ok"

\* The history a command leaves when it commits.
TargetRows(c, recorded) ==
    LET plan == Plan[c.release]
        selected == {i \in DOMAIN plan : Selected(c, plan[i], recorded)}
    IN  IF c.op = "down"
        THEN {x \in recorded : \A i \in selected : plan[i].version # x.version}
        ELSE recorded \cup UNION {VersionRows(plan[i]) : i \in selected}

(***************************************************************************)
(* Status reads the committed history without the run lock and decides     *)
(* step by step, on its own, what the commands decide version by version.  *)
(***************************************************************************)
\* Mutant of StepState: a row is found by its key and its checksum is not looked at.
StepStateByKey(h, rv, step) ==
    CASE \E x \in h : x.version = rv.version /\ x.object = step.object -> "applied"
      [] OTHER -> IF rv.version \in Versions(h) THEN "drifted" ELSE IF rv.draft THEN "draft" ELSE "pending"

\* A recorded version without this row, or with another checksum in it, has drifted.
StepState(h, rv, step) ==
    CASE RowOf(rv.version, step) \in h -> "applied"
      [] OTHER -> IF rv.version \in Versions(h) THEN "drifted" ELSE IF rv.draft THEN "draft" ELSE "pending"

StepStates(r, h) ==
    UNION {{StepState(h, Plan[r][i], Plan[r][i].steps[j]) : j \in DOMAIN Plan[r][i].steps} : i \in DOMAIN Plan[r]}

\* The recorded rows the plan does not compose, by version and object.
UnknownRows(r, h) ==
    {x \in h : \A i \in DOMAIN Plan[r] : Plan[r][i].version = x.version =>
                   \A j \in DOMAIN Plan[r][i].steps : Plan[r][i].steps[j].object # x.object}

HasPending(r, h) == StepStates(r, h) \cap {"pending", "draft"} # {}

\* Every recorded version is, row for row, what some build composes for it, and
\* was no draft there.
WholeHistory(h) ==
    \A v \in Versions(h) : \E r \in Releases : \E i \in DOMAIN Plan[r] :
        /\ Plan[r][i].version = v
        /\ ~Plan[r][i].draft
        /\ {x \in h : x.version = v} = VersionRows(Plan[r][i])

=============================================================================
