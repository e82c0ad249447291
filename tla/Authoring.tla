------------------------------ MODULE Authoring ------------------------------
(***************************************************************************)
(* How migrations are written and kept true: the author edits the entity   *)
(* model and the commands diff, snapshot, shadow, migrate [--force] and    *)
(* validate (cli/cli.go, migrations/diff_command.go, shadow.go,            *)
(* schema_sync.go, schema_guard.go) read and write                         *)
(*   - the migrations tree: roots, step files and snapshots per version,   *)
(*   - the Set compiled into the program: the versions 1..registered,      *)
(*   - the database: the recorded history and the live objects.            *)
(*                                                                         *)
(* Every command is a fresh build of the program, so it runs only when the *)
(* tree compiles.  A tree a failed command left in pieces is otherwise     *)
(* restored from version control, to a state already reached.              *)
(***************************************************************************)
EXTENDS SchemaDiff, FiniteSetsExt

CONSTANTS
    Tables, Views, Triggers,    \* the mapped objects, by kind
    EntityOrder,                \* tables and views in the order of their types' names
    TriggerOrder,               \* triggers in the order of their classes' names
    Requires,                   \* object -> the objects it cannot be created without
    Selects,                    \* view definition -> the columns its SQL selects
    Models,                     \* the entity models the author may have: defs, renamed_from, and the
                                \* columns a view's entity maps
    FirstModels,                \* the ones a project may start from
    RenameFlags,                \* table -> --rename flags
    OutsideIndexes,             \* indexes added directly to a table of the database
    MaxVersion,                 \* bound: the highest version number
    MaxEdits,                   \* bound: how often the author edits the model
    MaxOdd,                     \* bound: how many odd things happen: a step is written by hand, a
                                \* draft is asked for, a diff is interrupted, an index is added outside
    NoFile                      \* a file that is not there, a version that is not recorded

ASSUME AuthoringAssumption ==
    /\ MaxVersion \in Nat
    /\ EntityOrder \in Seq(Tables \cup Views) /\ TriggerOrder \in Seq(Triggers)

VARIABLES
    model,        \* the entity model of the program
    edits,        \* how often it was edited
    odd,          \* how many odd things happened
    tree,         \* roots, step files and snapshots
    registered,   \* the Set is the versions 1..registered
    applied,      \* the recorded history: per version, the checksum of each step
    live,         \* the objects of the database
    last          \* the command that ran last, the version it was about, whether it succeeded

vars == <<model, edits, odd, tree, registered, applied, live, last>>

Objects == Tables \cup Views \cup Triggers

Versions == 1..MaxVersion

Mapped == {o \in Objects : model.defs[o] # Absent}

\* last keeps what a property asks about: a command that succeeded and the version it was about.
Quiet == [cmd |-> "none", at |-> 0, from |-> 0]

Command(cmd, at, ok) == last' = IF ok THEN [Quiet EXCEPT !.cmd = cmd, !.at = at] ELSE Quiet

Init ==
    /\ model \in FirstModels
    /\ edits = 0
    /\ odd = 0
    /\ tree = [root |-> [v \in Versions |-> NoFile],
               file |-> [v \in Versions |-> [o \in Objects |-> NoFile]],
               snap |-> [v \in Versions |-> [o \in Objects |-> Absent]]]
    /\ registered = 0
    /\ applied = [v \in Versions |-> NoFile]
    /\ live = [o \in Objects |-> Absent]
    /\ last = Quiet

\* The members of a set in the order of their names.  (SelectSeq, as a function of the position.)
Listed(order, set) ==
    LET at == {i \in DOMAIN order : order[i] \in set}
    IN  [n \in 1..Cardinality(at) |-> order[CHOOSE i \in at : Cardinality({j \in at : j <= i}) = n]]

-----------------------------------------------------------------------------
(***************************************************************************)
(* Running versions                                                        *)
(***************************************************************************)
Composed(t, v) == IF t.root[v] = NoFile THEN {} ELSE ToSet(t.root[v].steps)

Compiles ==
    \A v \in 1..registered : tree.root[v] # NoFile /\ \A o \in Composed(tree, v) : tree.file[v][o] # NoFile

ExecStatement(db, o, s, allowDrift) ==
    LET after == IF o \in Tables THEN ExecTable(db[o], s) ELSE ExecDefinition(db[o], s, allowDrift)
        creates == s.op \in {"createTable", "create"}
    IN  IF after = Failed \/ (creates /\ \E r \in Requires[o] : db[r] = Absent) THEN Failed
        ELSE [db EXCEPT ![o] = after]

ExecStep(db, o, up, allowDrift) ==
    RunAll(LAMBDA state, s : ExecStatement(state, o, s, allowDrift), db, up)

ExecVersion(db, t, v, allowDrift) ==
    RunAll(LAMBDA state, o : ExecStep(state, o, t.file[v][o].up, allowDrift), db, t.root[v].steps)

ExecVersions(db, t, versions, allowDrift) ==
    RunAll(LAMBDA state, v : ExecVersion(state, t, v, allowDrift), db, versions)

Empty == [o \in Objects |-> Absent]

UpTo(n) == [v \in 1..n |-> v]

\* The schema the versions 1..n of a tree produce from nothing.
Replay(t, n) == ExecVersions(Empty, t, UpTo(n), FALSE)

-----------------------------------------------------------------------------
(***************************************************************************)
(* The recorded past: snapshots and the steps below a version              *)
(***************************************************************************)
SnapshotVersions(t, o, v) == {u \in Versions : u < v /\ t.snap[u][o] # Absent}

LatestVersionBelow(t, o, v) == Max(SnapshotVersions(t, o, v) \cup {0})

LatestBelow(t, o, v) ==
    IF SnapshotVersions(t, o, v) = {} THEN Absent ELSE t.snap[LatestVersionBelow(t, o, v)][o]

\* The newest version below v with a step of the object, 0 when there is none.
NewestStepBelow(o, v) == Max({u \in 1..registered : u < v /\ o \in Composed(tree, u)} \cup {0})

Unrecorded(v) == {o \in Mapped : LatestBelow(tree, o, v) = Absent /\ NewestStepBelow(o, v) # 0}

\* A trigger no entity links any more, unless its newest step is the removal already emitted.
triggerRemovals(v) ==
    {g \in Triggers \ Mapped : /\ SnapshotVersions(tree, g, v) # {}
                               /\ NewestStepBelow(g, v) <= LatestVersionBelow(tree, g, v)}

\* The removal step needs the entity of the trigger's relation.
RemovalRefused(v) == \E g \in triggerRemovals(v) : ~(Requires[g] \subseteq Mapped)

-----------------------------------------------------------------------------
(***************************************************************************)
(* diff: what would be written                                             *)
(***************************************************************************)
Known(o, v) == LatestBelow(tree, o, v) # Absent

\* The diff of every table that has a recorded schema.
TableDiffs(v, renames) ==
    [o \in {t \in Tables \cap Mapped : Known(t, v)} |->
        DiffSchemas(model.defs[o], LatestBelow(tree, o, v), renames[o], model.renamed[o])]

NoFlags == [t \in Tables |-> <<>>]

NewTables(v) == Listed(EntityOrder, {o \in Tables \cap Mapped : ~Known(o, v)})

ModifiedTables(diffs) == Listed(EntityOrder, {o \in DOMAIN diffs : HasChanges(diffs[o])})

Changed(o, v) == o \in Mapped /\ model.defs[o] # LatestBelow(tree, o, v)

\* A depth-first walk: a new table comes after the new tables it references.  visit gives what a node
\* adds to the order when some nodes have been visited.
visitAll(newTables) ==
    LET visit[visited \in SUBSET Tables, node \in Tables] ==
            IF node \in visited THEN <<>>
            ELSE Append(FoldLeft(LAMBDA found, o : IF o \notin Requires[node] THEN found
                                     ELSE found \o visit[visited \cup {node} \cup ToSet(found), o],
                                 <<>>, newTables), node)
    IN  FoldLeft(LAMBDA found, o : found \o visit[ToSet(found), o], <<>>, newTables)

\* Mutant of topologicalByForeignKey: the new tables stay in the order of their names.
ByName(newTables) == newTables

\* Every new table, once.
topologicalByForeignKey(newTables) == [i \in DOMAIN newTables |-> visitAll(newTables)[i]]

\* New tables, modified tables, views, linked triggers, removed triggers.
PlannedSteps(v, diffs) ==
    topologicalByForeignKey(NewTables(v)) \o ModifiedTables(diffs)
    \o Listed(EntityOrder, {o \in Views : Changed(o, v)})
    \o Listed(TriggerOrder, {g \in Triggers : Changed(g, v)})
    \o Listed(TriggerOrder, triggerRemovals(v))

EmitStep(o, v, diffs) ==
    [generated |-> TRUE,
     up |-> CASE o \in Tables \ DOMAIN diffs -> EmitNewTable(model.defs[o])
              [] o \in DOMAIN diffs -> EmitTableStep(model.defs[o], diffs[o])
              [] o \in Views -> EmitViewStep(model.defs[o], LatestBelow(tree, o, v))
              [] o \in Triggers -> EmitTriggerStep(model.defs[o], LatestBelow(tree, o, v))]

\* Mutant of Unsupported: DDL-004 is not raised.
UnsupportedEmitted(diffs) == FALSE

\* DDL-004 and DDL-003
Unsupported(diffs) == \E o \in DOMAIN diffs : diffs[o].unsupported

Destructive(v, diffs) ==
    \/ triggerRemovals(v) # {}
    \/ \E o \in DOMAIN diffs : diffs[o].removed # {} \/ diffs[o].removedIndexes # {}

StepFiles(v) == {o \in Objects : tree.file[v][o] # NoFile}

HandWritten(v) == ~tree.root[v].generated \/ \E o \in StepFiles(v) : ~tree.file[v][o].generated

\* Mutant of locateVersionFiles: only the root's header is looked at.
locateRootOnly(v, force) ==
    /\ v # 0
    /\ tree.root[v] # NoFile
    /\ tree.root[v].generated \/ force
    /\ Len(tree.root[v].steps) = Cardinality(StepFiles(v))

\* An amend replaces the newest version only when its files are the generator's, or --force.
locateVersionFiles(v, force) ==
    /\ v # 0
    /\ tree.root[v] # NoFile
    /\ ~HandWritten(v) \/ force
    /\ Len(tree.root[v].steps) = Cardinality(StepFiles(v))

OverwriteRefused(v, amend, steps) ==
    /\ ~amend /\ steps # <<>>
    /\ tree.root[v] # NoFile \/ \E o \in ToSet(steps) : tree.file[v][o] # NoFile

DiffRefused(v, amend, diffs, steps) ==
    \/ RemovalRefused(v)
    \/ Unrecorded(v) # {}
    \/ Unsupported(diffs)
    \/ OverwriteRefused(v, amend, steps)

\* Mutant of EmitRoot: an amend forgets that the version was a draft.
EmitRootAnew(v, draft, steps) == [generated |-> TRUE, draft |-> draft, steps |-> steps]

EmitRoot(v, draft, steps) ==
    [generated |-> TRUE, draft |-> draft \/ (tree.root[v] # NoFile /\ tree.root[v].draft), steps |-> steps]

\* The commit phase: what is replaced and not rewritten goes first (root, steps, snapshots), the
\* steps are written in order, the root last.  No file is written twice.
CommitPlan(v, amend, draft, steps, diffs) ==
    LET Deleting(place, objects, none) ==
            LET ordered == Listed(EntityOrder \o TriggerOrder, objects)
            IN  [i \in DOMAIN ordered |-> [place |-> place, object |-> ordered[i], content |-> none]]
        Root(content) == <<[place |-> "root", object |-> "root", content |-> content]>>
        deletions == (IF steps = <<>> THEN Root(NoFile) ELSE <<>>)
                     \o Deleting("step", StepFiles(v) \ ToSet(steps), NoFile)
                     \o Deleting("snapshot", {o \in Objects : tree.snap[v][o] # Absent}, Absent)
        writes == [i \in DOMAIN steps |-> [place |-> "step", object |-> steps[i],
                                           content |-> EmitStep(steps[i], v, diffs)]]
    IN  (IF amend THEN deletions ELSE <<>>) \o writes
        \o (IF steps = <<>> THEN <<>> ELSE Root(EmitRoot(v, draft, steps)))

\* A file after some operations of the commit phase.
Written(done, place, object, old) ==
    LET its == {w \in done : w.place = place /\ w.object = object}
    IN  IF its = {} THEN old ELSE (CHOOSE w \in its : TRUE).content

Committed(v, done) ==
    [tree EXCEPT !.root[v] = Written(done, "root", "root", @),
                 !.file[v] = [o \in Objects |-> Written(done, "step", o, @[o])],
                 !.snap[v] = [o \in Objects |-> Written(done, "snapshot", o, @[o])]]

-----------------------------------------------------------------------------
(***************************************************************************)
(* The author                                                              *)
(***************************************************************************)
EditModel(m) ==
    /\ edits < MaxEdits /\ m # model
    /\ model' = m
    /\ edits' = edits + 1
    /\ last' = Quiet
    /\ UNCHANGED <<odd, tree, registered, applied, live>>

\* The next version is added to the Set; a version whose root is gone is taken out of it.
Register ==
    /\ registered < MaxVersion /\ tree.root[registered + 1] # NoFile
    /\ registered' = registered + 1
    /\ last' = Quiet
    /\ UNCHANGED <<model, edits, odd, tree, applied, live>>

Unregister ==
    /\ registered > 0 /\ tree.root[registered] = NoFile
    /\ registered' = registered - 1
    /\ last' = Quiet
    /\ UNCHANGED <<model, edits, odd, tree, applied, live>>

\* What the generator refuses is written by hand, in the next version; and a step of the newest
\* version, registered or not, is rewritten by hand.
HandWrite(v, o) ==
    /\ odd < MaxOdd /\ odd' = odd + 1
    /\ o \in Tables \cap Mapped
    /\ \/ v = registered + 1 /\ v <= MaxVersion /\ tree.root[v] = NoFile
          /\ Known(o, v) /\ TableDiffs(v, NoFlags)[o].unsupported
       \/ v \in {registered, registered + 1} \cap Versions /\ o \in Composed(tree, v)
    /\ LET step == [generated |-> FALSE, up |-> <<[op |-> "rewrite", table |-> model.defs[o]]>>]
           root == [generated |-> FALSE, draft |-> FALSE, steps |-> <<o>>]
       IN  tree' = [tree EXCEPT !.file[v][o] = step, !.root[v] = IF @ = NoFile THEN root ELSE @]
    /\ Command("write", v, TRUE)
    /\ UNCHANGED <<model, edits, registered, applied, live>>

\* The reviewed draft loses its marker.
Review(v) ==
    /\ tree.root[v] # NoFile /\ tree.root[v].draft
    /\ tree' = [tree EXCEPT !.root[v].draft = FALSE]
    /\ Command("review", v, TRUE)
    /\ UNCHANGED <<model, edits, odd, registered, applied, live>>

\* An index somebody adds directly to the database.
Hotfix(o, index) ==
    /\ odd < MaxOdd /\ odd' = odd + 1
    /\ live[o] # Absent
    /\ index.name \notin {i.name : i \in live[o].indexes}
    /\ LET after == ExecTable(live[o], [op |-> "createIndex", index |-> index])
       IN  after # Failed /\ live' = [live EXCEPT ![o] = after]
    /\ last' = Quiet
    /\ UNCHANGED <<model, edits, tree, registered, applied>>

-----------------------------------------------------------------------------
(***************************************************************************)
(* diff [--amend [--force]] [--draft] [--allow-remove] [--rename]          *)
(***************************************************************************)
DiffName(amend, force) == IF ~amend THEN "diff" ELSE IF force THEN "amend by force" ELSE "amend"

\* The files are written one by one, and a file operation may fail.
Commit(v, amend, force, draft, steps, diffs) ==
    LET writes == CommitPlan(v, amend, draft, steps, diffs)
    IN  \E done \in 0..Len(writes) :
           /\ odd' = IF done < Len(writes) \/ draft THEN odd + 1 ELSE odd
           /\ odd' <= MaxOdd
           /\ tree' = Committed(v, {writes[i] : i \in 1..done})
           /\ Command(IF done = Len(writes) THEN DiffName(amend, force)
                      ELSE IF force THEN "interrupted by force" ELSE "interrupted", v, TRUE)

\* The options that only gate or mark what was planned: --force, --draft, --allow-remove.
ExecuteDiff(amend, renames) ==
    LET v == IF amend THEN registered ELSE registered + 1
        diffs == TableDiffs(v, renames)
        steps == PlannedSteps(v, diffs)
        refused == DiffRefused(v, amend, diffs, steps)
        destructive == Destructive(v, diffs)
    IN  /\ Compiles /\ v <= MaxVersion
        /\ \E force, draft, allowRemove \in BOOLEAN :
              /\ force => amend
              /\ IF (amend /\ ~locateVersionFiles(v, force)) \/ refused \/ (destructive /\ ~allowRemove)
                 THEN UNCHANGED <<tree, odd>> /\ last' = Quiet
                 ELSE Commit(v, amend, force, draft, steps, diffs)
        /\ UNCHANGED <<model, edits, registered, applied, live>>

-----------------------------------------------------------------------------
(***************************************************************************)
(* snapshot: the model's shape of every object that Status lists, at the   *)
(* last version touching it: a step of the plan or a row of the history,   *)
(* unknown ones included.  The database is asked for nothing else.         *)
(***************************************************************************)
LastTouching(o) ==
    Max({NewestStepBelow(o, registered + 1)} \cup {v \in Versions : applied[v] # NoFile /\ o \in DOMAIN applied[v]})

runSnapshot ==
    /\ Compiles /\ registered > 0
    /\ tree' = [tree EXCEPT !.snap =
               [v \in Versions |-> [o \in Objects |->
                   IF o \in Mapped /\ LastTouching(o) = v THEN model.defs[o] ELSE tree.snap[v][o]]]]
    /\ last' = Quiet
    /\ UNCHANGED <<model, edits, odd, registered, applied, live>>

(***************************************************************************)
(* shadow [--from] [--to]: the versions above from are replayed into a     *)
(* throwaway database that starts as the snapshots at or below it, and     *)
(* what each of them touched is snapshotted; a failure keeps what was      *)
(* written before it.                                                      *)
(***************************************************************************)
RestoreOrder == SelectSeq(EntityOrder, LAMBDA o : o \in Tables) \o SelectSeq(EntityOrder, LAMBDA o : o \in Views) \o TriggerOrder

\* The snapshots of tables know no foreign keys; a view or a trigger needs its table.
restoreBaseline(from) ==
    RunAll(LAMBDA db, o :
               IF LatestBelow(tree, o, from + 1) = Absent THEN db
               ELSE IF o \notin Tables /\ \E r \in Requires[o] : db[r] = Absent THEN Failed
               ELSE [db EXCEPT ![o] = LatestBelow(tree, o, from + 1)],
           Empty, RestoreOrder)

\* Mutant of SnapshotOf: a view or a trigger is recorded by the model, not by its step.
SnapshotOfModel(o, db, up, old) == IF o \in Mapped \ Tables THEN model.defs[o] ELSE db[o]

\* What the creates and drops of a step leave behind, Absent when the last one dropped it.
viewHistory(up) ==
    LET changes == SelectSeq(up, LAMBDA s : s.op \in {"create", "drop"})
    IN  IF changes = <<>> \/ Last(changes).op = "drop" THEN Absent ELSE Last(changes).definition

\* A table is introspected, a view or a trigger is what its step leaves; what the step dropped, and
\* what no entity maps, keeps the snapshot file it has.
SnapshotOf(o, db, up, old) ==
    IF o \in Tables \cup Views /\ o \notin Mapped THEN old
    ELSE LET recorded == IF o \in Tables THEN db[o] ELSE viewHistory(up)
         IN  IF recorded = Absent THEN old ELSE recorded

ShadowVersion(state, v) ==
    LET db == ExecVersion(state.db, tree, v, FALSE)
    IN  IF state.db = Failed \/ db = Failed THEN [state EXCEPT !.db = Failed]
        ELSE [db |-> db,
              snap |-> [state.snap EXCEPT ![v] =
                           [o \in Objects |-> IF o \in Composed(tree, v)
                                              THEN SnapshotOf(o, db, tree.file[v][o].up, @[o]) ELSE @[o]]]]

Shadow(from, to) ==
    /\ Compiles /\ registered > 0 /\ from < to /\ to <= registered
    /\ LET replayed == FoldLeft(ShadowVersion, [db |-> restoreBaseline(from), snap |-> tree.snap],
                                [i \in 1..(to - from) |-> from + i])
       IN  /\ tree' = [tree EXCEPT !.snap = replayed.snap]
           /\ last' = IF replayed.db = Failed THEN Quiet ELSE [cmd |-> "shadow", at |-> to, from |-> from]
    /\ UNCHANGED <<model, edits, odd, registered, applied, live>>

-----------------------------------------------------------------------------
(***************************************************************************)
(* migrate [--force [--allow-delete]] and validate                         *)
(***************************************************************************)
Rows(v) == [o \in Composed(tree, v) |-> tree.file[v][o].up]

Pending == SelectSeq(UpTo(registered), LAMBDA v : applied[v] = NoFile)

HistoryRefused ==
    \/ \E v \in 1..registered : applied[v] # NoFile /\ \E o \in Composed(tree, v) :
          o \notin DOMAIN applied[v] \/ applied[v][o] # tree.file[v][o].up              \* MIG-010
    \/ \E v \in Versions : v > registered /\ applied[v] # NoFile                        \* MIG-011
    \/ \E i \in DOMAIN Pending : tree.root[Pending[i]].draft                            \* MIG-013

\* Statement by statement, outside a transaction: what ran before a failure stays.
ApplySync(state, o, statements) ==
    FoldLeft(LAMBDA s, statement :
                 LET after == ExecStatement(s.db, o, statement, FALSE)
                 IN  IF ~s.ok \/ after = Failed THEN [s EXCEPT !.ok = FALSE] ELSE [s EXCEPT !.db = after],
             state, statements)

\* All additions, then, when they are allowed, all deletions; both were planned before the first one ran.
runForceSync(db, allowDelete) ==
    LET tables == SelectSeq(EntityOrder, LAMBDA o : o \in Tables \cap Mapped)
        added == FoldLeft(LAMBDA s, o : ApplySync(s, o, SyncAdditive(db[o], model.defs[o])), [db |-> db, ok |-> TRUE], tables)
        synced == IF ~allowDelete THEN added
                  ELSE FoldLeft(LAMBDA s, o : ApplySync(s, o, SyncDeletions(db[o], model.defs[o])), added, tables)
        unsupported == \E i \in DOMAIN tables : SyncUnsupported(db[tables[i]], model.defs[tables[i]])
    IN  [synced EXCEPT !.ok = @ /\ ~unsupported]

MigrateName(force, allowDelete) ==
    IF ~force THEN "migrate" ELSE IF allowDelete THEN "sync with deletions" ELSE "sync"

\* The pending versions run in one transaction.
runMigrate(force, allowDelete) ==
    LET migrated == ExecVersions(live, tree, Pending, force)
        recorded == [v \in Versions |-> IF v \in ToSet(Pending) THEN Rows(v) ELSE applied[v]]
        synced == runForceSync(migrated, allowDelete)
    IN  /\ Compiles /\ registered > 0 /\ (allowDelete => force)
        /\ IF HistoryRefused \/ migrated = Failed
           THEN UNCHANGED <<applied, live>> /\ Command(MigrateName(force, allowDelete), registered, FALSE)
           ELSE /\ applied' = recorded
                /\ live' = IF force THEN synced.db ELSE migrated
                /\ Command(MigrateName(force, allowDelete), registered, force => synced.ok)
        /\ UNCHANGED <<model, edits, odd, tree, registered>>

\* SchemaGuard: every mapped table and view is there with the columns its entity maps, a table's with
\* the types and constraints the model relies on.
validateEntity(o) ==
    /\ live[o] # Absent
    /\ o \in Views => model.fields[o] \subseteq Selects[live[o]]
    /\ o \in Tables => \A c \in DOMAIN model.defs[o].columns :
          /\ c \in DOMAIN live[o].columns
          /\ live[o].columns[c].type = model.defs[o].columns[c].type
          /\ live[o].columns[c].nullable => model.defs[o].columns[c].nullable

\* Status, row by row: nothing is pending, drifted or unknown.
checkMigrations ==
    \A v \in Versions : applied[v] = IF v <= registered THEN Rows(v) ELSE NoFile

Valid ==
    /\ checkMigrations
    /\ \A o \in Mapped \cap (Tables \cup Views) : validateEntity(o)

\* The commands, with the options they take.
runDiff == \E amend \in BOOLEAN, renames \in RenameFlags : ExecuteDiff(amend, renames)

runShadow == \E from \in 0..MaxVersion, to \in Versions : Shadow(from, to)

Next ==
    \/ \E m \in Models : EditModel(m)
    \/ Register
    \/ Unregister
    \/ \E v \in Versions, o \in Tables : HandWrite(v, o)
    \/ \E v \in Versions : Review(v)
    \/ \E o \in Tables, index \in OutsideIndexes : Hotfix(o, index)
    \/ runDiff
    \/ runSnapshot
    \/ runShadow
    \/ \E force, allowDelete \in BOOLEAN : runMigrate(force, allowDelete)

Spec == Init /\ [][Next]_vars

-----------------------------------------------------------------------------
(***************************************************************************)
(* Properties                                                              *)
(***************************************************************************)
Agrees(db, o) == IF o \in Tables THEN SameShape(db[o], model.defs[o]) ELSE db[o] = model.defs[o]

\* What the snapshots say of an object below a version; a trigger step above the newest snapshot is its removal.
RecordedBelow(o, v) ==
    IF o \in Triggers /\ NewestStepBelow(o, v) > LatestVersionBelow(tree, o, v) THEN Absent ELSE LatestBelow(tree, o, v)

\* The snapshots below a version tell the truth about what the versions below it produce.
Honest(v) ==
    LET db == Replay(tree, v - 1)
    IN  /\ db # Failed
        /\ \A o \in Mapped : LatestBelow(tree, o, v) = db[o]
        /\ \A g \in Triggers \ Mapped : RecordedBelow(g, v) = db[g]

DiffSucceeded == last'.cmd \in {"diff", "amend", "amend by force"}

\* The newest version the diff left in the tree: none is emitted, or it is removed, when nothing changed.
After(v) == IF tree'.root[v] = NoFile \/ (last'.cmd = "diff" /\ tree' = tree) THEN v - 1 ELSE v

ReachesModel(v) ==
    LET db == Replay(tree', After(v))
    IN  /\ db # Failed
        /\ \A o \in Mapped : Agrees(db, o)
        /\ \A g \in Triggers \ Mapped : db[g] = Absent

\* A generated step drops a column that an index of the snapshot covers.
DropsIndexedColumn(v) ==
    \E o \in Tables : tree'.file[v][o] # NoFile /\ \E i \in DOMAIN tree'.file[v][o].up :
        LET s == tree'.file[v][o].up[i]
        IN  s.op = "dropColumn" /\ \E index \in LatestBelow(tree, o, v).indexes : Covers(index, s.column)

\* The generator's promise: where the snapshots below the target version are honest, a diff (or an
\* amend) that succeeds leaves a tree whose versions, replayed from nothing, run without an error and
\* produce exactly the model: every table's shape, every view, every linked trigger and no other.
\* Steps that drop an indexed column are the subject of GeneratedStepRuns.
GeneratedReachesModel ==
    [][DiffSucceeded /\ Honest(last'.at) /\ ~DropsIndexedColumn(last'.at) => ReachesModel(last'.at)]_vars

\* A generated step runs on the schema it was generated for, whatever it removes.
GeneratedStepRuns ==
    [][DiffSucceeded /\ Honest(last'.at) => Replay(tree', After(last'.at)) # Failed]_vars

\* A trigger the record says is removed is created again when an entity links it again.
RelinkedTriggerCreated ==
    [][DiffSucceeded /\ (\A o \in Objects : RecordedBelow(o, last'.at) = Replay(tree, last'.at - 1)[o])
          => \A g \in Triggers \cap Mapped : Replay(tree', After(last'.at))[g] = model.defs[g]]_vars

\* A file without the generator's header is replaced or deleted only by its author or by amend --force,
\* whatever is left registered, half written or amended.
HandWrittenKept ==
    [][\A v \in Versions, o \in Objects :
          /\ tree.file[v][o] # NoFile
          /\ ~tree.file[v][o].generated
          /\ tree'.file[v][o] # tree.file[v][o]
          => last'.cmd \in {"write", "amend by force", "interrupted by force"}]_vars

\* Regeneration never makes an unreviewed draft applicable: while its root exists, a version loses the
\* draft marker only in the author's review.
DraftReviewed ==
    [][\A v \in Versions :
          /\ tree.root[v] # NoFile /\ tree'.root[v] # NoFile
          /\ tree.root[v].draft /\ ~tree'.root[v].draft
          => last'.cmd = "review"]_vars

\* After a shadow replay that succeeded from a truthful baseline, every version it replayed has, for
\* every mapped object the version composes and does not drop, a snapshot of what the versions up to it
\* produce.  (What a version drops keeps the snapshot file it may have there.)
ShadowRecords ==
    [][last'.cmd = "shadow" /\ Honest(last'.from + 1) =>
          \A v \in (last'.from + 1)..last'.at :
             LET db == Replay(tree, v)
             IN  \A o \in Mapped \cap Composed(tree, v) : db[o] # Absent => tree'.snap[v][o] = db[o]]_vars

\* An index of the table has another definition under the same name in the model, on columns that stay.
RedefinesIndex(db, o) ==
    /\ db[o] # Absent
    /\ \E old \in db[o].indexes, new \in model.defs[o].indexes :
          /\ old.name = new.name /\ IndexSignature(old) # IndexSignature(new)
          /\ \A c \in DOMAIN db[o].columns : Covers(old, c) => c \in DOMAIN model.defs[o].columns

\* migrate --force --allow-delete that reports success leaves every mapped table with the model's
\* columns and, up to their names, the model's indexes, whatever was changed outside.  A table with an
\* index redefined in place is left out: creating the new one does nothing while the old one has its name,
\* the deletion then drops that, and the command reports success (PlanSync, runForceSync).
SyncReachesModel ==
    [][last'.cmd = "sync with deletions" =>
          \A o \in Tables \cap Mapped :
             ~RedefinesIndex(ExecVersions(live, tree, Pending, TRUE), o) => SameShape(live'[o], model.defs[o])]_vars

\* The generator and the schema guard agree: when the diff finds nothing to emit over honest snapshots
\* and the database is what the versions produce, validate finds nothing to report, provided the SQL of
\* every mapped view selects what its entity maps (the diff compares a view's SQL, the guard its columns).
UnchangedIsValid ==
    /\ Compiles /\ registered > 0 /\ checkMigrations
    /\ Honest(registered + 1) /\ live = Replay(tree, registered)
    /\ \A w \in Views \cap Mapped : model.fields[w] \subseteq Selects[model.defs[w]]
    /\ LET diffs == TableDiffs(registered + 1, NoFlags)
       IN  PlannedSteps(registered + 1, diffs) = <<>> /\ ~Unsupported(diffs)
    => Valid

=============================================================================
