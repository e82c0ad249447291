----------------------------- MODULE SchemaDiff -----------------------------
(***************************************************************************)
(* The generator's diff of two table shapes (migration_generator.go), the  *)
(* actions a generated step is made of and the order they run in           *)
(* (migration.go), the plan of a force sync (schema_sync.go), and what a   *)
(* database does with each statement.  Names are compared without case in  *)
(* the code; here they are equal or not.                                   *)
(*                                                                         *)
(* A table is its columns (name to type and nullability) and its indexes;  *)
(* a view or a trigger is its normalized definition.                       *)
(***************************************************************************)
EXTENDS Integers, Sequences, FiniteSets, SequencesExt

CONSTANTS
    ColumnOrder,    \* the column names in ordinal order
    Absent,         \* no table, view, trigger or snapshot
    Failed,         \* a statement was refused
    DropCascades    \* dropping a column drops the indexes over it (PostgreSQL); else it is refused

\* A fold that gives up at the first failure.
RunAll(Step(_, _), start, sequence) ==
    FoldLeft(LAMBDA state, item : IF state = Failed THEN Failed ELSE Step(state, item), start, sequence)

-----------------------------------------------------------------------------
(***************************************************************************)
(* The diff                                                                *)
(***************************************************************************)
\* Indexes match by uniqueness and their ordered columns and directions, never by name.
IndexSignature(index) == <<index.unique, index.columns>>

Signatures(indexes) == {IndexSignature(index) : index \in indexes}

Unmatched(indexes, others) == {index \in indexes : IndexSignature(index) \notin Signatures(others)}

\* Adding a column leaves existing rows without a value for it.
Addable(column) == column.nullable

applyRename(state, from, to) ==
    [state EXCEPT !.renamed = Append(@, [op |-> "rename", from |-> from, to |-> to]),
                  !.old = [c \in (DOMAIN @ \ {from}) \cup {to} |-> IF c = to THEN @[from] ELSE @[c]]]

\* A --rename is strict: a side nobody knows is unsupported.
ExplicitRename(state, from, to, current) ==
    IF from \in DOMAIN state.old /\ to \in DOMAIN current THEN applyRename(state, from, to)
    ELSE [state EXCEPT !.unknown = TRUE]

\* A renamed_from applies only while it can: it outlives the diff it was written for.
DeclaredRename(state, from, to, current) ==
    IF /\ from \in DOMAIN state.old /\ to \notin DOMAIN state.old
       /\ from \notin DOMAIN current /\ to \in DOMAIN current
    THEN applyRename(state, from, to)
    ELSE state

\* The flags first, then the declarations, each in the order of the old column.
Renamed(current, snapshot, renames, declared) ==
    LET flags == FoldLeft(LAMBDA state, from :
                              IF from \in DOMAIN renames
                              THEN ExplicitRename(state, from, renames[from], current.columns) ELSE state,
                          [old |-> snapshot.columns, renamed |-> <<>>, unknown |-> FALSE], ColumnOrder)
    IN  FoldLeft(LAMBDA state, from :
                     IF from \in DOMAIN declared
                     THEN DeclaredRename(state, from, declared[from], current.columns) ELSE state,
                 flags, ColumnOrder)

DiffSchemas(current, snapshot, renames, declared) ==
    LET state == Renamed(current, snapshot, renames, declared)
        fresh == DOMAIN current.columns \ DOMAIN state.old
        both == DOMAIN current.columns \cap DOMAIN state.old
    IN  [renamed |-> state.renamed,
         added |-> {c \in fresh : Addable(current.columns[c])},
         removed |-> DOMAIN state.old \ DOMAIN current.columns,
         addedIndexes |-> Unmatched(current.indexes, snapshot.indexes),
         removedIndexes |-> {index.name : index \in Unmatched(snapshot.indexes, current.indexes)},
         unsupported |-> \/ state.unknown
                         \/ \E c \in fresh : ~Addable(current.columns[c])
                         \/ \E c \in both : state.old[c] # current.columns[c]]

HasChanges(diff) ==
    \/ diff.renamed # <<>> \/ diff.added # {} \/ diff.removed # {}
    \/ diff.addedIndexes # {} \/ diff.removedIndexes # {}

-----------------------------------------------------------------------------
(***************************************************************************)
(* The statements of a step                                                *)
(***************************************************************************)
CreateTableSQL(table) == [op |-> "createTable", columns |-> table.columns]

CreateIndexSQL(indexes) ==
    LET ordered == SetToSeq(indexes) IN [i \in DOMAIN ordered |-> [op |-> "createIndex", index |-> ordered[i]]]

\* Columns in the order of their names.
InOrder(columns) == SelectSeq(ColumnOrder, LAMBDA c : c \in columns)

AddColumnSQL(table, columns) ==
    LET ordered == InOrder(columns)
    IN  [i \in DOMAIN ordered |-> [op |-> "addColumn", column |-> ordered[i],
                                   shape |-> [type |-> table.columns[ordered[i]].type, nullable |-> TRUE]]]

DropColumnSQL(columns) ==
    LET ordered == InOrder(columns) IN [i \in DOMAIN ordered |-> [op |-> "dropColumn", column |-> ordered[i]]]

DropIndexSQL(names) ==
    LET ordered == SetToSeq(names) IN [i \in DOMAIN ordered |-> [op |-> "dropIndex", name |-> ordered[i]]]

\* Whatever the order of declaration: renames, adds, removes (columns and indexes), raw SQL.
build(actions) ==
    LET Group(ops) == SelectSeq(actions, LAMBDA a : a.op \in ops)
    IN  Group({"rename"}) \o Group({"addColumn"}) \o Group({"dropColumn", "dropIndex"})
        \o Group({"createTable", "createIndex"})

\* The generated step of a table the snapshots do not know, and of one that changed.
EmitNewTable(table) == build(<<CreateTableSQL(table)>> \o CreateIndexSQL(table.indexes))

EmitTableStep(table, diff) ==
    build(diff.renamed \o AddColumnSQL(table, diff.added) \o DropColumnSQL(diff.removed)
          \o CreateIndexSQL(diff.addedIndexes) \o DropIndexSQL(diff.removedIndexes))

\* The MIG-012 guard, and the two actions a trigger step is made of.
ExpectDefinition(definition) == <<[op |-> "expect", definition |-> definition]>>

DropTrigger == <<[op |-> "drop"]>>

Recreate(definition) == DropTrigger \o <<[op |-> "create", definition |-> definition]>>

\* A new view is created; a changed one is expected as it was, dropped and created.
EmitViewStep(definition, previous) ==
    (IF previous = Absent THEN <<>> ELSE ExpectDefinition(previous) \o <<[op |-> "drop"]>>)
    \o <<[op |-> "create", definition |-> definition]>>

EmitTriggerStep(definition, previous) ==
    IF definition = Absent THEN DropTrigger
    ELSE (IF previous = Absent THEN <<>> ELSE ExpectDefinition(previous)) \o Recreate(definition)

-----------------------------------------------------------------------------
(***************************************************************************)
(* The database: one statement on one object.                              *)
(***************************************************************************)
Covers(index, column) == \E i \in DOMAIN index.columns : index.columns[i].column = column

RenamedIndex(index, from, to) ==
    [index EXCEPT !.columns = [i \in DOMAIN @ |-> IF @[i].column = from THEN [@[i] EXCEPT !.column = to] ELSE @[i]]]

ExecTable(t, s) ==
    CASE s.op = "createTable" -> IF t = Absent THEN [columns |-> s.columns, indexes |-> {}] ELSE t
      [] s.op = "rewrite" -> s.table               \* hand-written SQL, taken to work
      [] s.op \notin {"createTable", "rewrite"} /\ t = Absent -> Failed
      [] s.op = "rename" /\ t # Absent ->
            IF s.from \notin DOMAIN t.columns \/ s.to \in DOMAIN t.columns THEN Failed
            ELSE [columns |-> [c \in (DOMAIN t.columns \ {s.from}) \cup {s.to} |->
                                  t.columns[IF c = s.to THEN s.from ELSE c]],
                  indexes |-> {RenamedIndex(index, s.from, s.to) : index \in t.indexes}]
      [] s.op = "addColumn" /\ t # Absent ->
            IF s.column \in DOMAIN t.columns THEN Failed
            ELSE [t EXCEPT !.columns = [c \in DOMAIN @ \cup {s.column} |-> IF c = s.column THEN s.shape ELSE @[c]]]
      [] s.op = "dropColumn" /\ t # Absent ->
            IF \/ s.column \notin DOMAIN t.columns
               \/ ~DropCascades /\ \E index \in t.indexes : Covers(index, s.column)
            THEN Failed
            ELSE [columns |-> [c \in DOMAIN t.columns \ {s.column} |-> t.columns[c]],
                  indexes |-> {index \in t.indexes : ~Covers(index, s.column)}]
      [] s.op = "dropIndex" /\ t # Absent ->
            IF s.name \notin {index.name : index \in t.indexes} THEN Failed
            ELSE [t EXCEPT !.indexes = {index \in @ : index.name # s.name}]
      [] s.op = "createIndex" /\ t # Absent ->     \* if not exists, by name
            IF s.index.name \in {index.name : index \in t.indexes} THEN t
            ELSE IF \E i \in DOMAIN s.index.columns : s.index.columns[i].column \notin DOMAIN t.columns THEN Failed
            ELSE [t EXCEPT !.indexes = @ \cup {s.index}]

ExecDefinition(d, s, allowDrift) ==
    CASE s.op = "expect" -> IF d = s.definition \/ allowDrift THEN d ELSE Failed
      [] s.op = "drop" -> Absent
      [] s.op = "create" -> IF d = Absent THEN s.definition ELSE Failed

-----------------------------------------------------------------------------
(***************************************************************************)
(* The force sync of one table (PlanSync)                                  *)
(***************************************************************************)
SyncAdditive(live, table) ==
    IF live = Absent THEN <<CreateTableSQL(table)>> \o CreateIndexSQL(table.indexes)
    ELSE AddColumnSQL(table, {c \in DOMAIN table.columns \ DOMAIN live.columns : Addable(table.columns[c])})
         \o CreateIndexSQL(Unmatched(table.indexes, live.indexes))

SyncDeletions(live, table) ==
    IF live = Absent THEN <<>>
    ELSE DropColumnSQL(DOMAIN live.columns \ DOMAIN table.columns)
         \o DropIndexSQL({index.name : index \in Unmatched(live.indexes, table.indexes)})

\* Mutant of SyncUnsupported: only a missing column is looked at.
SyncMissingOnly(live, table) ==
    live # Absent /\ \E c \in DOMAIN table.columns \ DOMAIN live.columns : ~Addable(table.columns[c])

SyncUnsupported(live, table) ==
    /\ live # Absent
    /\ \E c \in DOMAIN table.columns :
          IF c \in DOMAIN live.columns THEN live.columns[c] # table.columns[c] ELSE ~Addable(table.columns[c])

\* The tables agree up to the names of their indexes.
SameShape(live, table) ==
    /\ live # Absent
    /\ live.columns = table.columns /\ Signatures(live.indexes) = Signatures(table.indexes)

=============================================================================
