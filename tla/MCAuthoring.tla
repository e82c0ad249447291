---------------------------- MODULE MCAuthoring ----------------------------
EXTENDS Authoring, TLC

MCTables == {"T", "Child"}
MCViews == {"W"}
MCTriggers == {"G"}
\* The referencing table comes first by name.
MCEntityOrder == <<"Child", "T", "W">>
MCTriggerOrder == <<"G">>
MCRequires == "T" :> {} @@ "Child" :> {"T"} @@ "W" :> {"T"} @@ "G" :> {"T"}
MCColumnOrder == <<"a", "b", "c", "d">>

Int_ == [type |-> "int", nullable |-> FALSE]
Text == [type |-> "text", nullable |-> TRUE]
Index(name, column) == [name |-> name, unique |-> FALSE, columns |-> <<[column |-> column, desc |-> FALSE]>>]
Table(columns, indexes) == [columns |-> columns, indexes |-> indexes]
Child == Table("a" :> Int_, {})
NoRename == [t \in MCTables |-> <<>>]
Declares(from, to) == [NoRename EXCEPT !["T"] = from :> to]
Model(t, child, w, fields, g, renamed) ==
    [defs |-> "T" :> t @@ "Child" :> child @@ "W" :> w @@ "G" :> g, fields |-> "W" :> fields, renamed |-> renamed]
Plain(t, g) == Model(t, Absent, Absent, {}, g, NoRename)

MCSelects == "w1" :> {"a"} @@ "w2" :> {"a", "c"}

\* A first model, a grown one, the same with a field of the view that its SQL does not select, with its
\* index made unique under the name it had, one with a renamed indexed column, a wider view and no trigger,
\* one with another type.
Small == Plain(Table("a" :> Int_ @@ "b" :> Text, {}), Absent)
GrownTable == Table("a" :> Int_ @@ "b" :> Text @@ "d" :> Text, {Index("i1", "b")})
Grown == Model(GrownTable, Child, "w1", {"a"}, "g1", NoRename)
Widened == Model(GrownTable, Child, "w1", {"a", "d"}, "g1", NoRename)
Keyed == Model([GrownTable EXCEPT !.indexes = {[Index("i1", "b") EXCEPT !.unique = TRUE]}], Child, "w1", {"a"}, "g1", NoRename)
Renaming == Model(Table("a" :> Int_ @@ "c" :> Text, {Index("i1", "c")}), Child, "w2", {"a", "c"}, Absent, Declares("b", "c"))
Retyped == Plain(Table("a" :> Int_ @@ "b" :> [type |-> "int", nullable |-> TRUE], {}), Absent)
MCModels == {Small, Grown, Widened, Keyed, Renaming, Retyped}
MCFirstModels == {Small, Grown}

MCRenameFlags == {NoRename, Declares("b", "c")}
MCOutsideIndexes == {Index("out", "a")}

\* Removing an indexed column
IndexedModels == {
    Plain(Table("a" :> Int_ @@ "b" :> Text, {Index("i1", "b")}), Absent),
    Plain(Table("a" :> Int_, {}), Absent)}

\* A trigger changed, unlinked and linked again
TriggerModels == {
    Plain(Table("a" :> Int_, {}), "g1"),
    Plain(Table("a" :> Int_, {}), "g2"),
    Plain(Table("a" :> Int_, {}), Absent)}

NoIndexes == {}
=============================================================================
