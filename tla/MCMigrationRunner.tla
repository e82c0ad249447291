-------------------------- MODULE MCMigrationRunner --------------------------
(***************************************************************************)
(* A table T and a view W over three versions, and the builds a real       *)
(* history meets: an old one; one in which V3 is still a draft and whose   *)
(* snapshots were made for another dialect; one whose branch has no V2, no *)
(* snapshots and a hand-written rollback of V3; the current one, whose V3  *)
(* drops a NOT NULL column; and one whose V2 was edited after it was       *)
(* applied and whose V3 changes a column's type.                           *)
(***************************************************************************)
EXTENDS TraceablePlans

CONSTANTS T, W, w1, w2, hot

MCObjects == {T, W}
MCViews == {W}
MCColumns == {"id", "c", "d"}
MCTypes == {"int", "text"}
Col(nullable) == [type |-> "int", nullable |-> nullable]
t1 == [id |-> Col(FALSE), c |-> Col(FALSE)]
t3 == [id |-> Col(FALSE), d |-> Col(TRUE)]
t3text == [t1 EXCEPT !.id.type = "text"]
MCDefs == {d \in Shapes : \E of \in {t1, t3, t3text} : Loosened(d, of)} \cup {w1, w2, hot}
MCHotDefs == {hot}
MCSqls == {"create T", "create W", "expect w1", "replace W", "replace  W",
           "alter T", "alter T, as proposed", "alter T's id", "restore T", "w1", "w2"}

Ddl(sql, o, def, sets) == [sql |-> sql, guard |-> FALSE, object |-> o, def |-> def, sets |-> sets]
Expect(sql, o, def) == [sql |-> sql, guard |-> TRUE, object |-> o, def |-> def, sets |-> {}]
Derived == [pre |-> <<>>, core |-> <<>>, post |-> <<>>]
Handwritten(core) == [Derived EXCEPT !.core = core]
StepFor(o, up, down) == [object |-> o, up |-> up, down |-> down]
Version(v, steps) == [version |-> v, draft |-> FALSE, steps |-> steps]

V1 == Version(1, <<StepFor(T, <<Ddl("create T", T, t1, {"id", "c"})>>, Derived),
                   StepFor(W, <<Ddl("create W", W, w1, {})>>, Derived)>>)
V2 == Version(2, <<StepFor(W, <<Expect("expect w1", W, w1), Ddl("replace W", W, w2, {})>>, Derived)>>)
V2Edited == Version(2, <<StepFor(W, <<Expect("expect w1", W, w1), Ddl("replace  W", W, w2, {})>>, Derived)>>)
V3 == Version(3, <<StepFor(T, <<Ddl("alter T", T, t3, {"d"})>>, Derived)>>)
V3Late == [V3 EXCEPT !.steps[1].down = Handwritten(<<Ddl("restore T", T, t1, {"c"})>>)]
V3Draft == [V3 EXCEPT !.draft = TRUE, !.steps[1].up[1].sql = "alter T, as proposed"]
V3Text == Version(3, <<StepFor(T, <<Ddl("alter T's id", T, t3text, {"id"})>>, Derived)>>)

Plans == [old    |-> <<V1>>,
          draft  |-> <<V1, V2, V3Draft>>,
          late   |-> <<V1, V3Late>>,
          new    |-> <<V1, V2, V3>>,
          edited |-> <<V1, V2Edited, V3Text>>]

MCPlan == [r \in Releases |-> Plans[r]]

Shot(o, v, def, sql) == [object |-> o, version |-> v, def |-> def, sql |-> sql, foreign |-> FALSE]
Shots == {Shot(T, 1, t1, "create T"), Shot(W, 1, w1, "w1"), Shot(W, 2, w2, "w2")}
MCSnapshots ==
    [r \in Releases |->
        CASE r = "late"   -> {}
          [] r = "draft"  -> {[s EXCEPT !.foreign = TRUE] : s \in Shots}
          [] r = "edited" -> Shots \cup {Shot(T, 3, t3text, "alter T's id")}
          [] OTHER        -> Shots \cup {Shot(T, 3, t3, "alter T")}]

\* The five builds meet the hypotheses of the theorems about the live schema.
ASSUME PlansTraceable == Traceable /\ Guarded

\* The processes are alike, and no liveness is checked with this symmetry.
Alike == Permutations(Runners)

Do(op, r, target, force) == [op |-> op, release |-> r, target |-> target, force |-> force]

\* Deployments of rival builds, forced and not, and rollbacks.
MCCommands ==
    {Do("migrate", r, 0, FALSE) : r \in Releases}
    \cup {Do("migrate", "new", 0, TRUE), Do("down", "new", 0, FALSE), Do("down", "new", 1, FALSE), Do("down", "new", 1, TRUE),
          Do("down", "edited", 0, FALSE), Do("down", "draft", 0, FALSE), Do("down", "late", 0, FALSE),
          Do("down", "late", 1, FALSE)}

\* Adoption of an existing database beside deployments of the same builds.
BaselineCommands ==
    {Do("baseline", "new", 2, FALSE), Do("baseline", "draft", 3, FALSE), Do("baseline", "draft", 2, FALSE),
     Do("baseline", "old", 1, FALSE), Do("migrate", "new", 0, FALSE), Do("migrate", "draft", 0, FALSE),
     Do("migrate", "edited", 0, FALSE), Do("down", "new", 0, FALSE)}

=============================================================================
