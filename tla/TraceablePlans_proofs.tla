----------------------- MODULE TraceablePlans_proofs ------------------------
(***************************************************************************)
(* When plans are traceable, history and schema agree, and when their      *)
(* view changes are guarded, no run destroys a hotfix: for any number of   *)
(* processes, builds, versions, steps and statements.                      *)
(***************************************************************************)
EXTENDS TraceablePlans, MigrationRunner_proofs

USE DEF InTx

-----------------------------------------------------------------------------
(* Steps and what a history says of an object. *)

\* A step of a traceable plan has statements, the last of which defines its object.
LEMMA StepFacts ==
    ASSUME Traceable, NEW r \in Releases, NEW i \in DOMAIN Plan[r], NEW step,
           \E j \in DOMAIN Plan[r][i].steps : step = Plan[r][i].steps[j]
    PROVE  /\ step \in RenderedStep /\ step.object \in Objects /\ step.up \in Seq(Statement)
           /\ Defines(step.up, step.object, Leaves(step))
           /\ Leaves(step) \in Defs \cup {Absent}
  <1>1. PICK j \in DOMAIN Plan[r][i].steps : step = Plan[r][i].steps[j]
    OBVIOUS
  <1>2. step \in RenderedStep
    BY <1>1, PlanTypes
  <1>3. step.object \in Objects /\ step.up \in Seq(Statement)
    BY <1>2 DEF RenderedStep
  <1>4. Defines(step.up, step.object, Leaves(step))
    BY <1>1 DEF Traceable, StepsDefine
  <1>5. step.up[Len(step.up)] \in Statement
    BY <1>3, <1>4 DEF Defines
  <1>6. Leaves(step) \in Defs \cup {Absent}
    BY <1>5 DEF Leaves, Statement
  <1> QED
    BY <1>2, <1>3, <1>4, <1>6

\* A version composes an object in one step.
LEMMA OneStep ==
    ASSUME NEW r \in Releases, NEW i \in DOMAIN Plan[r],
           NEW j \in DOMAIN Plan[r][i].steps, NEW l \in DOMAIN Plan[r][i].steps,
           Plan[r][i].steps[j].object = Plan[r][i].steps[l].object
    PROVE  j = l
  BY PlanAssumption DEF WellFormed

\* Versions ascend with their places in the plan.
LEMMA Ascending ==
    ASSUME NEW r \in Releases, NEW i \in DOMAIN Plan[r], NEW k \in DOMAIN Plan[r]
    PROVE  /\ k < i <=> Plan[r][k].version < Plan[r][i].version
           /\ k = i <=> Plan[r][k].version = Plan[r][i].version
  <1>1. WellFormed(Plan[r])
    BY PlanAssumption
  <1>2. /\ k < i => Plan[r][k].version < Plan[r][i].version
        /\ i < k => Plan[r][i].version < Plan[r][k].version
    BY <1>1 DEF WellFormed
  <1>3. i \in Nat /\ k \in Nat /\ Plan[r][k].version \in Nat /\ Plan[r][i].version \in Nat
    BY PlanTypes
  <1> QED
    BY <1>2, <1>3

\* The newest row of an object decides what the history says it is.
LEMMA NewestDefines ==
    ASSUME Traceable, NEW h, NEW r \in Releases, NEW i \in DOMAIN Plan[r], NEW j \in DOMAIN Plan[r][i].steps,
           NEW x \in h, x = RowOf(Plan[r][i].version, Plan[r][i].steps[j]),
           \A y \in h : y.object = x.object => y = x \/ (y.version \in Nat /\ y.version < x.version)
    PROVE  RecordedDef(h, x.object) = Leaves(Plan[r][i].steps[j])
  <1> DEFINE step == Plan[r][i].steps[j]
  <1>1. x.version \in Nat /\ x.object = step.object /\ x.checksum = computeChecksum(step.up)
    BY PlanTypes DEF RowOf
  <1>2. PICK mine : mine = {y \in h : y.object = x.object}
    OBVIOUS
  <1>3. PICK newest : newest = Newest(mine)
    OBVIOUS
  <1>4. newest = x
    <2>1. x \in mine /\ \A z \in mine : z.version <= x.version
      BY <1>1, <1>2
    <2>2. newest \in mine /\ \A z \in mine : z.version <= newest.version
      BY <2>1, <1>3 DEF Newest
    <2>3. x.version <= newest.version
      BY <2>1, <2>2
    <2>4. newest \in h /\ newest.object = x.object
      BY <1>2, <2>2
    <2> QED
      BY <1>1, <2>3, <2>4
  <1>5. \A w : w \in Ups <=> \E q \in Releases : \E k \in DOMAIN Plan[q] : \E l \in DOMAIN Plan[q][k].steps :
                                w = Plan[q][k].steps[l].up
    BY DEF Ups, ToSet
  <1>6. step.up \in Ups /\ step.up[Len(step.up)].object = x.object
    <2>1. Defines(step.up, step.object, Leaves(step)) /\ step.up \in Seq(Statement)
      BY StepFacts
    <2>2. Len(step.up) \in DOMAIN step.up
      BY <2>1 DEF Defines
    <2>3. step.up[Len(step.up)].object = x.object
      BY <1>1, <2>1, <2>2 DEF Defines
    <2>4. step.up \in Ups
      BY <1>5
    <2> QED
      BY <2>3, <2>4
  <1>7. PICK u : u = CHOOSE w \in Ups : w[Len(w)].object = x.object /\ computeChecksum(w) = x.checksum
    OBVIOUS
  <1>8. u \in Ups /\ u[Len(u)].object = x.object /\ computeChecksum(u) = x.checksum
    BY <1>1, <1>6, <1>7
  <1>9. PICK q \in Releases : \E k \in DOMAIN Plan[q] : \E l \in DOMAIN Plan[q][k].steps : u = Plan[q][k].steps[l].up
    BY <1>5, <1>8
  <1>10. PICK k \in DOMAIN Plan[q] : \E l \in DOMAIN Plan[q][k].steps : u = Plan[q][k].steps[l].up
    BY <1>9
  <1>11. PICK l \in DOMAIN Plan[q][k].steps : u = Plan[q][k].steps[l].up
    BY <1>10
  <1>12. PICK other : other = Plan[q][k].steps[l]
    OBVIOUS
  <1>13. Defines(other.up, other.object, Leaves(other)) /\ other.up \in Seq(Statement) /\ u = other.up
    BY <1>11, <1>12, StepFacts
  <1>14. other.object = x.object
    <2>1. Len(u) \in DOMAIN u
      BY <1>13 DEF Defines
    <2> QED
      BY <1>8, <1>13, <2>1 DEF Defines
  <1>15. Leaves(step) = Leaves(other)
    BY <1>1, <1>8, <1>12, <1>13, <1>14 DEF Traceable, StepsDefine
  <1>16. RecordedDef(h, x.object) = DefOf(x)
    BY <1>2, <1>3, <1>4 DEF RecordedDef
  <1>17. DefOf(x) = u[Len(u)].def
    BY <1>7 DEF DefOf
  <1> QED
    BY <1>13, <1>15, <1>16, <1>17 DEF Leaves

\* An object without a row does not exist.
LEMMA UnrecordedAbsent ==
    ASSUME NEW h, NEW o, \A y \in h : y.object # o
    PROVE  RecordedDef(h, o) = Absent
  BY DEF RecordedDef

\* Only the rows of an object say what it is.
LEMMA OwnRows ==
    ASSUME NEW h, NEW g, NEW o, \A x : x.object = o => (x \in h <=> x \in g)
    PROVE  RecordedDef(h, o) = RecordedDef(g, o)
  <1>1. {x \in h : x.object = o} = {x \in g : x.object = o}
    OBVIOUS
  <1> QED
    BY <1>1 DEF RecordedDef

\* The rows of o in h are those of the versions of build r before the i-th.
UpTo(h, r, i, o) ==
    /\ \A x \in h : x.object = o => \E k \in 1 .. i - 1 : \E j \in DOMAIN Plan[r][k].steps :
                                       x = RowOf(Plan[r][k].version, Plan[r][k].steps[j])
    /\ \A k \in 1 .. i - 1 : \A j \in DOMAIN Plan[r][k].steps :
          Plan[r][k].steps[j].object = o => RowOf(Plan[r][k].version, Plan[r][k].steps[j]) \in h

\* Such a history says of o what the build has it as before its i-th version.
LEMMA BeforeRecorded ==
    ASSUME Traceable, NEW h, NEW r \in Releases, NEW i \in DOMAIN Plan[r], NEW o, NEW d,
           UpTo(h, r, i, o), Before(r, i, o, d)
    PROVE  RecordedDef(h, o) = d
  <1>0. i \in Nat /\ \A k \in 1 .. i - 1 : k \in DOMAIN Plan[r] /\ k \in Nat
    BY PlanTypes
  <1>1. CASE d = Absent /\ \A k \in 1 .. i - 1 : o \notin ObjectsOf(Plan[r][k])
    <2>1. \A x \in h : x.object # o
      BY <1>1 DEF UpTo, RowOf, ObjectsOf
    <2> QED
      BY <1>1, <2>1, UnrecordedAbsent
  <1>2. ASSUME NEW k \in 1 .. i - 1, NEW j \in DOMAIN Plan[r][k].steps, Plan[r][k].steps[j].object = o,
               Leaves(Plan[r][k].steps[j]) = d, \A m \in k + 1 .. i - 1 : o \notin ObjectsOf(Plan[r][m])
        PROVE  RecordedDef(h, o) = d
    <2>1. PICK x \in h : x = RowOf(Plan[r][k].version, Plan[r][k].steps[j])
      BY <1>2 DEF UpTo
    <2>2. x.object = o /\ x.version = Plan[r][k].version
      BY <1>2, <2>1 DEF RowOf
    <2>3. ASSUME NEW y \in h, y.object = o
          PROVE  y = x \/ (y.version \in Nat /\ y.version < x.version)
      <3>1. PICK m \in 1 .. i - 1 : \E l \in DOMAIN Plan[r][m].steps : y = RowOf(Plan[r][m].version, Plan[r][m].steps[l])
        BY <2>3 DEF UpTo
      <3>2. PICK l \in DOMAIN Plan[r][m].steps : y = RowOf(Plan[r][m].version, Plan[r][m].steps[l])
        BY <3>1
      <3>3. Plan[r][m].steps[l].object = o /\ y.version = Plan[r][m].version
        BY <2>3, <3>2 DEF RowOf
      <3>4. m <= k
        BY <1>0, <1>2, <3>3 DEF ObjectsOf
      <3>5. CASE m = k
        <4>1. l = j
          BY <1>0, <1>2, <3>3, <3>5, OneStep
        <4> QED
          BY <2>1, <3>2, <3>5, <4>1
      <3>6. CASE m < k
        BY <1>0, <2>2, <3>3, <3>6, Ascending, PlanTypes
      <3> QED
        BY <1>0, <3>4, <3>5, <3>6
    <2> QED
      BY <1>0, <1>2, <2>1, <2>2, <2>3, NewestDefines
  <1> QED
    BY <1>1, <1>2 DEF Before

-----------------------------------------------------------------------------
(* Rollbacks. *)

\* The latest snapshot before a version, when there is one.
LEMMA LatestSnapshot ==
    ASSUME NEW r \in Releases, NEW o, NEW v \in Nat, SnapshotsBefore(r, o, v) # {}
    PROVE  \E s \in SnapshotsBefore(r, o, v) :
              s.def = DefBefore(r, o, v) /\ \A t \in SnapshotsBefore(r, o, v) : t.version <= s.version
  <1>1. PICK before : before = SnapshotsBefore(r, o, v)
    OBVIOUS
  <1>2. \A s \in before : s \in Snapshot /\ s.version < v
    BY <1>1, PlanAssumption DEF SnapshotsBefore
  <1>3. \A s \in before : s.version \in Nat
    BY <1>2 DEF Snapshot
  <1>4. PICK S : S = {s.version : s \in before}
    OBVIOUS
  <1>5. S \subseteq Nat /\ S # {} /\ \A x \in S : x < v
    BY <1>1, <1>2, <1>3, <1>4
  <1>6. PICK m \in S : \A y \in S : y <= m
    BY <1>5, Largest
  <1>7. \E s \in before : \A t \in before : t.version <= s.version
    BY <1>4, <1>6
  <1>8. PICK latest : latest = CHOOSE s \in before : \A t \in before : t.version <= s.version
    OBVIOUS
  <1>9. latest \in before /\ \A t \in before : t.version <= latest.version
    BY <1>7, <1>8
  <1>10. DefBefore(r, o, v) = latest.def
    BY <1>1, <1>8 DEF DefBefore, LatestBefore
  <1> QED
    BY <1>1, <1>9, <1>10

\* A derived rollback restores what the object was before the version.
LEMMA DerivedRestores ==
    ASSUME NEW r \in Releases, NEW i \in DOMAIN Plan[r], NEW step, SnapshotsTell(r, i, step)
    PROVE  LET down == DeriveDown(r, step.object, Plan[r][i].version)
               d == DefBefore(r, step.object, Plan[r][i].version)
           IN  Defines(down, step.object, d) /\ Before(r, i, step.object, d)
  <1>1. PICK o, v : o = step.object /\ v = Plan[r][i].version
    OBVIOUS
  <1>2. v \in Nat /\ i \in Nat /\ \A k \in 1 .. i - 1 : k \in DOMAIN Plan[r] /\ k \in Nat
    BY <1>1, PlanTypes
  <1>3. PICK d : d = DefBefore(r, o, v)
    OBVIOUS
  <1>4. Defines(DeriveDown(r, o, v), o, d)
    <2>1. PICK at : at = At(r, o, v)
      OBVIOUS
    <2>2. PICK expect : expect = [sql |-> at.sql, guard |-> TRUE, object |-> o, def |-> at.def, sets |-> {}]
      OBVIOUS
    <2>3. PICK drop : drop = [sql |-> at.sql, guard |-> FALSE, object |-> o, def |-> Absent, sets |-> {}]
      OBVIOUS
    <2>4. PICK restore : restore = [sql |-> at.sql, guard |-> FALSE, object |-> o, def |-> d, sets |-> {}]
      OBVIOUS
    <2>5. /\ expect.object = o /\ drop.object = o /\ restore.object = o
          /\ ~drop.guard /\ ~restore.guard /\ drop.def = Absent /\ restore.def = d
      BY <2>2, <2>3, <2>4
    <2>6. DeriveDown(r, o, v) = IF o \notin Views THEN <<restore>>
                                ELSE IF SnapshotsBefore(r, o, v) = {} THEN <<expect, drop>>
                                ELSE <<expect, drop, restore>>
      BY <1>3, <2>1, <2>2, <2>3, <2>4 DEF DeriveDown
    <2>7. SnapshotsBefore(r, o, v) = {} => d = Absent
      BY <1>3 DEF DefBefore
    <2>8. Defines(<<restore>>, o, d)
      BY <2>5 DEF Defines
    <2>9. Defines(<<expect, drop>>, o, Absent)
      BY <2>5 DEF Defines
    <2>10. Defines(<<expect, drop, restore>>, o, d)
      BY <2>5 DEF Defines
    <2> QED
      BY <2>6, <2>7, <2>8, <2>9, <2>10
  <1>5. Before(r, i, o, d)
    <2>1. ASSUME NEW k \in 1 .. i - 1, o \in ObjectsOf(Plan[r][k])
          PROVE  \E s \in SnapshotsBefore(r, o, v) : s.version = Plan[r][k].version
      <3>1. PICK s \in SnapshotsAt(r, o, Plan[r][k].version) : TRUE
        BY <1>1, <2>1 DEF SnapshotsTell
      <3>2. Plan[r][k].version < v
        BY <1>1, <1>2, Ascending
      <3> QED
        BY <3>1, <3>2 DEF SnapshotsAt, SnapshotsBefore
    <2>2. CASE SnapshotsBefore(r, o, v) = {}
      <3>1. d = Absent
        BY <1>3, <2>2 DEF DefBefore
      <3> QED
        BY <2>1, <2>2, <3>1 DEF Before
    <2>3. CASE SnapshotsBefore(r, o, v) # {}
      <3>1. PICK s \in SnapshotsBefore(r, o, v) :
               s.def = d /\ \A t \in SnapshotsBefore(r, o, v) : t.version <= s.version
        BY <1>2, <1>3, <2>3, LatestSnapshot
      <3>2. PICK k \in 1 .. i - 1 : \E j \in DOMAIN Plan[r][k].steps :
               /\ Plan[r][k].version = s.version
               /\ Plan[r][k].steps[j].object = o
               /\ Leaves(Plan[r][k].steps[j]) = s.def
        BY <1>1, <3>1 DEF SnapshotsTell
      <3>3. ASSUME NEW m \in k + 1 .. i - 1, o \in ObjectsOf(Plan[r][m])
            PROVE  FALSE
        <4>1. m \in 1 .. i - 1 /\ k < m
          BY <1>2
        <4>2. Plan[r][m].version <= Plan[r][k].version
          BY <2>1, <3>1, <3>2, <3>3, <4>1
        <4> QED
          BY <1>2, <4>1, <4>2, Ascending, PlanTypes
      <3> QED
        BY <3>1, <3>2, <3>3 DEF Before
    <2> QED
      BY <2>2, <2>3
  <1> QED
    BY <1>1, <1>3, <1>4, <1>5

\* The statements of an admitted rollback restore what the object was before the version.
LEMMA RollbackRestores ==
    ASSUME Traceable, NEW c \in Command, c.op = "down", NEW h, Refusal(c, h) = "ok",
           NEW i \in DOMAIN Plan[c.release], Selected(c, Plan[c.release][i], h), NEW step,
           \E j \in DOMAIN Plan[c.release][i].steps : step = Plan[c.release][i].steps[j]
    PROVE  \E d \in Defs \cup {Absent} :
              /\ Defines(StepStatements(c, Plan[c.release][i], step), step.object, d)
              /\ Before(c.release, i, step.object, d)
  <1>1. PICK j \in DOMAIN Plan[c.release][i].steps : step = Plan[c.release][i].steps[j]
    OBVIOUS
  <1>2. PICK r \in Releases : r = c.release
    BY DEF Command
  <1>3. PICK v \in Nat : v = Plan[r][i].version
    BY <1>2, PlanTypes
  <1>4. StepStatements(c, Plan[r][i], step) = step.down.pre \o DownCore(r, v, step) \o step.down.post
    BY <1>2, <1>3 DEF StepStatements
  <1>5. CASE NeedsDerivation(step)
    <2>0. Underivable(c, h) = {}
      BY DEF Refusal, DownRefusal
    <2>1. SnapshotsAt(r, step.object, v) # {}
      BY <1>1, <1>2, <1>3, <1>5, <2>0, NotRefused DEF DeriveRefusal
    <2>2. step.down.pre = <<>> /\ step.down.post = <<>> /\ SnapshotsTell(r, i, step)
      BY <1>1, <1>2, <1>3, <1>5, <2>1 DEF Traceable, Reversible
    <2>3. PICK down : down = DeriveDown(r, step.object, v)
      OBVIOUS
    <2>4. PICK d : d = DefBefore(r, step.object, v)
      OBVIOUS
    <2>5. Defines(down, step.object, d) /\ Before(r, i, step.object, d)
      BY <1>2, <1>3, <2>2, <2>3, <2>4, DerivedRestores
    <2>6. down \in Seq(Statement)
      BY <1>1, <1>2, <1>3, <2>1, <2>3, StepFacts, DerivedType
    <2>7. StepStatements(c, Plan[r][i], step) = down
      <3>1. StepStatements(c, Plan[r][i], step) = <<>> \o down \o <<>>
        BY <1>4, <1>5, <2>2, <2>3 DEF DownCore
      <3> QED
        BY <2>6, <3>1
    <2>8. d \in Defs \cup {Absent}
      <3>1. down[Len(down)] \in Statement
        BY <2>5, <2>6 DEF Defines
      <3>2. down[Len(down)].def \in Defs \cup {Absent}
        BY <3>1 DEF Statement
      <3> QED
        BY <2>5, <3>2 DEF Defines
    <2> QED
      BY <1>2, <2>5, <2>7, <2>8
  <1>6. CASE ~NeedsDerivation(step)
    <2>1. StepStatements(c, Plan[r][i], step) = step.down.pre \o step.down.core \o step.down.post
      BY <1>4, <1>6 DEF DownCore
    <2>2. \E d \in Defs \cup {Absent} :
              /\ Defines(step.down.pre \o step.down.core \o step.down.post, step.object, d)
              /\ Before(r, i, step.object, d)
      BY <1>1, <1>2, <1>6 DEF Traceable, Reversible
    <2> QED
      BY <1>2, <2>1, <2>2
  <1> QED
    BY <1>5, <1>6

-----------------------------------------------------------------------------
(* Histories. *)

\* With the versions of an object that a history records, it records all earlier ones.
InOrder(h) ==
    \A x \in h : \A r \in Releases : \A i \in DOMAIN Plan[r] :
        x.object \in ObjectsOf(Plan[r][i]) /\ Plan[r][i].version < x.version
            => Plan[r][i].version \in Versions(h)

\* A history that migrate or down accepts is made of steps of the command's own plan.
LEMMA Admitted ==
    ASSUME Traceable, NEW c \in Command, c.op # "baseline", NEW h, WholeHistory(h), Refusal(c, h) = "ok"
    PROVE  /\ \A x \in h : \E i \in DOMAIN Plan[c.release] : \E j \in DOMAIN Plan[c.release][i].steps :
                 x = RowOf(Plan[c.release][i].version, Plan[c.release][i].steps[j])
           /\ \A i \in DOMAIN Plan[c.release] : Plan[c.release][i].version \in Versions(h) =>
                 \A j \in DOMAIN Plan[c.release][i].steps :
                    RowOf(Plan[c.release][i].version, Plan[c.release][i].steps[j]) \in h
  <1>1. PICK r \in Releases : r = c.release
    BY DEF Command
  <1>2. ~HistoryDrifted(r, h) /\ ~HistoryUnknown(r, h)
    BY <1>1 DEF Refusal
  <1>3. \A i \in DOMAIN Plan[r] : Plan[r][i].version \in Versions(h) =>
           \A j \in DOMAIN Plan[r][i].steps : RowOf(Plan[r][i].version, Plan[r][i].steps[j]) \in h
    BY <1>2 DEF HistoryDrifted, VersionRows
  <1>4. ASSUME NEW x \in h
        PROVE  \E i \in DOMAIN Plan[r] : \E j \in DOMAIN Plan[r][i].steps :
                  x = RowOf(Plan[r][i].version, Plan[r][i].steps[j])
    <2>1. x.version \in Versions(h)
      BY DEF Versions
    <2>2. PICK i \in DOMAIN Plan[r] : Plan[r][i].version = x.version
      BY <1>2, <2>1 DEF HistoryUnknown
    <2>3. PICK q \in Releases : \E k \in DOMAIN Plan[q] :
             Plan[q][k].version = x.version /\ {y \in h : y.version = x.version} = VersionRows(Plan[q][k])
      BY <2>1 DEF WholeHistory
    <2>4. PICK k \in DOMAIN Plan[q] :
             Plan[q][k].version = x.version /\ {y \in h : y.version = x.version} = VersionRows(Plan[q][k])
      BY <2>3
    <2>5. PICK l \in DOMAIN Plan[q][k].steps : x = RowOf(Plan[q][k].version, Plan[q][k].steps[l])
      BY <2>4 DEF VersionRows
    <2>6. x.object = Plan[q][k].steps[l].object
      BY <2>5 DEF RowOf
    <2>7. ObjectsOf(Plan[r][i]) = ObjectsOf(Plan[q][k])
      BY <2>2, <2>4 DEF Traceable, SameObjects
    <2>8. PICK j \in DOMAIN Plan[r][i].steps : Plan[r][i].steps[j].object = x.object
      BY <2>6, <2>7 DEF ObjectsOf
    <2>9. PICK y \in h : y = RowOf(Plan[r][i].version, Plan[r][i].steps[j])
      BY <1>3, <2>1, <2>2
    <2>10. y.version = x.version /\ y.object = x.object
      BY <2>2, <2>8, <2>9 DEF RowOf
    <2>11. PICK n \in DOMAIN Plan[q][k].steps : y = RowOf(Plan[q][k].version, Plan[q][k].steps[n])
      BY <2>4, <2>10 DEF VersionRows
    <2>12. n = l
      <3>1. Plan[q][k].steps[n].object = Plan[q][k].steps[l].object
        BY <2>6, <2>10, <2>11 DEF RowOf
      <3> QED
        BY <3>1, OneStep
    <2> QED
      BY <2>5, <2>9, <2>11, <2>12
  <1> QED
    BY <1>1, <1>3, <1>4

\* A command that is accepted keeps the order.
LEMMA OrderKept ==
    ASSUME Traceable, NEW c \in Command, c.op # "baseline", NEW h, WholeHistory(h), Refusal(c, h) = "ok", InOrder(h)
    PROVE  InOrder(TargetRows(c, h))
  <1>1. PICK r \in Releases : r = c.release
    BY DEF Command
  <1>2. c.target \in Nat /\ c.op \in {"migrate", "down"}
    BY DEF Command, Ops
  <1>3. PICK g : g = TargetRows(c, h)
    OBVIOUS
  <1> SUFFICES ASSUME NEW x \in g, NEW q \in Releases, NEW k \in DOMAIN Plan[q],
                      x.object \in ObjectsOf(Plan[q][k]), Plan[q][k].version < x.version
               PROVE  Plan[q][k].version \in Versions(g)
    BY <1>3 DEF InOrder
  <1>4. CASE c.op = "down"
    <2>1. g = {y \in h : \A i \in DOMAIN Plan[r] : Selected(c, Plan[r][i], h) => Plan[r][i].version # y.version}
      BY <1>1, <1>3, <1>4 DEF TargetRows
    <2>2. x \in h
      BY <2>1
    <2>3. PICK y \in h : y.version = Plan[q][k].version
      BY <2>2 DEF InOrder, Versions
    <2>4. PICK i \in DOMAIN Plan[r] : x.version = Plan[r][i].version
      BY <1>1, <2>2, Admitted DEF RowOf
    <2>5. x.version \in Nat /\ y.version \in Nat
      BY <2>3, <2>4, PlanTypes
    <2>6. ~(x.version > c.target)
      BY <1>4, <2>1, <2>2, <2>4 DEF Selected, Versions
    <2>7. ~(y.version > c.target)
      BY <1>2, <2>3, <2>5, <2>6
    <2>8. y \in g
      BY <1>4, <2>1, <2>7 DEF Selected
    <2> QED
      BY <2>3, <2>8 DEF Versions
  <1>5. CASE c.op = "migrate"
    <2>1. g = h \cup UNION {VersionRows(Plan[r][i]) : i \in {n \in DOMAIN Plan[r] : Plan[r][n].version \notin Versions(h)}}
      BY <1>1, <1>3, <1>5 DEF TargetRows, Selected
    <2>2. CASE x \in h
      <3>1. PICK y \in h : y.version = Plan[q][k].version
        BY <2>2 DEF InOrder, Versions
      <3> QED
        BY <2>1, <3>1 DEF Versions
    <2>3. CASE x \notin h
      <3>1. PICK i \in DOMAIN Plan[r] : x \in VersionRows(Plan[r][i])
        BY <2>1, <2>3
      <3>2. x.version = Plan[r][i].version /\ x.object \in ObjectsOf(Plan[r][i])
        BY <3>1 DEF VersionRows, RowOf, ObjectsOf
      <3>3. PICK m \in 1 .. i - 1 : Plan[r][m].version = Plan[q][k].version
        BY <3>2 DEF Traceable, ObjectsInOrder
      <3>4. m \in DOMAIN Plan[r]
        BY PlanTypes
      <3>5. ObjectsOf(Plan[r][m]) = ObjectsOf(Plan[q][k])
        BY <3>3, <3>4 DEF Traceable, SameObjects
      <3>6. PICK j \in DOMAIN Plan[r][m].steps : Plan[r][m].steps[j].object = x.object
        BY <3>5 DEF ObjectsOf
      <3>7. CASE Plan[r][m].version \in Versions(h)
        BY <2>1, <3>3, <3>7 DEF Versions
      <3>8. CASE Plan[r][m].version \notin Versions(h)
        <4>1. PICK y : y = RowOf(Plan[r][m].version, Plan[r][m].steps[j])
          OBVIOUS
        <4>2. y \in VersionRows(Plan[r][m]) /\ y.version = Plan[q][k].version
          BY <3>3, <3>6, <4>1 DEF VersionRows, RowOf
        <4>3. y \in g
          BY <2>1, <3>4, <3>8, <4>2
        <4> QED
          BY <4>2, <4>3 DEF Versions
      <3> QED
        BY <3>7, <3>8
    <2> QED
      BY <2>2, <2>3
  <1> QED
    BY <1>2, <1>4, <1>5

-----------------------------------------------------------------------------
(* The invariant. *)

\* Nobody adopts an existing database: baseline records versions and executes none.
NoAdoption == \A c \in Commands : c.op # "baseline"

\* The history that p's transaction has brought the schema to. A rollback deletes
\* the rows of a version after its last step, and each step undoes one of them before.
Effective(p) ==
    IF cmd[p].op = "down" /\ pc[p] \in {"step", "statement"}
    THEN {x \in txRows[p] :
            x.version = CurrentVersion(p).version =>
               \A k \in 1 .. si[p] - 1 : StepAt(cmd[p], CurrentVersion(p), k).object # x.object}
    ELSE txRows[p]

\* d is what history h says o is, but for nullable columns, or a hotfix of an object that it says exists.
Matches(d, h, o) ==
    \/ Loosened(d, RecordedDef(h, o))
    \/ d \in HotDefs /\ RecordedDef(h, o) # Absent

\* What does not exist has no columns to loosen.
LEMMA NothingLoosened ==
    ASSUME NEW d, NEW of
    PROVE  Loosened(of, of) /\ (Loosened(d, of) => (d = Absent <=> of = Absent))
  BY PlanAssumption DEF Loosened

\* The committed history is whole, in order, and tells the committed schema.
HistoryInv == WholeHistory(rows) /\ InOrder(rows) /\ \A o \in Objects : Matches(live[o], rows, o)

\* Among its statements: until the first change the object is what the history says,
\* after the last statement it is what that left.
StatementOK(p) ==
    LET S == CurrentStatements(p)
        o == CurrentStep(p).object
    IN  /\ ti[p] \in 1 .. Len(S) + 1
        /\ ti[p] = Len(S) + 1 => txLive[p][o] # Untouched /\ Loosened(txLive[p][o], S[Len(S)].def)
        /\ (\A m \in 1 .. ti[p] - 1 : S[m].guard) => Matches(LiveOf(p, o), Effective(p), o)

\* Between two steps all objects are what the history of the transaction says.
LiveOK(p) ==
    /\ pc[p] \notin {"version", "step", "statement"} => \A o \in Objects : txLive[p][o] = Untouched
    /\ pc[p] \in {"version", "step", "statement"} => \A o \in Objects :
          (pc[p] = "statement" => o # CurrentStep(p).object) => Matches(LiveOf(p, o), Effective(p), o)
    /\ pc[p] = "statement" => StatementOK(p)

LiveInv == IInv /\ HistoryInv /\ \A p \in Runners : LiveOK(p)

-----------------------------------------------------------------------------
(* Where a run is in its plan. *)

\* The place of the current version in the plan, and what the walk has behind it.
LEMMA CurrentPlace ==
    ASSUME IInv, NEW p \in Runners, pc[p] \in {"step", "statement"}
    PROVE  \E i \in DOMAIN Plan[cmd[p].release] :
              /\ CurrentVersion(p) = Plan[cmd[p].release][i]
              /\ \A k \in 1 .. vi[p] - 1 : \E m \in DOMAIN Plan[cmd[p].release] :
                    /\ VersionAt(cmd[p], k) = Plan[cmd[p].release][m]
                    /\ IF cmd[p].op = "down" THEN m > i ELSE m < i
              /\ \A m \in DOMAIN Plan[cmd[p].release] :
                    (IF cmd[p].op = "down" THEN m > i ELSE m < i) =>
                        \E k \in 1 .. vi[p] - 1 : VersionAt(cmd[p], k) = Plan[cmd[p].release][m]
  <1>1. PICK plan : plan = Plan[cmd[p].release]
    OBVIOUS
  <1>2. PICK n \in Nat : n = Len(plan) /\ DOMAIN plan = 1 .. n
    BY <1>1, InVersion, PlanTypes DEF Command
  <1>3. PICK v \in 1 .. n : v = vi[p]
    BY <1>1, <1>2, InVersion DEF PlanOf
  <1>4. CASE cmd[p].op = "down"
    <2>1. \A k \in 1 .. n : VersionAt(cmd[p], k) = plan[n + 1 - k]
      BY <1>1, <1>2, <1>4 DEF VersionAt
    <2>2. n + 1 - v \in DOMAIN plan /\ CurrentVersion(p) = plan[n + 1 - v]
      BY <1>2, <1>3, <2>1 DEF CurrentVersion
    <2>3. ASSUME NEW k \in 1 .. v - 1
          PROVE  n + 1 - k \in DOMAIN plan /\ n + 1 - k > n + 1 - v /\ VersionAt(cmd[p], k) = plan[n + 1 - k]
      BY <1>2, <2>1
    <2>4. ASSUME NEW m \in DOMAIN plan, m > n + 1 - v
          PROVE  n + 1 - m \in 1 .. v - 1 /\ VersionAt(cmd[p], n + 1 - m) = plan[m]
      <3>1. n + 1 - m \in 1 .. v - 1 /\ n + 1 - m \in 1 .. n /\ n + 1 - (n + 1 - m) = m
        BY <1>2, <2>4
      <3> QED
        BY <2>1, <3>1
    <2> QED
      BY <1>1, <1>3, <1>4, <2>2, <2>3, <2>4
  <1>5. CASE cmd[p].op # "down"
    <2>1. \A k \in 1 .. n : VersionAt(cmd[p], k) = plan[k]
      BY <1>1, <1>2, <1>5 DEF VersionAt
    <2>2. v \in DOMAIN plan /\ CurrentVersion(p) = plan[v]
      BY <1>2, <1>3, <2>1 DEF CurrentVersion
    <2>3. ASSUME NEW k \in 1 .. v - 1
          PROVE  k \in DOMAIN plan /\ k < v /\ VersionAt(cmd[p], k) = plan[k]
      BY <1>2, <2>1
    <2>4. ASSUME NEW m \in DOMAIN plan, m < v
          PROVE  m \in 1 .. v - 1 /\ VersionAt(cmd[p], m) = plan[m]
      BY <1>2, <2>1, <2>4
    <2> QED
      BY <1>1, <1>3, <1>5, <2>2, <2>3, <2>4
  <1> QED
    BY <1>4, <1>5

\* The steps of the current version behind the walk are about other objects.
LEMMA CurrentStepPlace ==
    ASSUME IInv, NEW p \in Runners, pc[p] = "statement",
           NEW i \in DOMAIN Plan[cmd[p].release], CurrentVersion(p) = Plan[cmd[p].release][i]
    PROVE  /\ \E j \in DOMAIN Plan[cmd[p].release][i].steps : CurrentStep(p) = Plan[cmd[p].release][i].steps[j]
           /\ \A k \in 1 .. si[p] - 1 : StepAt(cmd[p], CurrentVersion(p), k).object # CurrentStep(p).object
  <1>1. cmd[p] \in Command /\ cmd[p].release \in Releases
    BY InVersion DEF Command
  <1>2. PICK steps : steps = Plan[cmd[p].release][i].steps
    OBVIOUS
  <1>3. PICK n \in Nat : n = Len(steps) /\ DOMAIN steps = 1 .. n
    BY <1>1, <1>2, PlanTypes
  <1>4. PICK s \in 1 .. n : s = si[p]
    <2>1. PositionOK(p)
      BY DEF IInv, PositionInv
    <2> QED
      BY <1>2, <1>3, <2>1, InVersion DEF PositionOK
  <1>5. \A j, l \in DOMAIN steps : steps[j].object = steps[l].object => j = l
    BY <1>1, <1>2, OneStep
  <1>6. \A k \in 1 .. n : StepAt(cmd[p], CurrentVersion(p), k) = steps[IF cmd[p].op = "down" THEN n + 1 - k ELSE k]
    BY <1>2, <1>3 DEF StepAt
  <1>7. \A k \in 1 .. n : (IF cmd[p].op = "down" THEN n + 1 - k ELSE k) \in DOMAIN steps
    BY <1>3
  <1>8. CurrentStep(p) = StepAt(cmd[p], CurrentVersion(p), s)
    BY <1>4 DEF CurrentStep
  <1>9. ASSUME NEW k \in 1 .. s - 1
        PROVE  StepAt(cmd[p], CurrentVersion(p), k).object # CurrentStep(p).object
    <2>1. k \in 1 .. n /\ k # s
      OBVIOUS
    <2>2. (IF cmd[p].op = "down" THEN n + 1 - k ELSE k) # (IF cmd[p].op = "down" THEN n + 1 - s ELSE s)
      BY <2>1
    <2> QED
      BY <1>5, <1>6, <1>7, <1>8, <2>1, <2>2
  <1> QED
    BY <1>2, <1>4, <1>6, <1>7, <1>8, <1>9

-----------------------------------------------------------------------------
(* What the history of a transaction says of the object it is working on. *)

\* A history without the rows of x's version and object.
Without(h, x) == {y \in h : ~(y.version = x.version /\ y.object = x.object)}

\* Migrate works on an object in the order of its versions: it has all earlier ones behind it.
LEMMA MigrateUpTo ==
    ASSUME Traceable, IInv, HistoryInv, NEW p \in Runners, pc[p] = "statement", cmd[p].op = "migrate",
           NEW r \in Releases, r = cmd[p].release, NEW i \in DOMAIN Plan[r], CurrentVersion(p) = Plan[r][i],
           NEW o, o = CurrentStep(p).object
    PROVE  UpTo(Effective(p), r, i, o)
  <1>1. PICK v \in Nat : v = Plan[r][i].version
    BY PlanTypes
  <1>2. /\ cmd[p] \in Command /\ recorded[p] = rows /\ Refusal(cmd[p], rows) = "ok" /\ txRows[p] = WorkRows(p)
        /\ v \notin Versions(rows)
    BY <1>1, InVersion DEF Selected
  <1>3. o \in ObjectsOf(Plan[r][i])
    BY CurrentStepPlace DEF ObjectsOf
  <1>4. PICK n \in DOMAIN Plan[r] :
           /\ CurrentVersion(p) = Plan[r][n]
           /\ \A k \in 1 .. vi[p] - 1 : \E m \in DOMAIN Plan[r] : VersionAt(cmd[p], k) = Plan[r][m] /\ m < n
           /\ \A m \in DOMAIN Plan[r] : m < n => \E k \in 1 .. vi[p] - 1 : VersionAt(cmd[p], k) = Plan[r][m]
    BY CurrentPlace
  <1>5. n = i
    BY <1>4, Ascending
  <1>6. \A k \in DOMAIN Plan[r] : k \in Nat /\ (k < i <=> k \in 1 .. i - 1)
    BY PlanTypes
  <1>7. Effective(p) = rows \cup Partial(p) \cup UNION {VersionRows(VersionAt(cmd[p], k)) : k \in Passed(p)}
    BY <1>2 DEF Effective, WorkRows
  <1>8. ASSUME NEW x \in Effective(p), x.object = o
        PROVE  \E k \in 1 .. i - 1 : \E j \in DOMAIN Plan[r][k].steps :
                  x = RowOf(Plan[r][k].version, Plan[r][k].steps[j])
    <2>1. CASE x \in rows
      <3>1. PICK k \in DOMAIN Plan[r] : \E j \in DOMAIN Plan[r][k].steps :
               x = RowOf(Plan[r][k].version, Plan[r][k].steps[j])
        BY <1>2, <2>1, Admitted DEF HistoryInv
      <3>2. x.version = Plan[r][k].version /\ x.version \in Nat /\ x.version \in Versions(rows)
        BY <2>1, <3>1, PlanTypes DEF RowOf, Versions
      <3>3. ~(v < x.version)
        BY <1>1, <1>2, <1>3, <1>8, <2>1 DEF HistoryInv, InOrder
      <3>4. x.version < v
        BY <1>2, <3>2, <3>3
      <3>5. k < i
        BY <1>1, <3>2, <3>4, Ascending
      <3> QED
        BY <1>6, <3>1, <3>5
    <2>2. CASE x \in Partial(p)
      <3>1. PICK k \in 1 .. si[p] - 1 : x = RowOf(CurrentVersion(p).version, StepAt(cmd[p], CurrentVersion(p), k))
        BY <2>2 DEF Partial
      <3>2. StepAt(cmd[p], CurrentVersion(p), k).object = o
        BY <1>8, <3>1 DEF RowOf
      <3> QED
        BY <3>2, CurrentStepPlace
    <2>3. ASSUME NEW k \in Passed(p), x \in VersionRows(VersionAt(cmd[p], k))
          PROVE  \E m \in 1 .. i - 1 : \E j \in DOMAIN Plan[r][m].steps :
                    x = RowOf(Plan[r][m].version, Plan[r][m].steps[j])
      <3>1. PICK m \in DOMAIN Plan[r] : VersionAt(cmd[p], k) = Plan[r][m] /\ m < i
        BY <1>4, <1>5 DEF Passed
      <3> QED
        BY <1>6, <2>3, <3>1 DEF VersionRows
    <2> QED
      BY <1>7, <2>1, <2>2, <2>3
  <1>9. ASSUME NEW k \in 1 .. i - 1, NEW j \in DOMAIN Plan[r][k].steps, Plan[r][k].steps[j].object = o
        PROVE  RowOf(Plan[r][k].version, Plan[r][k].steps[j]) \in Effective(p)
    <2>1. k \in DOMAIN Plan[r] /\ k < i
      BY PlanTypes
    <2>2. CASE Plan[r][k].version \in Versions(rows)
      BY <1>2, <1>7, <2>1, <2>2, Admitted DEF HistoryInv
    <2>3. CASE Plan[r][k].version \notin Versions(rows)
      <3>1. PICK m \in 1 .. vi[p] - 1 : VersionAt(cmd[p], m) = Plan[r][k]
        BY <1>4, <1>5, <2>1
      <3>2. m \in Passed(p)
        BY <1>2, <2>3, <3>1 DEF Passed, Selected
      <3>3. RowOf(Plan[r][k].version, Plan[r][k].steps[j]) \in VersionRows(VersionAt(cmd[p], m))
        BY <3>1 DEF VersionRows
      <3> QED
        BY <1>7, <3>2, <3>3
    <2> QED
      BY <2>2, <2>3
  <1> QED
    BY <1>8, <1>9 DEF UpTo

\* Down works on an object from its newest version: that is the one it is undoing, and
\* without it the history has the earlier ones.
LEMMA DownAround ==
    ASSUME Traceable, IInv, HistoryInv, NEW p \in Runners, pc[p] = "statement", cmd[p].op = "down",
           NEW r \in Releases, r = cmd[p].release, NEW i \in DOMAIN Plan[r], CurrentVersion(p) = Plan[r][i],
           NEW o, o = CurrentStep(p).object, NEW x, x = RowOf(Plan[r][i].version, CurrentStep(p))
    PROVE  /\ x \in Effective(p)
           /\ \A y \in Effective(p) : y.object = o => y = x \/ (y.version \in Nat /\ y.version < x.version)
           /\ UpTo(Without(Effective(p), x), r, i, o)
  <1>1. PICK v \in Nat : v = Plan[r][i].version
    BY PlanTypes
  <1>2. /\ cmd[p] \in Command /\ recorded[p] = rows /\ Refusal(cmd[p], rows) = "ok" /\ txRows[p] = WorkRows(p)
        /\ v \in Versions(rows) /\ v > cmd[p].target /\ cmd[p].target \in Nat
    BY <1>1, InVersion DEF Selected, Command
  <1>3. PICK j \in DOMAIN Plan[r][i].steps : CurrentStep(p) = Plan[r][i].steps[j]
    BY CurrentStepPlace
  <1>4. PICK n \in DOMAIN Plan[r] :
           /\ CurrentVersion(p) = Plan[r][n]
           /\ \A k \in 1 .. vi[p] - 1 : \E m \in DOMAIN Plan[r] : VersionAt(cmd[p], k) = Plan[r][m] /\ m > n
           /\ \A m \in DOMAIN Plan[r] : m > n => \E k \in 1 .. vi[p] - 1 : VersionAt(cmd[p], k) = Plan[r][m]
    BY CurrentPlace
  <1>5. n = i
    BY <1>4, Ascending
  <1>6. \A k \in DOMAIN Plan[r] : k \in Nat /\ (k < i <=> k \in 1 .. i - 1)
    BY PlanTypes
  <1>7. \A y : y \in Effective(p) <=>
                 /\ y \in rows
                 /\ \A k \in Passed(p) : VersionAt(cmd[p], k).version # y.version
                 /\ y.version = v => \A k \in 1 .. si[p] - 1 : StepAt(cmd[p], CurrentVersion(p), k).object # y.object
    BY <1>1, <1>2 DEF Effective, WorkRows
  <1>8. ASSUME NEW k \in DOMAIN Plan[r], k <= i, NEW q \in Passed(p)
        PROVE  VersionAt(cmd[p], q).version # Plan[r][k].version
    <2>1. PICK m \in DOMAIN Plan[r] : VersionAt(cmd[p], q) = Plan[r][m] /\ m > i
      BY <1>4, <1>5 DEF Passed
    <2>2. k # m
      BY <1>6, <1>8, <2>1
    <2> QED
      BY <2>1, <2>2, Ascending
  <1>9. x \in rows /\ x.version = v /\ x.object = o
    BY <1>1, <1>2, <1>3, Admitted DEF HistoryInv, RowOf
  <1>10. x \in Effective(p)
    <2>1. i <= i
      BY <1>6
    <2>2. \A k \in Passed(p) : VersionAt(cmd[p], k).version # x.version
      BY <1>1, <1>8, <1>9, <2>1
    <2> QED
      BY <1>7, <1>9, <2>2, CurrentStepPlace
  <1>11. ASSUME NEW y \in Effective(p), y.object = o
         PROVE  \E k \in DOMAIN Plan[r] : \E l \in DOMAIN Plan[r][k].steps :
                   /\ y = RowOf(Plan[r][k].version, Plan[r][k].steps[l])
                   /\ k <= i /\ (k = i => y = x)
    <2>1. y \in rows
      BY <1>7
    <2>2. PICK k \in DOMAIN Plan[r] : \E l \in DOMAIN Plan[r][k].steps :
             y = RowOf(Plan[r][k].version, Plan[r][k].steps[l])
      BY <1>2, <2>1, Admitted DEF HistoryInv
    <2>3. PICK l \in DOMAIN Plan[r][k].steps : y = RowOf(Plan[r][k].version, Plan[r][k].steps[l])
      BY <2>2
    <2>4. y.version = Plan[r][k].version /\ Plan[r][k].steps[l].object = o /\ y.version \in Nat
      BY <1>11, <2>3, PlanTypes DEF RowOf
    <2>5. ~(k > i)
      <3> SUFFICES ASSUME k > i PROVE FALSE
        OBVIOUS
      <3>1. PICK m \in 1 .. vi[p] - 1 : VersionAt(cmd[p], m) = Plan[r][k]
        BY <1>4, <1>5
      <3>2. y.version > v
        BY <1>1, <1>6, <2>4, Ascending
      <3>3. y.version > cmd[p].target /\ y.version \in Versions(rows)
        BY <1>2, <2>1, <2>4, <3>2 DEF Versions
      <3>4. m \in Passed(p)
        BY <1>2, <2>4, <3>1, <3>3 DEF Passed, Selected
      <3> QED
        BY <1>7, <2>4, <3>1, <3>4
    <2>6. k = i => y = x
      <3> SUFFICES ASSUME k = i PROVE y = x
        OBVIOUS
      <3>1. l = j
        BY <1>3, <2>4, OneStep
      <3> QED
        BY <1>3, <2>3, <3>1
    <2>7. k <= i
      BY <1>6, <2>5
    <2> QED
      BY <2>3, <2>6, <2>7
  <1>12. ASSUME NEW y \in Effective(p), y.object = o
         PROVE  y = x \/ (y.version \in Nat /\ y.version < x.version)
    <2>1. PICK k \in DOMAIN Plan[r] : \E l \in DOMAIN Plan[r][k].steps :
             y = RowOf(Plan[r][k].version, Plan[r][k].steps[l]) /\ k <= i /\ (k = i => y = x)
      BY <1>11, <1>12
    <2>2. y.version = Plan[r][k].version /\ y.version \in Nat
      BY <2>1, PlanTypes DEF RowOf
    <2>3. k = i \/ k < i
      BY <1>6, <2>1
    <2>4. k < i => Plan[r][k].version < Plan[r][i].version
      BY Ascending
    <2> QED
      BY <1>1, <1>9, <2>1, <2>2, <2>3, <2>4
  <1>13. PICK h : h = Without(Effective(p), x)
    OBVIOUS
  <1>14. ASSUME NEW y \in h, y.object = o
         PROVE  \E k \in 1 .. i - 1 : \E l \in DOMAIN Plan[r][k].steps :
                   y = RowOf(Plan[r][k].version, Plan[r][k].steps[l])
    <2>1. y \in Effective(p) /\ y # x
      BY <1>9, <1>13, <1>14 DEF Without
    <2>2. PICK k \in DOMAIN Plan[r] : \E l \in DOMAIN Plan[r][k].steps :
             y = RowOf(Plan[r][k].version, Plan[r][k].steps[l]) /\ k <= i /\ (k = i => y = x)
      BY <1>11, <1>14, <2>1
    <2>3. k \in 1 .. i - 1
      BY <1>6, <2>1, <2>2
    <2> QED
      BY <2>2, <2>3
  <1>15. ASSUME NEW k \in 1 .. i - 1, NEW l \in DOMAIN Plan[r][k].steps, Plan[r][k].steps[l].object = o
         PROVE  RowOf(Plan[r][k].version, Plan[r][k].steps[l]) \in h
    <2>1. k \in DOMAIN Plan[r] /\ k < i /\ k <= i
      BY PlanTypes
    <2>2. PICK y : y = RowOf(Plan[r][k].version, Plan[r][k].steps[l])
      OBVIOUS
    <2>3. y.version = Plan[r][k].version /\ y.object = o /\ Plan[r][k].version < v /\ Plan[r][k].version \in Nat
      BY <1>1, <1>15, <2>1, <2>2, Ascending, PlanTypes DEF RowOf
    <2>4. o \in ObjectsOf(Plan[r][k])
      BY <1>15 DEF ObjectsOf
    <2>5. Plan[r][k].version \in Versions(rows)
      BY <1>9, <2>1, <2>3, <2>4 DEF HistoryInv, InOrder
    <2>6. y \in rows
      BY <1>2, <2>1, <2>2, <2>5, Admitted DEF HistoryInv
    <2>7. \A q \in Passed(p) : VersionAt(cmd[p], q).version # y.version
      BY <1>8, <2>1, <2>3
    <2>8. y.version # v
      BY <2>3
    <2> QED
      BY <1>7, <1>9, <1>13, <2>2, <2>6, <2>7, <2>8 DEF Without
  <1>16. UpTo(h, r, i, o)
    BY <1>14, <1>15 DEF UpTo
  <1> QED
    BY <1>10, <1>12, <1>13, <1>16

-----------------------------------------------------------------------------
(* One lemma per action: LiveInv. *)

\* What a run executes for a step defines the step's object.
LEMMA StatementsKnown ==
    ASSUME Traceable, NoAdoption, IInv, NEW p \in Runners, pc[p] \in {"step", "statement"},
           si[p] <= Len(CurrentVersion(p).steps)
    PROVE  /\ cmd[p] \in Command /\ cmd[p].op \in {"migrate", "down"} /\ cmd[p].release \in Releases
           /\ CurrentStatements(p) \in Seq(Statement)
           /\ CurrentStep(p).object \in Objects
           /\ \E d \in Defs \cup {Absent} : Defines(CurrentStatements(p), CurrentStep(p).object, d)
           /\ \E i \in DOMAIN Plan[cmd[p].release] :
                 /\ CurrentVersion(p) = Plan[cmd[p].release][i]
                 /\ \E j \in DOMAIN Plan[cmd[p].release][i].steps : CurrentStep(p) = Plan[cmd[p].release][i].steps[j]
  <1>1. /\ cmd[p] \in Command /\ cmd[p].op \in {"migrate", "down"} /\ cmd[p].release \in Releases
        /\ Refusal(cmd[p], rows) = "ok" /\ Selected(cmd[p], CurrentVersion(p), rows)
    BY InVersion DEF Command, Ops, NoAdoption, IInv, TypeOK
  <1>2. PICK i \in DOMAIN Plan[cmd[p].release] : CurrentVersion(p) = Plan[cmd[p].release][i]
    BY InVersion
  <1>3. si[p] \in 1 .. Len(Plan[cmd[p].release][i].steps)
    BY <1>2, InVersion
  <1>4. PICK j \in DOMAIN Plan[cmd[p].release][i].steps : CurrentStep(p) = Plan[cmd[p].release][i].steps[j]
    BY <1>1, <1>2, <1>3, StepWalk DEF CurrentStep
  <1>5. CurrentStatements(p) \in Seq(Statement)
    BY <1>1, <1>2, <1>4, StatementsType DEF CurrentStatements
  <1>6. PICK step : step = CurrentStep(p)
    OBVIOUS
  <1>7. step.object \in Objects /\ Defines(step.up, step.object, Leaves(step)) /\ Leaves(step) \in Defs \cup {Absent}
    BY <1>1, <1>4, <1>6, StepFacts
  <1>8. \E d \in Defs \cup {Absent} : Defines(CurrentStatements(p), step.object, d)
    <2>1. CASE cmd[p].op = "migrate"
      BY <1>6, <1>7, <2>1 DEF CurrentStatements, StepStatements
    <2>2. CASE cmd[p].op = "down"
      BY <1>1, <1>2, <1>4, <1>6, <2>2, RollbackRestores DEF CurrentStatements
    <2> QED
      BY <1>1, <2>1, <2>2
  <1> QED
    BY <1>1, <1>2, <1>4, <1>5, <1>6, <1>7, <1>8

\* While p has a transaction nobody else has one.
LEMMA Bystander ==
    ASSUME LiveInv, NEW p \in Runners, pc[p] \in InTx, NEW q \in Runners \ {p}, pc'[q] = pc[q], txLive'[q] = txLive[q]
    PROVE  LiveOK(q)'
  <1>1. pc[q] \notin InTx
    BY DEF LiveInv, IInv, LockInv
  <1> QED
    BY <1>1 DEF LiveInv, LiveOK

\* A process with its transaction's state unchanged keeps what it sees.
LEMMA LiveFrame ==
    ASSUME LiveInv, NEW q \in Runners, pc'[q] = pc[q], cmd'[q] = cmd[q], txRows'[q] = txRows[q], txLive'[q] = txLive[q],
           vi'[q] = vi[q], si'[q] = si[q], ti'[q] = ti[q], live' = live
    PROVE  LiveOK(q)'
  <1>1. /\ CurrentVersion(q)' = CurrentVersion(q) /\ CurrentStep(q)' = CurrentStep(q)
        /\ CurrentStatements(q)' = CurrentStatements(q)
    BY DEF CurrentVersion, CurrentStep, CurrentStatements
  <1>2. Effective(q)' = Effective(q)
    BY <1>1 DEF Effective
  <1>3. \A o : LiveOf(q, o)' = LiveOf(q, o)
    BY DEF LiveOf
  <1>4. StatementOK(q) => StatementOK(q)'
    BY <1>1, <1>2, <1>3 DEF StatementOK
  <1> QED
    BY <1>1, <1>2, <1>3, <1>4 DEF LiveInv, LiveOK

\* A step that commits nothing leaves what the committed history says.
LEMMA HistoryFrame ==
    ASSUME HistoryInv, rows' = rows, live' = live
    PROVE  HistoryInv'
  BY DEF HistoryInv

\* A command is issued, and waits for the lock.
LEMMA OutsideLive ==
    ASSUME LiveInv, NEW p \in Runners, Request(p) \/ BeginMigrationRunLock(p) \/ LockRefused(p)
    PROVE  HistoryInv' /\ \A q \in Runners : LiveOK(q)'
  <1> USE DEF Request, BeginMigrationRunLock, LockRefused, db, tx, loop, bounds
  <1>1. rows' = rows /\ live' = live /\ txLive' = txLive
    OBVIOUS
  <1>2. pc[p] \notin {"version", "step", "statement"} /\ pc'[p] \notin {"version", "step", "statement"}
    BY DEF LiveInv, IInv, TypeOK
  <1>3. LiveOK(p)'
    BY <1>1, <1>2 DEF LiveInv, LiveOK
  <1>4. ASSUME NEW q \in Runners \ {p}
        PROVE  LiveOK(q)'
    <2>1. /\ pc'[q] = pc[q] /\ cmd'[q] = cmd[q] /\ txRows'[q] = txRows[q] /\ txLive'[q] = txLive[q]
          /\ vi'[q] = vi[q] /\ si'[q] = si[q] /\ ti'[q] = ti[q]
      BY DEF LiveInv, IInv, TypeOK
    <2> QED
      BY <1>1, <2>1, LiveFrame
  <1>5. HistoryInv'
    BY <1>1, HistoryFrame DEF LiveInv
  <1> QED
    BY <1>3, <1>4, <1>5

\* A run that fails leaves nothing.
LEMMA RollbackLive ==
    ASSUME LiveInv, NEW p \in Runners, pc[p] \in InTx, NEW code, Rollback(p, code)
    PROVE  HistoryInv' /\ \A q \in Runners : LiveOK(q)'
  <1> USE DEF Rollback, db
  <1>1. LiveOK(p)'
    <2>1. pc'[p] = "done" /\ \A o \in Objects : txLive'[p][o] = Untouched
      BY DEF LiveInv, IInv, TypeOK
    <2> QED
      BY <2>1 DEF LiveOK
  <1>2. ASSUME NEW q \in Runners \ {p}
        PROVE  LiveOK(q)'
    <2>1. pc'[q] = pc[q] /\ txLive'[q] = txLive[q]
      BY DEF LiveInv, IInv, TypeOK
    <2> QED
      BY <2>1, Bystander
  <1>3. HistoryInv'
    BY HistoryFrame DEF LiveInv
  <1> QED
    BY <1>1, <1>2, <1>3

\* A step of p's transaction that keeps the committed database: only p is left to look at.
LEMMA InsideLive ==
    ASSUME LiveInv, NEW p \in Runners, pc[p] \in InTx, rows' = rows, live' = live,
           \A q \in Runners \ {p} : pc'[q] = pc[q] /\ txLive'[q] = txLive[q], LiveOK(p)'
    PROVE  HistoryInv' /\ \A q \in Runners : LiveOK(q)'
  BY Bystander, HistoryFrame DEF LiveInv

\* An admitted run sees the committed schema and history.
LEMMA AdmitLive ==
    ASSUME LiveInv, NEW p \in Runners, Admit(p)
    PROVE  HistoryInv' /\ \A q \in Runners : LiveOK(q)'
  <1> USE DEF Admit, db, loop, bounds
  <1>1. /\ pc[p] = "begun" /\ pc'[p] = "version" /\ txRows'[p] = rows /\ txLive' = txLive /\ cmd' = cmd
        /\ rows' = rows /\ live' = live /\ \A q \in Runners \ {p} : pc'[q] = pc[q]
    BY DEF LiveInv, IInv, TypeOK
  <1>2. Effective(p)' = rows
    BY <1>1 DEF Effective
  <1>3. \A o \in Objects : LiveOf(p, o)' = live[o]
    BY <1>1 DEF LiveInv, LiveOK, LiveOf
  <1>4. LiveOK(p)'
    BY <1>1, <1>2, <1>3 DEF LiveOK, LiveInv, HistoryInv
  <1> QED
    BY <1>1, <1>4, InsideLive

\* A version is entered or skipped.
LEMMA NextVersionLive ==
    ASSUME LiveInv, NEW p \in Runners, NextVersion(p)
    PROVE  HistoryInv' /\ \A q \in Runners : LiveOK(q)'
  <1>1. /\ pc[p] = "version" /\ txRows' = txRows /\ txLive' = txLive /\ cmd' = cmd
        /\ rows' = rows /\ live' = live
    BY DEF NextVersion, db, tx, bounds
  <1>2. /\ pc'[p] = "version" \/ (pc'[p] = "step" /\ si'[p] = 1)
        /\ \A q \in Runners \ {p} : pc'[q] = pc[q]
    BY DEF NextVersion, LiveInv, IInv, TypeOK
  <1>3. Effective(p) = txRows[p]
    BY <1>1 DEF Effective
  <1>4. Effective(p)' = txRows[p]
    <2>1. CASE pc'[p] = "version"
      BY <1>1, <2>1 DEF Effective
    <2>2. CASE si'[p] = 1
      <3>1. 1 .. si'[p] - 1 = {}
        BY <2>2
      <3> QED
        BY <1>1, <3>1 DEF Effective
    <2> QED
      BY <1>2, <2>1, <2>2
  <1>5. \A o \in Objects : LiveOf(p, o)' = LiveOf(p, o)
    BY <1>1 DEF LiveOf
  <1>6. LiveOK(p)'
    BY <1>1, <1>2, <1>3, <1>4, <1>5 DEF LiveOK, LiveInv
  <1> QED
    BY <1>1, <1>2, <1>6, InsideLive

\* A step is entered: its object is still what the history says.
LEMMA NextStepLive ==
    ASSUME Traceable, NoAdoption, LiveInv, NEW p \in Runners, NextStep(p)
    PROVE  HistoryInv' /\ \A q \in Runners : LiveOK(q)'
  <1>1. /\ pc[p] = "step" /\ si[p] <= Len(CurrentVersion(p).steps) /\ txRows' = txRows /\ txLive' = txLive
        /\ cmd' = cmd /\ rows' = rows /\ live' = live /\ vi' = vi /\ si' = si
    BY DEF NextStep, db, tx, bounds
  <1>2. pc'[p] = "statement" /\ ti'[p] = 1 /\ \A q \in Runners \ {p} : pc'[q] = pc[q]
    BY DEF NextStep, LiveInv, IInv, TypeOK
  <1>3. /\ CurrentVersion(p)' = CurrentVersion(p) /\ CurrentStep(p)' = CurrentStep(p)
        /\ CurrentStatements(p)' = CurrentStatements(p)
    BY <1>1 DEF CurrentVersion, CurrentStep, CurrentStatements
  <1>4. Effective(p)' = Effective(p)
    BY <1>1, <1>2, <1>3 DEF Effective
  <1>5. \A o : LiveOf(p, o)' = LiveOf(p, o)
    BY <1>1 DEF LiveOf
  <1>6. \A o \in Objects : Matches(LiveOf(p, o), Effective(p), o)
    BY <1>1 DEF LiveInv, LiveOK
  <1>7. PICK S : S = CurrentStatements(p)
    OBVIOUS
  <1>8. S \in Seq(Statement) /\ S # <<>> /\ CurrentStep(p).object \in Objects
    BY <1>1, <1>7, StatementsKnown DEF Defines, LiveInv
  <1>9. Len(S) \in Nat /\ 1 \in 1 .. Len(S) + 1 /\ 1 # Len(S) + 1
    BY <1>8
  <1>10. StatementOK(p)'
    BY <1>2, <1>3, <1>4, <1>5, <1>6, <1>7, <1>8, <1>9 DEF StatementOK
  <1>11. LiveOK(p)'
    BY <1>2, <1>4, <1>5, <1>6, <1>10 DEF LiveOK
  <1> QED
    BY <1>1, <1>2, <1>11, InsideLive

\* A position among the statements is within a version and a step.
LEMMA AtStatement ==
    ASSUME IInv, NEW p \in Runners, pc[p] = "statement"
    PROVE  si[p] <= Len(CurrentVersion(p).steps)
  BY DEF IInv, PositionInv, PositionOK

\* A statement changes the object of its step only.
LEMMA ApplyStatementLive ==
    ASSUME Traceable, NoAdoption, LiveInv, NEW p \in Runners, ApplyStatement(p)
    PROVE  HistoryInv' /\ \A q \in Runners : LiveOK(q)'
  <1>1. PICK S, o, n : S = CurrentStatements(p) /\ o = CurrentStep(p).object /\ n = ti[p]
    OBVIOUS
  <1>2. /\ pc[p] = "statement" /\ n <= Len(S) /\ txRows' = txRows /\ cmd' = cmd /\ rows' = rows /\ live' = live
        /\ vi' = vi /\ si' = si /\ pc' = pc
        /\ txLive' = IF S[n].guard THEN txLive ELSE [txLive EXCEPT ![p][S[n].object] = Left(LiveOf(p, S[n].object), S[n])]
    BY <1>1 DEF ApplyStatement, db, bounds
  <1>3. ti'[p] = n + 1 /\ n \in Nat
    BY <1>1 DEF ApplyStatement, LiveInv, IInv, TypeOK
  <1>4. PICK d : Defines(S, o, d)
    BY <1>1, <1>2, StatementsKnown, AtStatement DEF LiveInv
  <1>5. S \in Seq(Statement) /\ o \in Objects
    BY <1>1, <1>2, StatementsKnown, AtStatement DEF LiveInv
  <1>6. StatementOK(p)
    BY <1>2 DEF LiveInv, LiveOK
  <1>7. n \in 1 .. Len(S) /\ Len(S) \in Nat /\ DOMAIN S = 1 .. Len(S)
    BY <1>1, <1>2, <1>5, <1>6 DEF StatementOK
  <1>8. S[n].object = o
    BY <1>4, <1>7 DEF Defines
  <1>9. /\ CurrentVersion(p)' = CurrentVersion(p) /\ CurrentStep(p)' = CurrentStep(p)
        /\ CurrentStatements(p)' = CurrentStatements(p)
    BY <1>2 DEF CurrentVersion, CurrentStep, CurrentStatements
  <1>10. Effective(p)' = Effective(p)
    BY <1>2, <1>9 DEF Effective
  <1>11. /\ \A q \in Runners \ {p} : txLive'[q] = txLive[q]
         /\ \A a \in Objects \ {o} : txLive'[p][a] = txLive[p][a]
         /\ S[n].guard => txLive' = txLive
         /\ ~S[n].guard => txLive'[p][o] # Untouched /\ Loosened(txLive'[p][o], S[n].def)
    <2>1. PICK left : left = Left(LiveOf(p, o), S[n])
      OBVIOUS
    <2>2. left \in Defs \cup {Absent} /\ Loosened(left, S[n].def)
      BY <1>5, <1>7, <2>1, LeftLoosened
    <2>3. left # Untouched
      BY <2>2, RunnerAssumption
    <2> QED
      BY <1>2, <1>5, <1>8, <2>1, <2>2, <2>3 DEF LiveInv, IInv, TypeOK
  <1>12. \A a \in Objects \ {o} : LiveOf(p, a)' = LiveOf(p, a)
    BY <1>2, <1>11 DEF LiveOf
  <1>13. StatementOK(p)'
    <2>1. ti'[p] \in 1 .. Len(S) + 1
      BY <1>3, <1>7
    <2>2. ASSUME ti'[p] = Len(S) + 1
          PROVE  txLive'[p][o] # Untouched /\ Loosened(txLive'[p][o], S[Len(S)].def)
      <3>1. n = Len(S)
        <4>1. n + 1 = Len(S) + 1 /\ n \in Nat /\ Len(S) \in Nat
          BY <1>3, <1>7, <2>2
        <4>2. \A a, b \in Nat : a + 1 = b + 1 => a = b
          OBVIOUS
        <4> QED
          BY <4>1, <4>2
      <3>2. ~S[n].guard
        BY <1>4, <3>1 DEF Defines
      <3> QED
        BY <1>11, <3>1, <3>2
    <2>3. ASSUME \A m \in 1 .. ti'[p] - 1 : S[m].guard
          PROVE  Matches(LiveOf(p, o)', Effective(p), o)
      <3>1. S[n].guard /\ \A m \in 1 .. n - 1 : S[m].guard
        BY <1>3, <1>7, <2>3
      <3>2. Matches(LiveOf(p, o), Effective(p), o)
        BY <1>1, <1>6, <3>1 DEF StatementOK
      <3>3. LiveOf(p, o)' = LiveOf(p, o)
        BY <1>2, <1>11, <3>1 DEF LiveOf
      <3> QED
        BY <3>2, <3>3
    <2> QED
      BY <1>1, <1>9, <1>10, <2>1, <2>2, <2>3 DEF StatementOK
  <1>14. LiveOK(p)'
    BY <1>1, <1>2, <1>9, <1>10, <1>12, <1>13 DEF LiveInv, LiveOK
  <1> QED
    BY <1>2, <1>11, <1>14, InsideLive

\* At the end of a step its object is what the last statement left, which is what the history now says.
LEMMA FinishStepLive ==
    ASSUME Traceable, NoAdoption, LiveInv, NEW p \in Runners, FinishStep(p)
    PROVE  HistoryInv' /\ \A q \in Runners : LiveOK(q)'
  <1>1. PICK S, o, step : S = CurrentStatements(p) /\ o = CurrentStep(p).object /\ step = CurrentStep(p)
    OBVIOUS
  <1>2. /\ pc[p] = "statement" /\ ti[p] > Len(S) /\ cmd' = cmd /\ rows' = rows /\ live' = live
        /\ vi' = vi /\ ti' = ti /\ txLive' = txLive
        /\ txRows' = IF cmd[p].op = "down" THEN txRows
                     ELSE [txRows EXCEPT ![p] = txRows[p] \cup {RowOf(CurrentVersion(p).version, step)}]
    BY <1>1 DEF FinishStep, db, bounds
  <1>3. si'[p] = si[p] + 1 /\ si[p] \in Nat /\ pc'[p] = "step" /\ \A q \in Runners \ {p} : pc'[q] = pc[q]
    BY DEF FinishStep, LiveInv, IInv, TypeOK
  <1>4. /\ cmd[p] \in Command /\ cmd[p].op \in {"migrate", "down"} /\ cmd[p].release \in Releases
        /\ S \in Seq(Statement) /\ o \in Objects
    BY <1>1, <1>2, StatementsKnown, AtStatement DEF LiveInv
  <1>5. PICK r \in Releases : r = cmd[p].release
    BY <1>4
  <1>6. PICK i \in DOMAIN Plan[r] : CurrentVersion(p) = Plan[r][i] /\ \E j \in DOMAIN Plan[r][i].steps : step = Plan[r][i].steps[j]
    BY <1>1, <1>2, <1>5, StatementsKnown, AtStatement DEF LiveInv
  <1>7. PICK x : x = RowOf(Plan[r][i].version, step)
    OBVIOUS
  <1>8. x.object = o /\ x.version = Plan[r][i].version /\ x.version \in Nat
    BY <1>1, <1>6, <1>7, PlanTypes DEF RowOf
  <1>9. txLive[p][o] # Untouched /\ Loosened(txLive[p][o], S[Len(S)].def)
    <2>1. StatementOK(p) /\ ti[p] \in Nat /\ Len(S) \in Nat
      BY <1>2, <1>4 DEF LiveInv, LiveOK, IInv, TypeOK
    <2>2. ti[p] = Len(S) + 1
      BY <1>1, <1>2, <2>1 DEF StatementOK
    <2> QED
      BY <1>1, <2>1, <2>2 DEF StatementOK
  <1>11. /\ Loosened(LiveOf(p, o)', S[Len(S)].def)
         /\ \A a \in Objects : LiveOf(p, a)' = LiveOf(p, a)
    <2>1. LiveOf(p, o)' = txLive[p][o]
      BY <1>2, <1>9 DEF LiveOf
    <2> QED
      BY <1>2, <1>9, <2>1 DEF LiveOf
  <1>12. \A a \in Objects \ {o} : Matches(LiveOf(p, a), Effective(p), a)
    BY <1>1, <1>2 DEF LiveInv, LiveOK
  <1>13. /\ \A y : y.object # o => (y \in Effective(p)' <=> y \in Effective(p))
         /\ S[Len(S)].def = RecordedDef(Effective(p)', o)
    <2>1. CASE cmd[p].op = "migrate"
      <3>1. Effective(p) = txRows[p] /\ Effective(p)' = txRows[p] \cup {x}
        BY <1>2, <1>6, <1>7, <2>1 DEF Effective, LiveInv, IInv, TypeOK
      <3>2. UpTo(Effective(p), r, i, o)
        BY <1>1, <1>2, <1>5, <1>6, <2>1, MigrateUpTo DEF LiveInv
      <3>3. ASSUME NEW y \in Effective(p)', y.object = o
            PROVE  y = x \/ (y.version \in Nat /\ y.version < x.version)
        <4>1. CASE y \in Effective(p)
          <5>1. PICK k \in 1 .. i - 1 : \E j \in DOMAIN Plan[r][k].steps :
                   y = RowOf(Plan[r][k].version, Plan[r][k].steps[j])
            BY <3>2, <3>3, <4>1 DEF UpTo
          <5>2. k \in DOMAIN Plan[r] /\ k < i
            BY PlanTypes
          <5> QED
            BY <1>8, <5>1, <5>2, Ascending, PlanTypes DEF RowOf
        <4> QED
          BY <3>1, <4>1
      <3>4. x \in Effective(p)'
        BY <3>1
      <3>5. RecordedDef(Effective(p)', o) = Leaves(step)
        BY <1>6, <1>7, <1>8, <3>3, <3>4, NewestDefines
      <3>6. S = step.up
        BY <1>1, <2>1 DEF CurrentStatements, StepStatements
      <3> QED
        BY <1>8, <3>1, <3>5, <3>6 DEF Leaves
    <2>2. CASE cmd[p].op = "down"
      <3>1. PICK d \in Defs \cup {Absent} : Defines(S, o, d) /\ Before(r, i, o, d)
        BY <1>1, <1>2, <1>4, <1>5, <1>6, <2>2, InVersion, RollbackRestores DEF CurrentStatements, LiveInv
      <3>2. UpTo(Without(Effective(p), x), r, i, o)
        BY <1>1, <1>2, <1>5, <1>6, <1>7, <2>2, DownAround DEF LiveInv
      <3>3. Effective(p)' = Without(Effective(p), x)
        <4>1. CurrentVersion(p)' = CurrentVersion(p) /\ CurrentVersion(p).version = x.version
          BY <1>2, <1>6, <1>8 DEF CurrentVersion
        <4>2. 1 .. si'[p] - 1 = (1 .. si[p] - 1) \cup {si[p]}
          <5>1. si[p] >= 1
            BY <1>2, InVersion DEF LiveInv
          <5> QED
            BY <1>3, <5>1
        <4>3. StepAt(cmd[p], CurrentVersion(p), si[p]).object = o
          BY <1>1 DEF CurrentStep
        <4>4. Effective(p)' = {y \in txRows[p] : y.version = x.version =>
                 \A k \in 1 .. si'[p] - 1 : StepAt(cmd[p], CurrentVersion(p), k).object # y.object}
          BY <1>2, <1>3, <2>2, <4>1 DEF Effective
        <4>5. Effective(p) = {y \in txRows[p] : y.version = x.version =>
                 \A k \in 1 .. si[p] - 1 : StepAt(cmd[p], CurrentVersion(p), k).object # y.object}
          BY <1>2, <2>2, <4>1 DEF Effective
        <4> QED
          BY <1>8, <4>2, <4>3, <4>4, <4>5 DEF Without
      <3>4. RecordedDef(Effective(p)', o) = d
        BY <3>1, <3>2, <3>3, BeforeRecorded
      <3> QED
        BY <1>8, <3>1, <3>3, <3>4 DEF Defines, Without
    <2> QED
      BY <1>4, <2>1, <2>2
  <1>14. ASSUME NEW a \in Objects
         PROVE  Matches(LiveOf(p, a)', Effective(p)', a)
    <2>1. CASE a = o
      BY <1>11, <1>13, <2>1 DEF Matches
    <2>2. CASE a # o
      <3>1. RecordedDef(Effective(p)', a) = RecordedDef(Effective(p), a)
        BY <1>13, <2>2, OwnRows
      <3> QED
        BY <1>11, <1>12, <2>2, <3>1 DEF Matches
    <2> QED
      BY <2>1, <2>2
  <1>15. LiveOK(p)'
    BY <1>3, <1>14 DEF LiveOK
  <1> QED
    BY <1>2, <1>3, <1>15, InsideLive

\* At the end of a version a rollback deletes exactly the rows its steps have undone.
LEMMA FinishVersionLive ==
    ASSUME Traceable, NoAdoption, LiveInv, NEW p \in Runners, FinishVersion(p)
    PROVE  HistoryInv' /\ \A q \in Runners : LiveOK(q)'
  <1>1. PICK cv : cv = CurrentVersion(p)
    OBVIOUS
  <1>2. /\ pc[p] = "step" /\ si[p] > Len(cv.steps) /\ cmd' = cmd /\ rows' = rows /\ live' = live /\ txLive' = txLive
        /\ txRows' = IF cmd[p].op # "down" THEN txRows
                     ELSE [txRows EXCEPT ![p] = {x \in txRows[p] : x.version # cv.version}]
    BY <1>1 DEF FinishVersion, db, bounds
  <1>3. pc'[p] = "version" /\ \A q \in Runners \ {p} : pc'[q] = pc[q]
    BY DEF FinishVersion, LiveInv, IInv, TypeOK
  <1>4. Effective(p)' = Effective(p)
    <2>1. CASE cmd[p].op # "down"
      BY <1>2, <1>3, <2>1 DEF Effective
    <2>2. CASE cmd[p].op = "down"
      <3>1. Effective(p)' = {x \in txRows[p] : x.version # cv.version}
        BY <1>2, <1>3, <2>2 DEF Effective, LiveInv, IInv, TypeOK
      <3>2. /\ cmd[p] \in Command /\ Refusal(cmd[p], rows) = "ok" /\ txRows[p] = WorkRows(p)
            /\ Len(cv.steps) \in Nat /\ si[p] \in 1 .. Len(cv.steps) + 1
        BY <1>1, <1>2, InVersion DEF LiveInv
      <3>3. PICK r \in Releases : r = cmd[p].release
        BY <3>2 DEF Command
      <3>4. PICK i \in DOMAIN Plan[r] : cv = Plan[r][i]
        BY <1>1, <1>2, <3>3, InVersion DEF LiveInv
      <3>5. si[p] - 1 = Len(cv.steps) /\ DOMAIN cv.steps = 1 .. Len(cv.steps)
        <4>1. DOMAIN cv.steps = 1 .. Len(cv.steps)
          BY <3>4, PlanTypes
        <4>2. si[p] - 1 = Len(cv.steps)
          BY <1>2, <3>2
        <4> QED
          BY <4>1, <4>2
      <3>6. Effective(p) = {x \in txRows[p] :
               x.version = cv.version => \A k \in 1 .. Len(cv.steps) : StepAt(cmd[p], cv, k).object # x.object}
        BY <1>1, <1>2, <2>2, <3>5 DEF Effective
      <3>7. ASSUME NEW x \in txRows[p], x.version = cv.version
            PROVE  \E k \in 1 .. Len(cv.steps) : StepAt(cmd[p], cv, k).object = x.object
        <4>1. x \in rows
          BY <2>2, <3>2 DEF WorkRows
        <4>2. PICK m \in DOMAIN Plan[r] : \E j \in DOMAIN Plan[r][m].steps :
                 x = RowOf(Plan[r][m].version, Plan[r][m].steps[j])
          BY <2>2, <3>2, <3>3, <4>1, Admitted DEF LiveInv, HistoryInv
        <4>3. m = i
          BY <3>4, <3>7, <4>2, Ascending DEF RowOf
        <4>4. PICK j \in DOMAIN cv.steps : x.object = cv.steps[j].object
          BY <3>4, <4>2, <4>3 DEF RowOf
        <4>5. PICK k \in 1 .. Len(cv.steps) : k = Len(cv.steps) + 1 - j
          BY <3>2, <3>5, <4>4
        <4>6. StepAt(cmd[p], cv, k) = cv.steps[j]
          <5>1. Len(cv.steps) + 1 - k = j
            BY <3>2, <3>5, <4>4, <4>5
          <5> QED
            BY <2>2, <5>1 DEF StepAt
        <4> QED
          BY <4>4, <4>6
      <3> QED
        BY <3>1, <3>6, <3>7
    <2> QED
      BY <2>1, <2>2
  <1>5. \A o \in Objects : LiveOf(p, o)' = LiveOf(p, o)
    BY <1>2 DEF LiveOf
  <1>6. LiveOK(p)'
    BY <1>2, <1>3, <1>4, <1>5 DEF LiveInv, LiveOK
  <1> QED
    BY <1>2, <1>3, <1>6, InsideLive

\* A commit publishes a history and the schema it tells.
LEMMA CommitLive ==
    ASSUME Traceable, NoAdoption, LiveInv, NEW p \in Runners, Commit(p)
    PROVE  HistoryInv' /\ \A q \in Runners : LiveOK(q)'
  <1>1. pc[p] = "version" /\ rows' = txRows[p] /\ live' = [o \in Objects |-> LiveOf(p, o)]
    BY DEF Commit
  <1>2. rows' = TargetRows(cmd[p], rows) /\ Refusal(cmd[p], rows) = "ok"
    BY CommitTarget DEF LiveInv
  <1>3. cmd[p] \in Command /\ cmd[p].op # "baseline"
    BY CommandTypes DEF LiveInv, IInv, TypeOK, NoAdoption
  <1>4. WholeHistory(rows)' /\ InOrder(rows)'
    <2>1. WholeHistory(TargetRows(cmd[p], rows)) /\ InOrder(TargetRows(cmd[p], rows))
      BY <1>2, <1>3, WholePreserved, OrderKept DEF LiveInv, HistoryInv
    <2> QED
      BY <1>2, <2>1
  <1>5. ASSUME NEW o \in Objects
        PROVE  Matches(live'[o], rows', o)
    <2>1. Matches(LiveOf(p, o), Effective(p), o)
      BY <1>1 DEF LiveInv, LiveOK
    <2> QED
      BY <1>1, <2>1 DEF Effective
  <1>6. LiveOK(p)'
    <2>1. pc'[p] = "done" /\ \A o \in Objects : txLive'[p][o] = Untouched
      BY DEF Commit, LiveInv, IInv, TypeOK
    <2> QED
      BY <2>1 DEF LiveOK
  <1>7. ASSUME NEW q \in Runners \ {p}
        PROVE  LiveOK(q)'
    <2>1. pc'[q] = pc[q] /\ txLive'[q] = txLive[q]
      BY DEF Commit, LiveInv, IInv, TypeOK
    <2> QED
      BY <1>1, <2>1, Bystander
  <1> QED
    BY <1>4, <1>5, <1>6, <1>7 DEF HistoryInv

\* A hotfix replaces a view that exists, and that no open transaction has changed.
LEMMA HotfixLive ==
    ASSUME Traceable, NoAdoption, LiveInv, NEW o \in Objects, Hotfix(o)
    PROVE  HistoryInv' /\ \A q \in Runners : LiveOK(q)'
  <1>1. PICK d \in HotDefs : live' = [live EXCEPT ![o] = d]
    BY DEF Hotfix
  <1>2. /\ live[o] # Absent /\ rows' = rows /\ pc' = pc /\ cmd' = cmd /\ txRows' = txRows /\ txLive' = txLive
        /\ vi' = vi /\ si' = si /\ ti' = ti /\ \A p \in Runners : txLive[p][o] = Untouched
    BY DEF Hotfix, tx, loop
  <1>3. live'[o] = d /\ \A a \in Objects \ {o} : live'[a] = live[a]
    BY <1>1 DEF LiveInv, IInv, TypeOK
  <1>4. ASSUME NEW h, Matches(live[o], h, o)
        PROVE  Matches(d, h, o)
    BY <1>2, <1>4, NothingLoosened DEF Matches
  <1>5. HistoryInv'
    <2>1. \A a \in Objects : Matches(live'[a], rows, a)
      BY <1>3, <1>4 DEF LiveInv, HistoryInv
    <2> QED
      BY <1>2, <2>1 DEF LiveInv, HistoryInv
  <1>6. ASSUME NEW q \in Runners
        PROVE  LiveOK(q)'
    <2>1. LiveOf(q, o) = live[o] /\ LiveOf(q, o)' = d
      BY <1>2, <1>3 DEF LiveOf
    <2>2. \A a \in Objects \ {o} : LiveOf(q, a)' = LiveOf(q, a)
      BY <1>2, <1>3 DEF LiveOf
    <2>3. /\ CurrentVersion(q)' = CurrentVersion(q) /\ CurrentStep(q)' = CurrentStep(q)
          /\ CurrentStatements(q)' = CurrentStatements(q)
      BY <1>2 DEF CurrentVersion, CurrentStep, CurrentStatements
    <2>4. Effective(q)' = Effective(q)
      BY <1>2, <2>3 DEF Effective
    <2>5. ASSUME NEW a \in Objects, Matches(LiveOf(q, a), Effective(q), a)
          PROVE  Matches(LiveOf(q, a)', Effective(q), a)
      BY <1>4, <2>1, <2>2, <2>5
    <2>6. LiveOK(q)
      BY DEF LiveInv
    <2>7. CASE pc[q] = "statement"
      <3>1. StatementOK(q)
        BY <2>6, <2>7 DEF LiveOK
      <3>2. CurrentStep(q).object \in Objects
        BY <2>7, StatementsKnown, AtStatement DEF LiveInv
      <3>3. StatementOK(q)'
        BY <1>2, <2>3, <2>4, <2>5, <3>1, <3>2 DEF StatementOK
      <3> QED
        BY <1>2, <2>3, <2>4, <2>5, <2>6, <2>7, <3>3 DEF LiveOK
    <2>8. CASE pc[q] # "statement"
      BY <1>2, <2>4, <2>5, <2>6, <2>8 DEF LiveOK
    <2> QED
      BY <2>7, <2>8
  <1> QED
    BY <1>5, <1>6

\* Every step keeps the agreement of history and schema.
LEMMA NextLive ==
    ASSUME Traceable, NoAdoption, LiveInv, [Next]_vars
    PROVE  LiveInv'
  <1>1. IInv'
    BY NextInv DEF LiveInv
  <1> SUFFICES HistoryInv' /\ \A q \in Runners : LiveOK(q)'
    BY <1>1 DEF LiveInv
  <1>2. ASSUME NEW p \in Runners, Refuse(p) \/ GuardRefuses(p) \/ Abort(p)
        PROVE  HistoryInv' /\ \A q \in Runners : LiveOK(q)'
    BY <1>2, RollbackLive DEF Refuse, GuardRefuses, Abort
  <1>3. CASE UNCHANGED vars
    BY <1>3, LiveFrame, HistoryFrame DEF vars, LiveInv
  <1> QED
    BY <1>2, <1>3, OutsideLive, AdmitLive, NextVersionLive, NextStepLive, ApplyStatementLive, FinishStepLive,
       FinishVersionLive, CommitLive, HotfixLive DEF Next, Progress

\* An empty history tells an empty schema.
LEMMA InitLive == Init => LiveInv
  <1> SUFFICES ASSUME Init PROVE LiveInv
    OBVIOUS
  <1>1. HistoryInv
    <2>1. ASSUME NEW o \in Objects
          PROVE  Matches(live[o], rows, o)
      <3>1. RecordedDef(rows, o) = Absent /\ live[o] = Absent
        BY UnrecordedAbsent DEF Init
      <3> QED
        BY <3>1, NothingLoosened DEF Matches
    <2> QED
      BY <2>1 DEF Init, HistoryInv, WholeHistory, Versions, InOrder
  <1>2. \A p \in Runners : LiveOK(p)
    BY DEF Init, LiveOK
  <1> QED
    BY <1>1, <1>2, InitInv DEF LiveInv

\* History and schema agree, whatever fails, runs concurrently or comes from another build:
\* an object is what its newest recorded step made it, or a hotfix; of a table, columns that a
\* derived rollback brought back may be nullable where the step had them NOT NULL.
THEOREM HistoryTellsSchema == Traceable /\ NoAdoption => (Spec => []LiveMatchesHistory)
  <1> SUFFICES ASSUME Traceable, NoAdoption PROVE Spec => []LiveMatchesHistory
    OBVIOUS
  <1>1. Init => LiveInv
    BY InitLive
  <1>2. LiveInv /\ [Next]_vars => LiveInv'
    BY NextLive
  <1>3. LiveInv => LiveMatchesHistory
    BY DEF LiveInv, HistoryInv, Matches, LiveMatchesHistory
  <1> QED
    BY <1>1, <1>2, <1>3, PTL DEF Spec

-----------------------------------------------------------------------------
(* Hotfixes. *)

\* A run without force has not touched a hotfixed view, and all it has executed
\* of the view's step are guards that expect a hotfix.
HotOK(p) ==
    pc[p] \in InTx /\ ~cmd[p].force => \A o \in Views : live[o] \in HotDefs =>
        /\ txLive[p][o] = Untouched
        /\ pc[p] = "statement" /\ CurrentStep(p).object = o =>
              \A m \in 1 .. ti[p] - 1 : CurrentStatements(p)[m].guard /\ CurrentStatements(p)[m].def \in HotDefs

HotInv == LiveInv /\ \A p \in Runners : HotOK(p)

\* The rollback of a view begins with a guard on what its version left.
LEMMA DerivedGuarded ==
    ASSUME NEW r \in Releases, NEW i \in DOMAIN Plan[r], NEW step, SnapshotsTell(r, i, step), step.object \in Views,
           SnapshotsAt(r, step.object, Plan[r][i].version) # {}, Leaves(step) \notin HotDefs
    PROVE  GuardsFirst(DeriveDown(r, step.object, Plan[r][i].version))
  <1>1. PICK o, v : o = step.object /\ v = Plan[r][i].version
    OBVIOUS
  <1>2. PICK at : at = At(r, o, v)
    OBVIOUS
  <1>3. at.def = Leaves(step)
    <2>1. at \in SnapshotsAt(r, o, v)
      BY <1>1, <1>2 DEF At
    <2> QED
      BY <1>1, <2>1 DEF SnapshotsTell
  <1>4. PICK expect : expect = [sql |-> at.sql, guard |-> TRUE, object |-> o, def |-> at.def, sets |-> {}]
    OBVIOUS
  <1>5. PICK drop : drop = [sql |-> at.sql, guard |-> FALSE, object |-> o, def |-> Absent, sets |-> {}]
    OBVIOUS
  <1>6. PICK restore : restore = [sql |-> at.sql, guard |-> FALSE, object |-> o, def |-> DefBefore(r, o, v),
                                sets |-> {}]
    OBVIOUS
  <1>7. DeriveDown(r, o, v) \in {<<expect, drop>>, <<expect, drop, restore>>}
    BY <1>1, <1>2, <1>4, <1>5, <1>6 DEF DeriveDown
  <1>8. expect.guard /\ expect.def \notin HotDefs
    BY <1>3, <1>4
  <1>9. GuardsFirst(<<expect, drop>>)
    BY <1>8 DEF GuardsFirst
  <1>10. GuardsFirst(<<expect, drop, restore>>)
    BY <1>8 DEF GuardsFirst
  <1> QED
    BY <1>1, <1>7, <1>9, <1>10

\* The statements of a view's step are guarded, or by its history the view does not exist.
LEMMA ViewsGuarded ==
    ASSUME Traceable, Guarded, NoAdoption, LiveInv, NEW p \in Runners, pc[p] = "statement",
           NEW o \in Views, o = CurrentStep(p).object
    PROVE  RecordedDef(Effective(p), o) = Absent \/ GuardsFirst(CurrentStatements(p))
  <1>1. /\ cmd[p] \in Command /\ cmd[p].op \in {"migrate", "down"} /\ cmd[p].release \in Releases
    BY StatementsKnown, AtStatement DEF LiveInv
  <1>2. PICK r \in Releases : r = cmd[p].release
    BY <1>1
  <1>3. PICK step : step = CurrentStep(p)
    OBVIOUS
  <1>4. PICK i \in DOMAIN Plan[r] : CurrentVersion(p) = Plan[r][i] /\ \E j \in DOMAIN Plan[r][i].steps : step = Plan[r][i].steps[j]
    BY <1>2, <1>3, StatementsKnown, AtStatement DEF LiveInv
  <1>5. PICK j \in DOMAIN Plan[r][i].steps : step = Plan[r][i].steps[j]
    BY <1>4
  <1>6. /\ Leaves(step) \notin HotDefs
        /\ Before(r, i, o, Absent) \/ GuardsFirst(step.up)
        /\ NeedsDerivation(step) \/ Leaves(step) = Absent \/ GuardsFirst(step.down.pre \o step.down.core \o step.down.post)
    BY <1>3, <1>5 DEF Guarded
  <1>7. CASE cmd[p].op = "migrate"
    <2>1. CurrentStatements(p) = step.up
      BY <1>3, <1>7 DEF CurrentStatements, StepStatements
    <2>2. UpTo(Effective(p), r, i, o)
      BY <1>2, <1>4, <1>7, MigrateUpTo DEF LiveInv
    <2> QED
      BY <1>6, <2>1, <2>2, BeforeRecorded
  <1>8. CASE cmd[p].op = "down"
    <2>1. PICK x : x = RowOf(Plan[r][i].version, step)
      OBVIOUS
    <2>2. x.object = o
      BY <1>3, <2>1 DEF RowOf
    <2>3. /\ x \in Effective(p)
          /\ \A y \in Effective(p) : y.object = o => y = x \/ (y.version \in Nat /\ y.version < x.version)
      <3>1. x = RowOf(Plan[r][i].version, CurrentStep(p)) /\ CurrentVersion(p) = Plan[r][i] /\ IInv /\ HistoryInv
        BY <1>3, <1>4, <2>1 DEF LiveInv
      <3> QED
        BY <1>2, <1>8, <3>1, DownAround
    <2>4. RecordedDef(Effective(p), o) = Leaves(step)
      BY <1>5, <2>1, <2>2, <2>3, NewestDefines
    <2>5. PICK v \in Nat : v = Plan[r][i].version
      BY PlanTypes
    <2>6. CurrentStatements(p) = step.down.pre \o DownCore(r, v, step) \o step.down.post
      BY <1>2, <1>3, <1>4, <1>8, <2>5 DEF CurrentStatements, StepStatements
    <2>7. CASE ~NeedsDerivation(step)
      BY <1>6, <2>4, <2>6, <2>7 DEF DownCore
    <2>8. CASE NeedsDerivation(step)
      <3>1. Refusal(cmd[p], rows) = "ok" /\ Selected(cmd[p], Plan[r][i], rows)
        BY <1>4, InVersion DEF LiveInv
      <3>2. SnapshotsAt(r, o, v) # {}
        <4>1. Underivable(cmd[p], rows) = {} /\ cmd[p] \in Command
          BY <1>1, <1>8, <3>1 DEF Refusal, DownRefusal
        <4> QED
          BY <1>2, <1>3, <1>5, <2>5, <2>8, <3>1, <4>1, NotRefused DEF DeriveRefusal
      <3>3. step.down.pre = <<>> /\ step.down.post = <<>> /\ SnapshotsTell(r, i, step)
        BY <1>3, <1>5, <2>5, <2>8, <3>2 DEF Traceable, Reversible
      <3>4. PICK down : down = DeriveDown(r, o, v)
        OBVIOUS
      <3>5. down \in Seq(Statement)
        BY <1>2, <1>3, <2>5, <3>2, <3>4, DerivedType, StatementsKnown, AtStatement DEF LiveInv
      <3>6. CurrentStatements(p) = <<>> \o down \o <<>>
        BY <1>3, <2>6, <2>8, <3>3, <3>4 DEF DownCore
      <3>7. CurrentStatements(p) = down
        BY <3>5, <3>6
      <3> QED
        BY <1>3, <1>6, <2>5, <3>2, <3>3, <3>4, <3>7, DerivedGuarded
    <2> QED
      BY <2>7, <2>8
  <1> QED
    BY <1>1, <1>7, <1>8

\* A process outside a transaction has touched nothing.
LEMMA HotOutside ==
    ASSUME NEW q \in Runners, pc'[q] \notin InTx
    PROVE  HotOK(q)'
  BY DEF HotOK

\* While p has a transaction, only p can have touched anything.
LEMMA HotBystander ==
    ASSUME LiveInv, NEW p \in Runners, pc[p] \in InTx, NEW q \in Runners \ {p}, pc'[q] = pc[q]
    PROVE  HotOK(q)'
  BY DEF HotOK, LiveInv, IInv, LockInv

\* Between two steps only what was touched counts.
LEMMA HotKept ==
    ASSUME HotInv, NEW p \in Runners, pc[p] \in InTx, pc'[p] # "statement", cmd' = cmd, live' = live,
           txLive'[p] = txLive[p]
    PROVE  HotOK(p)'
  BY DEF HotInv, HotOK

\* The statement that would change a hotfixed view comes after a guard that refuses it.
LEMMA ApplyStatementHot ==
    ASSUME Traceable, Guarded, NoAdoption, HotInv, NEW p \in Runners, ApplyStatement(p)
    PROVE  HotOK(p)'
  <1>1. PICK S, n : S = CurrentStatements(p) /\ n = ti[p]
    OBVIOUS
  <1>2. /\ pc[p] = "statement" /\ n <= Len(S) /\ txRows' = txRows /\ cmd' = cmd /\ rows' = rows /\ live' = live
        /\ vi' = vi /\ si' = si /\ pc' = pc
        /\ txLive' = IF S[n].guard THEN txLive ELSE [txLive EXCEPT ![p][S[n].object] = Left(LiveOf(p, S[n].object), S[n])]
        /\ S[n].guard => GuardHolds(p, S[n])
    BY <1>1 DEF ApplyStatement, db, bounds
  <1>3. LiveInv /\ IInv /\ HotOK(p) /\ StatementOK(p)
    BY <1>2 DEF HotInv, LiveInv, LiveOK
  <1>4. ti'[p] = n + 1 /\ n \in Nat
    BY <1>1, <1>3 DEF ApplyStatement, IInv, TypeOK
  <1>5. S \in Seq(Statement) /\ \E d : Defines(S, CurrentStep(p).object, d)
    BY <1>1, <1>2, <1>3, StatementsKnown, AtStatement
  <1>6. n \in 1 .. Len(S) /\ DOMAIN S = 1 .. Len(S)
    BY <1>1, <1>2, <1>3, <1>4, <1>5 DEF StatementOK
  <1>7. S[n].object = CurrentStep(p).object
    BY <1>5, <1>6 DEF Defines
  <1>8. CurrentStep(p)' = CurrentStep(p) /\ CurrentStatements(p)' = S
    BY <1>1, <1>2 DEF CurrentVersion, CurrentStep, CurrentStatements
  <1> SUFFICES ASSUME ~cmd[p].force, NEW o \in Views, live[o] \in HotDefs
               PROVE  /\ txLive'[p][o] = Untouched
                      /\ CurrentStep(p).object = o => \A m \in 1 .. n : S[m].guard /\ S[m].def \in HotDefs
    <2>1. ti'[p] - 1 = n
      BY <1>4
    <2> QED
      BY <1>2, <1>8, <2>1 DEF HotOK
  <1>9. /\ txLive[p][o] = Untouched
        /\ CurrentStep(p).object = o => \A m \in 1 .. n - 1 : S[m].guard /\ S[m].def \in HotDefs
    BY <1>1, <1>2, <1>3 DEF HotOK
  <1>10. LiveOf(p, o) = live[o]
    BY <1>9 DEF LiveOf
  <1>11. CASE S[n].object # o
    <2>1. txLive'[p][o] = Untouched
      <3>1. txLive \in [Runners -> [Objects -> Defs \cup {Absent, Untouched}]] /\ o \in Objects
        BY <1>3, PlanAssumption DEF IInv, TypeOK
      <3> QED
        BY <1>2, <1>9, <1>11, <3>1
    <2> QED
      BY <1>7, <1>11, <2>1
  <1>12. CASE S[n].object = o
    <2>1. S[n].guard
      <3> SUFFICES ASSUME ~S[n].guard PROVE FALSE
        OBVIOUS
      <3>1. ~GuardsFirst(S)
        BY <1>6, <1>7, <1>9, <1>12 DEF GuardsFirst
      <3>2. RecordedDef(Effective(p), o) = Absent
        BY <1>1, <1>2, <1>3, <1>7, <1>12, <3>1, ViewsGuarded
      <3>3. Matches(LiveOf(p, o), Effective(p), o)
        BY <1>1, <1>3, <1>7, <1>9, <1>12 DEF StatementOK
      <3>4. live[o] = Absent
        BY <1>10, <3>2, <3>3, NothingLoosened DEF Matches
      <3> QED
        BY <3>4, RunnerAssumption, PlanAssumption
    <2>2. S[n].def \in HotDefs
      BY <1>2, <1>10, <1>12, <2>1 DEF GuardHolds
    <2>3. \A m \in 1 .. n : S[m].guard /\ S[m].def \in HotDefs
      <3>1. \A m \in 1 .. n : m = n \/ m \in 1 .. n - 1
        BY <1>4
      <3> QED
        BY <1>7, <1>9, <1>12, <2>1, <2>2, <3>1
    <2> QED
      BY <1>2, <1>9, <2>1, <2>3
  <1> QED
    BY <1>11, <1>12

\* A process with its transaction's state unchanged keeps what it has touched.
LEMMA HotFrame ==
    ASSUME HotInv, NEW q \in Runners, pc'[q] = pc[q], cmd'[q] = cmd[q], txLive'[q] = txLive[q],
           vi'[q] = vi[q], si'[q] = si[q], ti'[q] = ti[q], live' = live
    PROVE  HotOK(q)'
  <1>1. CurrentStep(q)' = CurrentStep(q) /\ CurrentStatements(q)' = CurrentStatements(q)
    BY DEF CurrentVersion, CurrentStep, CurrentStatements
  <1> QED
    BY <1>1 DEF HotInv, HotOK

\* A command is issued, and waits for the lock: nothing is touched yet.
LEMMA OutsideHot ==
    ASSUME HotInv, NEW p \in Runners, Request(p) \/ BeginMigrationRunLock(p) \/ LockRefused(p)
    PROVE  \A q \in Runners : HotOK(q)'
  <1> USE DEF Request, BeginMigrationRunLock, LockRefused, db, tx, loop, bounds
  <1>1. live' = live /\ txLive' = txLive
    OBVIOUS
  <1>2. pc[p] \notin {"version", "step", "statement"} /\ pc'[p] # "statement"
    BY DEF HotInv, LiveInv, IInv, TypeOK
  <1>3. \A o \in Views : txLive'[p][o] = Untouched
    BY <1>1, <1>2, PlanAssumption DEF HotInv, LiveInv, LiveOK
  <1>4. HotOK(p)'
    BY <1>2, <1>3 DEF HotOK
  <1>5. ASSUME NEW q \in Runners \ {p}
        PROVE  HotOK(q)'
    <2>1. /\ pc'[q] = pc[q] /\ cmd'[q] = cmd[q] /\ txLive'[q] = txLive[q]
          /\ vi'[q] = vi[q] /\ si'[q] = si[q] /\ ti'[q] = ti[q]
      BY DEF HotInv, LiveInv, IInv, TypeOK
    <2> QED
      BY <1>1, <2>1, HotFrame
  <1> QED
    BY <1>4, <1>5

\* The end of a transaction, whichever way it ends.
LEMMA EndHot ==
    ASSUME HotInv, NEW p \in Runners, Refuse(p) \/ GuardRefuses(p) \/ Abort(p) \/ Commit(p)
    PROVE  \A q \in Runners : HotOK(q)'
  <1>1. pc[p] \in InTx /\ pc' = [pc EXCEPT ![p] = "done"]
    BY DEF Refuse, GuardRefuses, Abort, Commit, Rollback
  <1>2. pc'[p] = "done" /\ \A q \in Runners \ {p} : pc'[q] = pc[q]
    BY <1>1 DEF HotInv, LiveInv, IInv, TypeOK
  <1>3. HotOK(p)'
    BY <1>2, HotOutside
  <1>4. ASSUME NEW q \in Runners \ {p}
        PROVE  HotOK(q)'
    BY <1>1, <1>2, HotBystander DEF HotInv
  <1> QED
    BY <1>3, <1>4

\* A run that moves on in its loops touches nothing.
LEMMA LoopHot ==
    ASSUME HotInv, NEW p \in Runners, Admit(p) \/ NextVersion(p) \/ NextStep(p) \/ FinishStep(p) \/ FinishVersion(p)
    PROVE  \A q \in Runners : HotOK(q)'
  <1>1. pc[p] \in InTx /\ cmd' = cmd /\ live' = live /\ txLive' = txLive
    BY DEF Admit, NextVersion, NextStep, FinishStep, FinishVersion, db, tx
  <1>2. \A q \in Runners \ {p} : pc'[q] = pc[q]
    BY DEF Admit, NextVersion, NextStep, FinishStep, FinishVersion, HotInv, LiveInv, IInv, TypeOK
  <1>3. HotOK(p)'
    <2>1. CASE NextStep(p)
      <3>1. ti'[p] = 1
        BY <2>1 DEF NextStep, HotInv, LiveInv, IInv, TypeOK
      <3>2. \A m \in 1 .. ti'[p] - 1 : FALSE
        BY <3>1
      <3> QED
        BY <1>1, <3>2 DEF HotInv, HotOK
    <2>2. CASE ~NextStep(p)
      <3>1. pc'[p] # "statement"
        BY <2>2 DEF Admit, NextVersion, FinishStep, FinishVersion, HotInv, LiveInv, IInv, TypeOK
      <3> QED
        BY <1>1, <3>1, HotKept
    <2> QED
      BY <2>1, <2>2
  <1> QED
    BY <1>1, <1>2, <1>3, HotBystander DEF HotInv

\* Under an exclusive lock nobody has a transaction open while a view is replaced outside.
LEMMA HotfixHot ==
    ASSUME ExclusiveLock, HotInv, NEW o \in Objects, Hotfix(o)
    PROVE  \A q \in Runners : HotOK(q)'
  <1>1. lock = NoRunner /\ pc' = pc
    BY DEF Hotfix
  <1>2. \A q \in Runners : pc[q] \notin InTx
    BY <1>1, RunnerAssumption DEF HotInv, LiveInv, IInv, LockInv
  <1> QED
    BY <1>1, <1>2, HotOutside

\* Every step keeps hotfixed views untouched.
LEMMA NextHot ==
    ASSUME Traceable, Guarded, NoAdoption, ExclusiveLock, HotInv, [Next]_vars
    PROVE  HotInv'
  <1>1. LiveInv'
    BY NextLive DEF HotInv
  <1> SUFFICES \A q \in Runners : HotOK(q)'
    BY <1>1 DEF HotInv
  <1>2. ASSUME NEW p \in Runners, ApplyStatement(p)
        PROVE  \A q \in Runners : HotOK(q)'
    <2>1. pc[p] \in InTx /\ pc' = pc
      BY <1>2 DEF ApplyStatement
    <2> QED
      BY <1>2, <2>1, ApplyStatementHot, HotBystander DEF HotInv
  <1>3. CASE UNCHANGED vars
    BY <1>3, HotFrame DEF vars
  <1> QED
    BY <1>2, <1>3, OutsideHot, EndHot, LoopHot, HotfixHot DEF Next, Progress

\* A commit that is not forced leaves every hotfixed view as it is.
LEMMA HotfixStays ==
    ASSUME HotInv, [Next]_vars, NEW o \in Views, live[o] \in HotDefs, live'[o] \notin HotDefs
    PROVE  \E p \in Runners : Commit(p) /\ cmd[p].force
  <1>1. o \in Objects /\ live \in [Objects -> Defs \cup {Absent}]
    BY PlanAssumption DEF HotInv, LiveInv, IInv, TypeOK
  <1>2. ASSUME NEW a \in Objects, Hotfix(a)
        PROVE  FALSE
    <2>1. PICK d \in HotDefs : live' = [live EXCEPT ![a] = d]
      BY <1>2 DEF Hotfix
    <2> QED
      BY <1>1, <2>1
  <1>3. PICK p \in Runners : Commit(p)
    <2>1. live' # live
      OBVIOUS
    <2> QED
      BY <1>2, <2>1 DEF Next, Progress, Request, BeginMigrationRunLock, LockRefused, Abort, Refuse, GuardRefuses, Rollback,
         Admit, NextVersion, NextStep, ApplyStatement, FinishStep, FinishVersion, db, vars
  <1>4. live'[o] = LiveOf(p, o) /\ pc[p] \in InTx
    BY <1>1, <1>3 DEF Commit
  <1>5. CASE ~cmd[p].force
    <2>1. txLive[p][o] = Untouched
      BY <1>4, <1>5 DEF HotInv, HotOK
    <2> QED
      BY <1>4, <2>1 DEF LiveOf
  <1> QED
    BY <1>3, <1>5

\* Nobody has touched anything before the first command.
LEMMA InitHot == Init => HotInv
  BY InitLive DEF Init, HotInv, HotOK

\* An outside hotfix of a view survives every migration and rollback that is not forced (MIG-012),
\* where the lock excludes other writers and every change of a view is guarded.
THEOREM HotfixesKept == Traceable /\ Guarded /\ NoAdoption /\ ExclusiveLock => (Spec => HotfixPreserved)
  <1> SUFFICES ASSUME Traceable, Guarded, NoAdoption, ExclusiveLock PROVE Spec => HotfixPreserved
    OBVIOUS
  <1>1. Init => HotInv
    BY InitHot
  <1>2. HotInv /\ [Next]_vars => HotInv'
    BY NextHot
  <1>3. HotInv /\ [Next]_vars =>
          [\A o \in Views : live[o] \in HotDefs /\ live'[o] \notin HotDefs =>
              \E p \in Runners : Commit(p) /\ cmd[p].force]_vars
    BY HotfixStays
  <1> QED
    BY <1>1, <1>2, <1>3, PTL DEF Spec, HotfixPreserved

=============================================================================
