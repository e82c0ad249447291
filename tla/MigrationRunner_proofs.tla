----------------------- MODULE MigrationRunner_proofs -----------------------
(***************************************************************************)
(* For every set of builds, plans, processes and commands: the type        *)
(* invariant, whole versions in the history, and that the runner           *)
(* implements SchemaHistory.                                               *)
(***************************************************************************)
EXTENDS MigrationRunner, WellFoundedInduction, TLAPS

USE DEF InTx

(***************************************************************************)
(* Facts about plans.                                                      *)
(***************************************************************************)
LEMMA PlanTypes ==
    ASSUME NEW r \in Releases
    PROVE  /\ Plan[r] \in Seq(RenderedVersion)
           /\ DOMAIN Plan[r] = 1 .. Len(Plan[r])
           /\ Len(Plan[r]) \in Nat
           /\ \A i \in DOMAIN Plan[r] :
                 /\ Plan[r][i] \in RenderedVersion
                 /\ Plan[r][i].version \in Nat
                 /\ Plan[r][i].steps \in Seq(RenderedStep)
                 /\ Len(Plan[r][i].steps) \in Nat
                 /\ DOMAIN Plan[r][i].steps = 1 .. Len(Plan[r][i].steps)
           /\ \A i, j \in DOMAIN Plan[r] : Plan[r][i].version = Plan[r][j].version => i = j
  <1>1. Plan[r] \in Seq(RenderedVersion) /\ WellFormed(Plan[r])
    BY PlanAssumption
  <1>2. \A i \in DOMAIN Plan[r] : Plan[r][i] \in RenderedVersion
    BY <1>1
  <1>3. \A i \in DOMAIN Plan[r] : /\ Plan[r][i].version \in Nat
                                  /\ Plan[r][i].steps \in Seq(RenderedStep)
    BY <1>2 DEF RenderedVersion
  <1>4. \A i, j \in DOMAIN Plan[r] : Plan[r][i].version = Plan[r][j].version => i = j
    BY <1>1, <1>3 DEF WellFormed
  <1> QED
    BY <1>1, <1>2, <1>3, <1>4

\* A step's row is a row.
LEMMA RowType ==
    ASSUME NEW r \in Releases, NEW i \in DOMAIN Plan[r], NEW j \in DOMAIN Plan[r][i].steps
    PROVE  RowOf(Plan[r][i].version, Plan[r][i].steps[j]) \in Row
  <1> DEFINE step == Plan[r][i].steps[j]
  <1>1. step \in RenderedStep /\ Plan[r][i].version \in Nat
    BY PlanTypes
  <1>2. step.object \in Objects /\ step.up \in Seq(Statement)
    BY <1>1 DEF RenderedStep
  <1>3. computeChecksum(step.up) \in Seq(Sqls)
    <2> HIDE DEF step
    <2>0. \A k \in 1 .. Len(step.up) : step.up[k] \in Statement
      BY <1>2
    <2>1. \A k \in 1 .. Len(step.up) : step.up[k].sql \in Sqls
      BY <2>0 DEF Statement
    <2>2. DOMAIN step.up = 1 .. Len(step.up) /\ Len(step.up) \in Nat
      BY <1>2
    <2> QED
      BY <2>1, <2>2 DEF computeChecksum
  <1> QED
    BY <1>1, <1>2, <1>3 DEF RowOf, Row

\* The walk visits exactly the versions of the plan, each at one position.
LEMMA Walk ==
    ASSUME NEW c \in Command
    PROVE  /\ \A k \in 1 .. Len(Plan[c.release]) :
                 \E i \in DOMAIN Plan[c.release] : VersionAt(c, k) = Plan[c.release][i]
           /\ \A i \in DOMAIN Plan[c.release] :
                 \E k \in 1 .. Len(Plan[c.release]) : VersionAt(c, k) = Plan[c.release][i]
  <1>1. c.release \in Releases
    BY DEF Command
  <1>2. DOMAIN Plan[c.release] = 1 .. Len(Plan[c.release]) /\ Len(Plan[c.release]) \in Nat
    BY <1>1, PlanTypes
  <1>3. \A k \in 1 .. Len(Plan[c.release]) : Len(Plan[c.release]) + 1 - k \in 1 .. Len(Plan[c.release])
    BY <1>2
  <1>4. CASE c.op = "down"
    <2>1. \A k \in 1 .. Len(Plan[c.release]) :
            VersionAt(c, k) = Plan[c.release][Len(Plan[c.release]) + 1 - k]
      BY <1>4 DEF VersionAt
    <2>2. ASSUME NEW i \in DOMAIN Plan[c.release]
          PROVE  \E k \in 1 .. Len(Plan[c.release]) : VersionAt(c, k) = Plan[c.release][i]
      <3>1. Len(Plan[c.release]) + 1 - i \in 1 .. Len(Plan[c.release])
        BY <1>2, <1>3
      <3>2. Len(Plan[c.release]) + 1 - (Len(Plan[c.release]) + 1 - i) = i
        BY <1>2
      <3> QED
        BY <3>1, <3>2, <2>1
    <2> QED
      BY <1>2, <1>3, <2>1, <2>2
  <1>5. CASE c.op # "down"
    BY <1>2, <1>5 DEF VersionAt
  <1> QED
    BY <1>4, <1>5

\* The steps of a version the walk visits are its steps.
LEMMA StepWalk ==
    ASSUME NEW c \in Command, NEW i \in DOMAIN Plan[c.release],
           NEW k \in 1 .. Len(Plan[c.release][i].steps)
    PROVE  \E j \in DOMAIN Plan[c.release][i].steps :
              StepAt(c, Plan[c.release][i], k) = Plan[c.release][i].steps[j]
  <1>1. c.release \in Releases
    BY DEF Command
  <1>2. /\ DOMAIN Plan[c.release][i].steps = 1 .. Len(Plan[c.release][i].steps)
        /\ Len(Plan[c.release][i].steps) \in Nat
    BY <1>1, PlanTypes
  <1>3. Len(Plan[c.release][i].steps) + 1 - k \in 1 .. Len(Plan[c.release][i].steps)
    BY <1>2
  <1> QED
    BY <1>2, <1>3 DEF StepAt

\* A non-empty set of naturals below a bound has a largest member.
LEMMA Largest ==
    ASSUME NEW S, S \subseteq Nat, S # {}, NEW n \in Nat, \A x \in S : x < n
    PROVE  \E x \in S : \A y \in S : y <= x
  <1> DEFINE T == {n - x : x \in S}
  <1>0. \A x \in S : x \in Nat /\ n - x \in Nat
    OBVIOUS
  <1>1. T \subseteq Nat /\ T # {}
    BY <1>0
  <1>2. PICK z \in T : \A y \in T : ~ (<<y, z>> \in OpToRel(<, Nat))
    BY <1>1, NatLessThanWellFounded, WFMin
  <1>3. \A y \in T : ~ (y < z)
    BY <1>1, <1>2 DEF OpToRel
  <1>4. PICK x \in S : z = n - x
    BY <1>2
  <1>5. ASSUME NEW y \in S
        PROVE  y <= x
    <2>1. ~ (n - y < n - x)
      BY <1>3, <1>4
    <2> QED
      BY <2>1
  <1> QED
    BY <1>5

\* A derived rollback consists of statements.
LEMMA DerivedType ==
    ASSUME NEW r \in Releases, NEW o \in Objects, NEW v \in Nat, SnapshotsAt(r, o, v) # {}
    PROVE  DeriveDown(r, o, v) \in Seq(Statement)
  <1> DEFINE at == At(r, o, v)
             before == SnapshotsBefore(r, o, v)
             latest == LatestBefore(r, o, v)
             expect == [sql |-> at.sql, guard |-> TRUE, object |-> o, def |-> at.def, sets |-> {}]
             drop == [sql |-> at.sql, guard |-> FALSE, object |-> o, def |-> Absent, sets |-> {}]
             restore == [sql |-> at.sql, guard |-> FALSE, object |-> o, def |-> DefBefore(r, o, v), sets |-> {}]
  <1>1. /\ SnapshotsAt(r, o, v) \subseteq Snapshot
        /\ before \subseteq Snapshot
    BY PlanAssumption DEF SnapshotsAt, SnapshotsBefore
  <1>2. at.sql \in Sqls /\ at.def \in Defs
    <2>1. at \in SnapshotsAt(r, o, v)
      BY DEF At
    <2> HIDE DEF at
    <2> QED
      BY <1>1, <2>1 DEF Snapshot
  <1>3. DefBefore(r, o, v) \in Defs \cup {Absent}
    <2>1. CASE before = {}
      BY <2>1 DEF DefBefore
    <2>2. CASE before # {}
      <3> DEFINE S == {s.version : s \in before}
      <3>1. S \subseteq Nat /\ S # {} /\ \A x \in S : x < v
        BY <1>1, <2>2 DEF Snapshot, SnapshotsBefore
      <3>2. PICK m \in S : \A y \in S : y <= m
        <4> HIDE DEF S
        <4> QED
          BY <3>1, Largest
      <3>3. PICK s \in before : s.version = m
        BY <3>2
      <3>4. \A t \in before : t.version <= s.version
        BY <3>2, <3>3
      <3>5. latest \in before
        BY <3>3, <3>4 DEF LatestBefore
      <3>6. latest.def \in Defs
        <4> HIDE DEF latest
        <4> QED
          BY <1>1, <3>5 DEF Snapshot
      <3> QED
        BY <2>2, <3>6 DEF DefBefore
    <2> QED
      BY <2>1, <2>2
  <1> HIDE DEF at
  <1>4. restore \in Statement /\ expect \in Statement /\ drop \in Statement
    BY <1>2, <1>3 DEF Statement
  <1>5. DeriveDown(r, o, v) \in {<<restore>>, <<expect, drop>>, <<expect, drop, restore>>}
    BY DEF DeriveDown, at
  <1> HIDE DEF expect, drop, restore
  <1>6. <<restore>> \in Seq(Statement)
    BY <1>4
  <1>7. <<expect, drop>> \in Seq(Statement)
    BY <1>4
  <1>8. <<expect, drop, restore>> \in Seq(Statement)
    BY <1>4
  <1> QED
    BY <1>5, <1>6, <1>7, <1>8

\* When no place is refused, the rollback of every selected step can be derived or is overridden.
LEMMA NotRefused ==
    ASSUME NEW c \in Command, NEW h, Underivable(c, h) = {},
           NEW i \in DOMAIN Plan[c.release], Selected(c, Plan[c.release][i], h),
           NEW j \in DOMAIN Plan[c.release][i].steps, NeedsDerivation(Plan[c.release][i].steps[j])
    PROVE  DeriveRefusal(c.release, Plan[c.release][i].steps[j].object, Plan[c.release][i].version) = "ok"
  <1>1. PICK x : x = <<i, j>>
    OBVIOUS
  <1>2. x[1] = i /\ x[2] = j
    BY <1>1
  <1>3. x \in UNION {{<<k, l>> : l \in DOMAIN Plan[c.release][k].steps} : k \in DOMAIN Plan[c.release]}
    BY <1>1
  <1>4. x \notin Underivable(c, h)
    OBVIOUS
  <1> QED
    BY <1>2, <1>3, <1>4 DEF Underivable

\* A statement takes an object to a definition, and it is the statement's but for nullable columns.
LEMMA LeftLoosened ==
    ASSUME NEW now, NEW s \in Statement
    PROVE  Left(now, s) \in Defs \cup {Absent} /\ Loosened(Left(now, s), s.def)
  <1>1. s.def \in Defs \cup {Absent}
    BY DEF Statement
  <1>2. CASE now \in Shapes /\ s.def \in Shapes
    <2>1. PICK C \in SUBSET Columns : s.def \in [C -> Column]
      BY <1>2 DEF Shapes
    <2>2. PICK d : d = Left(now, s)
      OBVIOUS
    <2>3. /\ d = [col \in C |-> IF col \notin s.sets /\ (col \in DOMAIN now => now[col] = Nullable(s.def[col]))
                                THEN Nullable(s.def[col]) ELSE s.def[col]]
          /\ DOMAIN s.def = C
      BY <1>2, <2>1, <2>2 DEF Left
    <2>4. \A col \in C : d[col] \in {s.def[col], Nullable(s.def[col])} /\ s.def[col] \in Column
      BY <2>1, <2>3
    <2>5. \A col \in C : d[col] \in Column
      BY <2>4 DEF Column, Nullable
    <2>6. d \in [C -> Column]
      BY <2>3, <2>5
    <2>7. d \in Shapes
      BY <2>6 DEF Shapes
    <2>8. Loosened(d, s.def)
      BY <1>2, <2>3, <2>4, <2>7 DEF Loosened
    <2>9. d \in Defs \cup {Absent}
      <3>1. CASE s.def \in Defs
        BY <2>7, <2>8, <3>1, PlanAssumption
      <3>2. CASE s.def = Absent
        BY <1>2, <3>2, PlanAssumption
      <3> QED
        BY <1>1, <3>1, <3>2
    <2> QED
      BY <2>2, <2>8, <2>9
  <1>3. CASE ~ (now \in Shapes /\ s.def \in Shapes)
    BY <1>1, <1>3 DEF Left, Loosened
  <1> QED
    BY <1>2, <1>3

\* What a command executes for a step of a version it selected is a sequence of
\* statements, once the command's checks have passed.
LEMMA StatementsType ==
    ASSUME NEW c \in Command, NEW recorded0, Refusal(c, recorded0) = "ok",
           NEW i \in DOMAIN Plan[c.release], Selected(c, Plan[c.release][i], recorded0),
           NEW j \in DOMAIN Plan[c.release][i].steps
    PROVE  StepStatements(c, Plan[c.release][i], Plan[c.release][i].steps[j]) \in Seq(Statement)
  <1> DEFINE rv == Plan[c.release][i]
             step == rv.steps[j]
  <1>1. c.release \in Releases /\ c.op \in Ops
    BY DEF Command
  <1>2. step \in RenderedStep /\ rv.version \in Nat
    BY <1>1, PlanTypes
  <1>3. /\ step.object \in Objects
        /\ step.up \in Seq(Statement)
        /\ step.down.pre \in Seq(Statement)
        /\ step.down.core \in Seq(Statement)
        /\ step.down.post \in Seq(Statement)
    <2> HIDE DEF step
    <2> QED
      BY <1>2 DEF RenderedStep, DownPlan
  <1>4. CASE c.op = "down"
    <2>1. Underivable(c, recorded0) = {}
      BY <1>4 DEF Refusal, DownRefusal
    <2>2. NeedsDerivation(step) => SnapshotsAt(c.release, step.object, rv.version) # {}
      BY <2>1, NotRefused DEF DeriveRefusal
    <2>3. DownCore(c.release, rv.version, step) \in Seq(Statement)
      <3> HIDE DEF step, rv
      <3> QED
        BY <1>1, <1>2, <1>3, <2>2, DerivedType DEF DownCore
    <2> HIDE DEF step, rv
    <2>4. StepStatements(c, rv, step) =
             step.down.pre \o DownCore(c.release, rv.version, step) \o step.down.post
      BY <1>4 DEF StepStatements
    <2>5. StepStatements(c, rv, step) \in Seq(Statement)
      BY <1>3, <2>3, <2>4
    <2> QED
      BY <2>5 DEF step, rv
  <1>5. CASE c.op # "down"
    <2> HIDE DEF step, rv
    <2>1. StepStatements(c, rv, step) \in {step.up, <<>>}
      BY <1>1, <1>5 DEF StepStatements, Ops
    <2>2. <<>> \in Seq(Statement)
      OBVIOUS
    <2>3. StepStatements(c, rv, step) \in Seq(Statement)
      BY <1>3, <2>1, <2>2
    <2> QED
      BY <2>3 DEF step, rv
  <1> QED
    BY <1>4, <1>5

(***************************************************************************)
(* A command applied at once to a whole history leaves a whole history.    *)
(***************************************************************************)

\* Migrate and baseline never select a draft they may not record.
LEMMA SelectedNoDraft ==
    ASSUME NEW c \in Command, NEW h, Refusal(c, h) = "ok", c.op # "down",
           NEW i \in DOMAIN Plan[c.release], Selected(c, Plan[c.release][i], h)
    PROVE  ~Plan[c.release][i].draft /\ Plan[c.release][i].version \notin Versions(h)
  <1>1. c.op \in {"migrate", "baseline"}
    BY DEF Command, Ops
  <1>2. ~PendingDraft(c, h)
    BY <1>1 DEF Refusal
  <1>3. CASE c.op = "migrate"
    BY <1>2, <1>3 DEF Selected, PendingDraft
  <1>4. CASE c.op = "baseline"
    BY <1>2, <1>4 DEF Selected, PendingDraft
  <1> QED
    BY <1>1, <1>3, <1>4

\* An admitted command takes a history of whole versions to one of whole versions.
LEMMA WholePreserved ==
    ASSUME NEW c \in Command, NEW h, WholeHistory(h), Refusal(c, h) = "ok"
    PROVE  WholeHistory(TargetRows(c, h))
  <1> DEFINE plan == Plan[c.release]
             selected == {i \in DOMAIN plan : Selected(c, plan[i], h)}
             target == TargetRows(c, h)
  <1>0. c.release \in Releases
    BY DEF Command
  <1> SUFFICES ASSUME NEW v \in Versions(target)
               PROVE  \E r \in Releases : \E i \in DOMAIN Plan[r] :
                         /\ Plan[r][i].version = v
                         /\ ~Plan[r][i].draft
                         /\ {x \in target : x.version = v} = VersionRows(Plan[r][i])
    BY DEF WholeHistory
  <1>1. PICK y \in target : y.version = v
    BY DEF Versions
  <1>2. CASE c.op = "down"
    <2>1. target = {x \in h : \A i \in selected : plan[i].version # x.version}
      BY <1>2 DEF TargetRows
    <2>2. v \in Versions(h) /\ {x \in target : x.version = v} = {x \in h : x.version = v}
      BY <1>1, <2>1 DEF Versions
    <2> QED
      BY <2>2 DEF WholeHistory
  <1>3. CASE c.op # "down"
    <2>1. target = h \cup UNION {VersionRows(plan[i]) : i \in selected}
      BY <1>3 DEF TargetRows
    <2>2. \A i \in selected : plan[i].version \notin Versions(h) /\ ~plan[i].draft
      BY <1>3, SelectedNoDraft
    <2>3. \A i \in selected : \A x \in VersionRows(plan[i]) : x.version = plan[i].version
      BY DEF VersionRows, RowOf
    <2>4. CASE v \in Versions(h)
      <3>1. {x \in target : x.version = v} = {x \in h : x.version = v}
        BY <2>1, <2>2, <2>3, <2>4
      <3> QED
        BY <2>4, <3>1 DEF WholeHistory
    <2>5. CASE v \notin Versions(h)
      <3>1. y \notin h
        BY <1>1, <2>5 DEF Versions
      <3>2. PICK i \in selected : y \in VersionRows(plan[i])
        BY <2>1, <3>1
      <3>3. plan[i].version = v
        BY <1>1, <2>3, <3>2
      <3>4. \A k \in selected : plan[k].version = v => k = i
        BY <1>0, <3>3, PlanTypes
      <3>5. {x \in target : x.version = v} = VersionRows(plan[i])
        <4>1. \A x \in h : x.version # v
          BY <2>5 DEF Versions
        <4>2. \A x \in target : x.version = v => x \in VersionRows(plan[i])
          BY <2>1, <2>3, <3>4, <4>1
        <4>3. \A x \in VersionRows(plan[i]) : x \in target /\ x.version = v
          BY <2>1, <2>3, <3>3
        <4> QED
          BY <4>2, <4>3
      <3> QED
        BY <1>0, <2>2, <3>3, <3>5
    <2> QED
      BY <2>4, <2>5
  <1> QED
    BY <1>2, <1>3

\* At the end of its plan a transaction has exactly the target history.
LEMMA PassedAll ==
    ASSUME NEW c \in Command, NEW h,
           NEW passed,
           passed = {k \in 1 .. Len(Plan[c.release]) : Selected(c, VersionAt(c, k), h)}
    PROVE  TargetRows(c, h) =
              IF c.op = "down"
              THEN {x \in h : \A k \in passed : VersionAt(c, k).version # x.version}
              ELSE h \cup UNION {VersionRows(VersionAt(c, k)) : k \in passed}
  <1> DEFINE plan == Plan[c.release]
             selected == {i \in DOMAIN plan : Selected(c, plan[i], h)}
  <1>1. \A k \in passed : \E i \in selected : VersionAt(c, k) = plan[i]
    BY Walk
  <1>2. \A i \in selected : \E k \in passed : VersionAt(c, k) = plan[i]
    BY Walk
  <1>3. CASE c.op = "down"
    <2>1. \A x \in h : (\A i \in selected : plan[i].version # x.version)
                     <=> (\A k \in passed : VersionAt(c, k).version # x.version)
      BY <1>1, <1>2
    <2> QED
      BY <1>3, <2>1 DEF TargetRows
  <1>4. CASE c.op # "down"
    <2>1. UNION {VersionRows(plan[i]) : i \in selected}
            = UNION {VersionRows(VersionAt(c, k)) : k \in passed}
      BY <1>1, <1>2
    <2> QED
      BY <1>4, <2>1 DEF TargetRows
  <1> QED
    BY <1>3, <1>4

(***************************************************************************)
(* The inductive invariant.                                                *)
(***************************************************************************)
IInv == TypeOK /\ LockInv /\ PositionInv /\ TransactionInv

\* The invariant holds in an empty database with nobody running.
LEMMA InitInv == Init => IInv
  <1> SUFFICES ASSUME Init
               PROVE  IInv
    OBVIOUS
  <1>1. (CHOOSE c \in Commands : TRUE) \in Commands
    BY RunnerAssumption
  <1>2. cmd \in [Runners -> Commands]
    BY <1>1 DEF Init
  <1>3. \A p \in Runners : Len(PlanOf(p)) \in Nat
    BY <1>2, PlanTypes, RunnerAssumption DEF PlanOf, Command
  <1>4. TypeOK
    BY <1>2, <1>3, RunnerAssumption DEF Init, TypeOK, Results
  <1>5. LockInv
    BY RunnerAssumption DEF Init, LockInv
  <1>6. PositionInv
    BY <1>3 DEF Init, PositionInv, PositionOK
  <1>7. TransactionInv
    BY DEF Init, TransactionInv, TransactionOK
  <1> QED
    BY <1>4, <1>5, <1>6, <1>7 DEF IInv

\* A process runs one of the commands, on the plan of its build.
LEMMA CommandTypes ==
    ASSUME TypeOK, NEW p \in Runners
    PROVE  /\ cmd[p] \in Command
           /\ cmd[p].release \in Releases
           /\ cmd[p].op \in Ops
           /\ Len(PlanOf(p)) \in Nat
           /\ DOMAIN PlanOf(p) = 1 .. Len(PlanOf(p))
  <1>1. cmd[p] \in Command
    BY RunnerAssumption DEF TypeOK
  <1>2. cmd[p].release \in Releases /\ cmd[p].op \in Ops
    BY <1>1 DEF Command
  <1> QED
    BY <1>1, <1>2, PlanTypes DEF PlanOf

\* A process whose own state does not change keeps its invariants while the
\* committed history stays.
LEMMA Frame ==
    ASSUME NEW q \in Runners,
           pc'[q] = pc[q], cmd'[q] = cmd[q], recorded'[q] = recorded[q], txRows'[q] = txRows[q],
           vi'[q] = vi[q], si'[q] = si[q], ti'[q] = ti[q], rows' = rows,
           PositionOK(q), TransactionOK(q)
    PROVE  PositionOK(q)' /\ TransactionOK(q)'
  <1>1. PlanOf(q)' = PlanOf(q) /\ CurrentVersion(q)' = CurrentVersion(q)
    BY DEF PlanOf, CurrentVersion
  <1>2. PositionOK(q)'
    BY <1>1 DEF PositionOK
  <1>3. Passed(q)' = Passed(q) /\ Partial(q)' = Partial(q)
    BY <1>1 DEF Passed, Partial
  <1>4. WorkRows(q)' = WorkRows(q)
    BY <1>3 DEF WorkRows
  <1>5. TransactionOK(q)'
    BY <1>4 DEF TransactionOK
  <1> QED
    BY <1>2, <1>5

\* A process outside its transaction's work has nothing to keep but its position.
LEMMA Idle ==
    ASSUME NEW q \in Runners, Len(PlanOf(q))' \in Nat, vi'[q] = 1,
           pc'[q] \notin {"version", "step", "statement"}
    PROVE  PositionOK(q)' /\ TransactionOK(q)'
  BY DEF PositionOK, TransactionOK

(***************************************************************************)
(* One lemma per action.                                                   *)
(***************************************************************************)
LEMMA RequestInv ==
    ASSUME IInv, NEW p \in Runners, Request(p)
    PROVE  IInv'
  <1> USE DEF IInv, db, tx, loop, bounds
  <1>1. PICK c \in Commands : cmd' = [cmd EXCEPT ![p] = c]
    BY DEF Request
  <1>2. c \in Command /\ c.release \in Releases
    BY RunnerAssumption DEF Command
  <1>3. cmd' \in [Runners -> Commands] /\ cmd'[p] = c /\ \A q \in Runners \ {p} : cmd'[q] = cmd[q]
    BY <1>1 DEF TypeOK
  <1>4. Len(PlanOf(p))' \in Nat
    BY <1>2, <1>3, PlanTypes DEF PlanOf
  <1>5. vi'[p] = 1 /\ vi' = vi
    BY DEF Request, PositionInv, PositionOK
  <1>6. TypeOK'
    <2>1. \A q \in Runners : vi'[q] \in 1 .. Len(PlanOf(q))' + 1
      <3>1. ASSUME NEW q \in Runners \ {p}
            PROVE  PlanOf(q)' = PlanOf(q)
        BY <1>3 DEF PlanOf
      <3>2. 1 \in 1 .. Len(PlanOf(p))' + 1
        BY <1>4
      <3> QED
        BY <1>5, <3>1, <3>2 DEF TypeOK
    <2>2. runs' \in [Runners -> 0 .. MaxRuns]
      BY RunnerAssumption DEF Request, TypeOK
    <2> QED
      BY <1>3, <2>1, <2>2 DEF TypeOK, Request, Results
  <1>7. LockInv'
    BY DEF LockInv, Request, TypeOK
  <1>8. \A q \in Runners : PositionOK(q)' /\ TransactionOK(q)'
    <2>1. PositionOK(p)' /\ TransactionOK(p)'
      <3>1. pc'[p] = "lock"
        BY DEF Request, TypeOK
      <3> QED
        BY <1>4, <1>5, <3>1, Idle
    <2>2. ASSUME NEW q \in Runners \ {p}
          PROVE  PositionOK(q)' /\ TransactionOK(q)'
      <3>1. /\ pc'[q] = pc[q] /\ cmd'[q] = cmd[q] /\ recorded'[q] = recorded[q]
            /\ txRows'[q] = txRows[q] /\ vi'[q] = vi[q] /\ si'[q] = si[q] /\ ti'[q] = ti[q]
            /\ rows' = rows
        BY <1>3 DEF Request, TypeOK
      <3> QED
        BY <3>1, Frame DEF PositionInv, TransactionInv
    <2> QED
      BY <2>1, <2>2
  <1> QED
    BY <1>6, <1>7, <1>8 DEF PositionInv, TransactionInv

\* Both ends of the wait for the run lock.
LEMMA LockStepInv ==
    ASSUME IInv, NEW p \in Runners, BeginMigrationRunLock(p) \/ LockRefused(p)
    PROVE  IInv'
  <1> USE DEF IInv, db, tx, loop, bounds, BeginMigrationRunLock, LockRefused
  <1>1. TypeOK'
    BY DEF TypeOK, Results, PlanOf
  <1>2. LockInv'
    BY RunnerAssumption DEF LockInv, TypeOK
  <1>3. \A q \in Runners : PositionOK(q)' /\ TransactionOK(q)'
    <2>1. PositionOK(p)' /\ TransactionOK(p)'
      <3>1. pc'[p] \notin {"version", "step", "statement"} /\ vi'[p] = 1
        BY DEF TypeOK, PositionInv, PositionOK
      <3>2. Len(PlanOf(p))' \in Nat
        BY CommandTypes DEF PlanOf
      <3> QED
        BY <3>1, <3>2, Idle
    <2>2. ASSUME NEW q \in Runners \ {p}
          PROVE  PositionOK(q)' /\ TransactionOK(q)'
      <3>1. /\ pc'[q] = pc[q] /\ cmd'[q] = cmd[q] /\ recorded'[q] = recorded[q]
            /\ txRows'[q] = txRows[q] /\ vi'[q] = vi[q] /\ si'[q] = si[q] /\ ti'[q] = ti[q]
            /\ rows' = rows
        BY DEF TypeOK
      <3> QED
        BY <3>1, Frame DEF PositionInv, TransactionInv
    <2> QED
      BY <2>1, <2>2
  <1> QED
    BY <1>2, <1>1, <1>3 DEF PositionInv, TransactionInv

\* Every failing end of a run.
LEMMA RollbackInv ==
    ASSUME IInv, NEW p \in Runners, NEW code \in Results, pc[p] \in InTx, Rollback(p, code)
    PROVE  IInv'
  <1> USE DEF IInv, db, bounds, Rollback
  <1>0. Len(PlanOf(p)) \in Nat
    BY CommandTypes
  <1>1. TypeOK'
    <2>1. \A q \in Runners : vi'[q] \in 1 .. Len(PlanOf(q))' + 1
      BY <1>0 DEF TypeOK, PlanOf
    <2> QED
      BY <2>1 DEF TypeOK
  <1>2. LockInv'
    BY RunnerAssumption DEF LockInv, TypeOK
  <1>3. \A q \in Runners : PositionOK(q)' /\ TransactionOK(q)'
    <2>1. PositionOK(p)' /\ TransactionOK(p)'
      <3>1. pc'[p] = "done" /\ vi'[p] = 1 /\ Len(PlanOf(p))' \in Nat
        BY <1>0 DEF TypeOK, PlanOf
      <3> QED
        BY <3>1, Idle
    <2>2. ASSUME NEW q \in Runners \ {p}
          PROVE  PositionOK(q)' /\ TransactionOK(q)'
      <3>1. /\ pc'[q] = pc[q] /\ cmd'[q] = cmd[q] /\ recorded'[q] = recorded[q]
            /\ txRows'[q] = txRows[q] /\ vi'[q] = vi[q] /\ si'[q] = si[q] /\ ti'[q] = ti[q]
            /\ rows' = rows
        BY DEF TypeOK
      <3> QED
        BY <3>1, Frame DEF PositionInv, TransactionInv
    <2> QED
      BY <2>1, <2>2
  <1> QED
    BY <1>1, <1>2, <1>3 DEF PositionInv, TransactionInv

\* A step of p inside its transaction that leaves the committed history and the
\* lock alone: what remains to show is about p itself.
LEMMA InsideTx ==
    ASSUME IInv, NEW p \in Runners, pc[p] \in InTx,
           lock' = lock, cmd' = cmd, rows' = rows, live' = live, result' = result,
           runs' = runs, hotfixes' = hotfixes,
           pc' \in [Runners -> InTx \cup {"idle", "lock", "done"}], pc'[p] \in InTx,
           recorded' \in [Runners -> SUBSET Row], txRows' \in [Runners -> SUBSET Row],
           txLive' \in [Runners -> [Objects -> Defs \cup {Absent, Untouched}]],
           vi' \in [Runners -> Nat], si' \in [Runners -> Nat], ti' \in [Runners -> Nat],
           \A q \in Runners \ {p} :
              /\ pc'[q] = pc[q] /\ recorded'[q] = recorded[q] /\ txRows'[q] = txRows[q]
              /\ vi'[q] = vi[q] /\ si'[q] = si[q] /\ ti'[q] = ti[q],
           PositionOK(p)', TransactionOK(p)'
    PROVE  IInv'
  <1> USE DEF IInv
  <1>1. \A q \in Runners : PlanOf(q)' = PlanOf(q)
    BY DEF PlanOf
  <1>2. vi'[p] \in 1 .. Len(PlanOf(p)) + 1
    BY <1>1 DEF PositionOK
  <1>3. \A q \in Runners : vi'[q] \in 1 .. Len(PlanOf(q))' + 1
    BY <1>1, <1>2 DEF TypeOK
  <1>4. TypeOK'
    BY <1>3 DEF TypeOK
  <1>5. LockInv'
    BY DEF LockInv
  <1>6. ASSUME NEW q \in Runners \ {p}
        PROVE  PositionOK(q)' /\ TransactionOK(q)'
    BY Frame DEF PositionInv, TransactionInv
  <1> QED
    BY <1>4, <1>5, <1>6 DEF PositionInv, TransactionInv

\* An admitted run starts from the committed history.
LEMMA AdmitInv ==
    ASSUME IInv, NEW p \in Runners, Admit(p)
    PROVE  IInv'
  <1> USE DEF IInv, db, loop, bounds, Admit
  <1>0. /\ recorded'[p] = rows /\ txRows'[p] = rows /\ pc'[p] = "version" /\ vi'[p] = 1
        /\ cmd' = cmd /\ rows' = rows
    BY DEF TypeOK, PositionInv, PositionOK
  <1>1. PositionOK(p)'
    <2>1. Len(PlanOf(p))' \in Nat
      BY CommandTypes DEF PlanOf
    <2> QED
      BY <1>0, <2>1 DEF PositionOK
  <1>2. TransactionOK(p)'
    <2>1. Passed(p)' = {} /\ Partial(p)' = {}
      BY <1>0 DEF Passed, Partial
    <2>2. WorkRows(p)' = rows
      BY <1>0, <2>1 DEF WorkRows
    <2> QED
      BY <1>0, <2>2 DEF TransactionOK
  <1> QED
    BY <1>1, <1>2, InsideTx DEF TypeOK

\* A version is entered or skipped.
LEMMA NextVersionInv ==
    ASSUME IInv, NEW p \in Runners, NextVersion(p)
    PROVE  IInv'
  <1> USE DEF IInv
  <1>a. /\ pc[p] = "version" /\ vi[p] <= Len(PlanOf(p))
        /\ lock' = lock /\ cmd' = cmd /\ rows' = rows /\ live' = live /\ result' = result
        /\ runs' = runs /\ hotfixes' = hotfixes
        /\ recorded' = recorded /\ txRows' = txRows /\ txLive' = txLive /\ ti' = ti
    BY DEF NextVersion, db, tx, bounds
  <1>b. /\ cmd[p] \in Command /\ Len(PlanOf(p)) \in Nat /\ vi[p] \in 1 .. Len(PlanOf(p))
        /\ PlanOf(p)' = PlanOf(p)
    BY <1>a, CommandTypes DEF TypeOK, PlanOf
  <1>c. recorded[p] = rows /\ Refusal(cmd[p], rows) = "ok" /\ txRows[p] = WorkRows(p)
    BY <1>a DEF TransactionInv, TransactionOK
  <1>1. CASE Selected(cmd[p], CurrentVersion(p), recorded[p])
    <2>0. pc' = [pc EXCEPT ![p] = "step"] /\ si' = [si EXCEPT ![p] = 1] /\ vi' = vi
      BY <1>1 DEF NextVersion
    <2>1. pc'[p] = "step" /\ si'[p] = 1
      BY <2>0 DEF TypeOK
    <2>2. CurrentVersion(p)' = CurrentVersion(p)
      BY <1>a, <2>0 DEF CurrentVersion
    <2>3. Len(CurrentVersion(p).steps) \in Nat
      BY <1>b, CommandTypes, Walk, PlanTypes DEF CurrentVersion, PlanOf
    <2>4. PositionOK(p)'
      BY <1>a, <1>b, <1>1, <2>0, <2>1, <2>2, <2>3 DEF PositionOK
    <2>5. Passed(p)' = Passed(p) /\ Partial(p)' = {} /\ Partial(p) = {}
      BY <1>a, <2>0, <2>1 DEF Passed, Partial
    <2>6. WorkRows(p)' = WorkRows(p)
      BY <1>a, <2>5 DEF WorkRows
    <2>7. TransactionOK(p)'
      BY <1>a, <1>c, <2>6 DEF TransactionOK
    <2> QED
      BY <1>a, <2>0, <2>1, <2>4, <2>7, InsideTx DEF TypeOK
  <1>2. CASE ~Selected(cmd[p], CurrentVersion(p), recorded[p])
    <2>0. pc' = pc /\ si' = si /\ vi' = [vi EXCEPT ![p] = vi[p] + 1]
      BY <1>2 DEF NextVersion
    <2>1. vi'[p] = vi[p] + 1
      BY <2>0 DEF TypeOK
    <2>2. PositionOK(p)'
      BY <1>a, <1>b, <2>0, <2>1 DEF PositionOK
    <2>3. Passed(p)' = Passed(p)
      BY <1>a, <1>b, <1>2, <2>1 DEF Passed, CurrentVersion
    <2>4. Partial(p)' = {} /\ Partial(p) = {}
      BY <1>a, <2>0 DEF Partial
    <2>5. WorkRows(p)' = WorkRows(p)
      BY <1>a, <2>3, <2>4 DEF WorkRows
    <2>6. TransactionOK(p)'
      BY <1>a, <1>c, <2>5 DEF TransactionOK
    <2>7. vi' \in [Runners -> Nat] /\ \A q \in Runners \ {p} : vi'[q] = vi[q]
      BY <2>0 DEF TypeOK
    <2> QED
      BY <1>a, <2>0, <2>2, <2>6, <2>7, InsideTx DEF TypeOK
  <1> QED
    BY <1>1, <1>2

\* What every step inside a version may rely on.
LEMMA InVersion ==
    ASSUME IInv, NEW p \in Runners, pc[p] \in {"step", "statement"}
    PROVE  /\ cmd[p] \in Command
           /\ vi[p] \in 1 .. Len(PlanOf(p))
           /\ Len(PlanOf(p)) \in Nat
           /\ \E i \in DOMAIN Plan[cmd[p].release] : CurrentVersion(p) = Plan[cmd[p].release][i]
           /\ Len(CurrentVersion(p).steps) \in Nat
           /\ Selected(cmd[p], CurrentVersion(p), recorded[p])
           /\ si[p] \in 1 .. Len(CurrentVersion(p).steps) + 1
           /\ recorded[p] = rows
           /\ Refusal(cmd[p], rows) = "ok"
           /\ txRows[p] = WorkRows(p)
  <1>1. PositionOK(p) /\ TransactionOK(p) /\ TypeOK
    BY DEF IInv, PositionInv, TransactionInv
  <1>2. cmd[p] \in Command /\ cmd[p].release \in Releases /\ Len(PlanOf(p)) \in Nat
    BY <1>1, CommandTypes
  <1>3. vi[p] \in 1 .. Len(PlanOf(p))
    BY <1>1, <1>2 DEF PositionOK
  <1>4. \E i \in DOMAIN Plan[cmd[p].release] : CurrentVersion(p) = Plan[cmd[p].release][i]
    BY <1>2, <1>3, Walk DEF CurrentVersion, PlanOf
  <1>5. Len(CurrentVersion(p).steps) \in Nat
    BY <1>2, <1>4, PlanTypes
  <1> QED
    BY <1>1, <1>2, <1>3, <1>4, <1>5 DEF PositionOK, TransactionOK

\* A step is entered.
LEMMA NextStepInv ==
    ASSUME IInv, NEW p \in Runners, NextStep(p)
    PROVE  IInv'
  <1> USE DEF IInv
  <1>a. /\ pc[p] = "step" /\ si[p] <= Len(CurrentVersion(p).steps)
        /\ pc' = [pc EXCEPT ![p] = "statement"] /\ ti' = [ti EXCEPT ![p] = 1]
        /\ lock' = lock /\ cmd' = cmd /\ rows' = rows /\ live' = live /\ result' = result
        /\ runs' = runs /\ hotfixes' = hotfixes
        /\ recorded' = recorded /\ txRows' = txRows /\ txLive' = txLive
        /\ vi' = vi /\ si' = si
    BY DEF NextStep, db, tx, bounds
  <1>b. pc'[p] = "statement" /\ ti'[p] = 1
    BY <1>a DEF TypeOK
  <1>c. CurrentVersion(p)' = CurrentVersion(p) /\ PlanOf(p)' = PlanOf(p)
    BY <1>a DEF CurrentVersion, PlanOf
  <1>1. PositionOK(p)'
    BY <1>a, <1>b, <1>c, InVersion DEF PositionOK
  <1>2. WorkRows(p)' = WorkRows(p)
    <2>1. Passed(p)' = Passed(p) /\ Partial(p)' = Partial(p)
      BY <1>a, <1>b, <1>c DEF Passed, Partial
    <2> QED
      BY <1>a, <2>1 DEF WorkRows
  <1>3. TransactionOK(p)'
    BY <1>a, <1>2, InVersion DEF TransactionOK
  <1>4. ti' \in [Runners -> Nat] /\ \A q \in Runners \ {p} : ti'[q] = ti[q] /\ pc'[q] = pc[q]
    BY <1>a DEF TypeOK
  <1> QED
    BY <1>a, <1>b, <1>1, <1>3, <1>4, InsideTx DEF TypeOK

\* The statement p is about to execute is one, on one of the objects.
LEMMA CurrentStatementType ==
    ASSUME IInv, NEW p \in Runners, pc[p] = "statement", ti[p] <= Len(CurrentStatements(p))
    PROVE  CurrentStatements(p)[ti[p]] \in Statement
  <1>1. PositionOK(p) /\ ti[p] \in Nat
    BY DEF IInv, PositionInv, TypeOK
  <1>2. si[p] \in 1 .. Len(CurrentVersion(p).steps) /\ ti[p] >= 1
    BY <1>1, InVersion DEF PositionOK
  <1>3. PICK i \in DOMAIN Plan[cmd[p].release] : CurrentVersion(p) = Plan[cmd[p].release][i]
    BY InVersion
  <1>4. cmd[p] \in Command
    BY InVersion
  <1>5. PICK j \in DOMAIN Plan[cmd[p].release][i].steps :
           CurrentStep(p) = Plan[cmd[p].release][i].steps[j]
    BY <1>2, <1>3, <1>4, StepWalk DEF CurrentStep
  <1>6. CurrentStatements(p) \in Seq(Statement)
    BY <1>3, <1>4, <1>5, InVersion, StatementsType DEF CurrentStatements
  <1> QED
    BY <1>1, <1>2, <1>6

\* A statement changes only what its transaction sees.
LEMMA ApplyStatementInv ==
    ASSUME IInv, NEW p \in Runners, ApplyStatement(p)
    PROVE  IInv'
  <1> USE DEF IInv
  <1> DEFINE s == CurrentStatements(p)[ti[p]]
  <1>a. /\ pc[p] = "statement" /\ ti[p] <= Len(CurrentStatements(p))
        /\ txLive' = IF s.guard THEN txLive ELSE [txLive EXCEPT ![p][s.object] = Left(LiveOf(p, s.object), s)]
        /\ ti' = [ti EXCEPT ![p] = ti[p] + 1]
        /\ lock' = lock /\ cmd' = cmd /\ rows' = rows /\ live' = live /\ result' = result
        /\ runs' = runs /\ hotfixes' = hotfixes
        /\ recorded' = recorded /\ txRows' = txRows /\ pc' = pc
        /\ vi' = vi /\ si' = si
    BY DEF ApplyStatement, db, bounds
  <1>b. s \in Statement
    BY <1>a, CurrentStatementType
  <1> HIDE DEF s
  <1>c. s.object \in Objects /\ Left(LiveOf(p, s.object), s) \in Defs \cup {Absent}
    BY <1>b, LeftLoosened DEF Statement
  <1>d. txLive' \in [Runners -> [Objects -> Defs \cup {Absent, Untouched}]]
    BY <1>a, <1>c DEF TypeOK
  <1>e. CurrentVersion(p)' = CurrentVersion(p) /\ PlanOf(p)' = PlanOf(p)
    BY <1>a DEF CurrentVersion, PlanOf
  <1>f. ti' \in [Runners -> Nat] /\ ti'[p] = ti[p] + 1 /\ \A q \in Runners \ {p} : ti'[q] = ti[q]
    BY <1>a DEF TypeOK
  <1>1. PositionOK(p)'
    <2>1. PositionOK(p) /\ ti[p] \in Nat
      BY DEF PositionInv, TypeOK
    <2> QED
      BY <1>a, <1>e, <1>f, <2>1 DEF PositionOK
  <1>2. WorkRows(p)' = WorkRows(p)
    <2>1. Passed(p)' = Passed(p) /\ Partial(p)' = Partial(p)
      BY <1>a, <1>e DEF Passed, Partial
    <2> QED
      BY <1>a, <2>1 DEF WorkRows
  <1>3. TransactionOK(p)'
    BY <1>a, <1>2, InVersion DEF TransactionOK
  <1> QED
    BY <1>a, <1>d, <1>f, <1>1, <1>3, InsideTx DEF TypeOK

\* Recording a step adds its row to the rows of the version being worked on.
LEMMA FinishStepInv ==
    ASSUME IInv, NEW p \in Runners, FinishStep(p)
    PROVE  IInv'
  <1> USE DEF IInv
  <1> DEFINE row(j) == RowOf(CurrentVersion(p).version, StepAt(cmd[p], CurrentVersion(p), j))
  <1>a. /\ pc[p] = "statement" /\ pc' = [pc EXCEPT ![p] = "step"]
        /\ txRows' = IF cmd[p].op = "down" THEN txRows
                     ELSE [txRows EXCEPT ![p] = txRows[p] \cup {row(si[p])}]
        /\ si' = [si EXCEPT ![p] = si[p] + 1]
        /\ lock' = lock /\ cmd' = cmd /\ rows' = rows /\ live' = live /\ result' = result
        /\ runs' = runs /\ hotfixes' = hotfixes
        /\ recorded' = recorded /\ txLive' = txLive /\ vi' = vi /\ ti' = ti
    BY DEF FinishStep, db, bounds, CurrentStep
  <1>b. pc'[p] = "step" /\ si'[p] = si[p] + 1 /\ si[p] \in 1 .. Len(CurrentVersion(p).steps)
    <2>1. PositionOK(p)
      BY DEF PositionInv
    <2> QED
      BY <1>a, <2>1, InVersion DEF TypeOK, PositionOK
  <1>c. CurrentVersion(p)' = CurrentVersion(p) /\ PlanOf(p)' = PlanOf(p)
    BY <1>a DEF CurrentVersion, PlanOf
  <1>d. row(si[p]) \in Row
    <2>1. PICK i \in DOMAIN Plan[cmd[p].release] : CurrentVersion(p) = Plan[cmd[p].release][i]
      BY <1>a, InVersion
    <2>2. cmd[p] \in Command /\ cmd[p].release \in Releases
      BY <1>a, InVersion DEF Command
    <2>3. PICK j \in DOMAIN Plan[cmd[p].release][i].steps :
             StepAt(cmd[p], CurrentVersion(p), si[p]) = Plan[cmd[p].release][i].steps[j]
      BY <1>b, <2>1, <2>2, StepWalk
    <2> QED
      BY <2>1, <2>2, <2>3, RowType
  <1>1. PositionOK(p)'
    BY <1>a, <1>b, <1>c, InVersion DEF PositionOK
  <1>2. Passed(p)' = Passed(p)
    BY <1>a DEF Passed
  <1>3. Partial(p)' = Partial(p) \cup {row(si[p])}
    <2>1. Partial(p) = {row(j) : j \in 1 .. si[p] - 1}
      BY <1>a DEF Partial
    <2>2. Partial(p)' = {row(j) : j \in 1 .. si[p]}
      BY <1>a, <1>b, <1>c DEF Partial
    <2>3. 1 .. si[p] = (1 .. si[p] - 1) \cup {si[p]}
      BY <1>b
    <2> HIDE DEF row
    <2> QED
      BY <2>1, <2>2, <2>3
  <1> HIDE DEF row
  <1>4. txRows' \in [Runners -> SUBSET Row]
    BY <1>a, <1>d DEF TypeOK
  <1>5. txRows'[p] = WorkRows(p)'
    <2>1. txRows[p] = WorkRows(p)
      BY <1>a, InVersion
    <2>2. CASE cmd[p].op = "down"
      BY <1>a, <1>2, <2>1, <2>2 DEF WorkRows
    <2>3. CASE cmd[p].op # "down"
      <3>1. txRows'[p] = txRows[p] \cup {row(si[p])}
        BY <1>a, <2>3 DEF TypeOK
      <3>2. WorkRows(p)' = rows \cup Partial(p)'
                             \cup UNION {VersionRows(VersionAt(cmd[p], k)) : k \in Passed(p)}
        BY <1>a, <1>2, <2>3 DEF WorkRows
      <3>3. WorkRows(p) = rows \cup Partial(p)
                             \cup UNION {VersionRows(VersionAt(cmd[p], k)) : k \in Passed(p)}
        BY <2>3 DEF WorkRows
      <3> QED
        BY <1>3, <2>1, <3>1, <3>2, <3>3
    <2> QED
      BY <2>2, <2>3
  <1>6. TransactionOK(p)'
    BY <1>a, <1>5, InVersion DEF TransactionOK
  <1>7. /\ si' \in [Runners -> Nat]
        /\ \A q \in Runners \ {p} : si'[q] = si[q] /\ pc'[q] = pc[q] /\ txRows'[q] = txRows[q]
    BY <1>a DEF TypeOK
  <1> QED
    BY <1>a, <1>b, <1>1, <1>4, <1>6, <1>7, InsideTx DEF TypeOK

\* The last step of a version completes its rows; down removes them instead.
LEMMA FinishVersionInv ==
    ASSUME IInv, NEW p \in Runners, FinishVersion(p)
    PROVE  IInv'
  <1> USE DEF IInv
  <1> DEFINE cv == CurrentVersion(p)
  <1>a. /\ pc[p] = "step" /\ si[p] > Len(cv.steps)
        /\ pc' = [pc EXCEPT ![p] = "version"]
        /\ txRows' = IF cmd[p].op # "down" THEN txRows
                     ELSE [txRows EXCEPT ![p] = {x \in txRows[p] : x.version # cv.version}]
        /\ vi' = [vi EXCEPT ![p] = vi[p] + 1]
        /\ lock' = lock /\ cmd' = cmd /\ rows' = rows /\ live' = live /\ result' = result
        /\ runs' = runs /\ hotfixes' = hotfixes
        /\ recorded' = recorded /\ txLive' = txLive /\ si' = si /\ ti' = ti
    BY DEF FinishVersion, db, bounds
  <1>b. /\ pc'[p] = "version" /\ vi'[p] = vi[p] + 1
        /\ vi[p] \in 1 .. Len(PlanOf(p)) /\ Len(PlanOf(p)) \in Nat
        /\ si[p] = Len(cv.steps) + 1 /\ PlanOf(p)' = PlanOf(p)
    <2>1. pc'[p] = "version" /\ vi'[p] = vi[p] + 1
      BY <1>a DEF TypeOK
    <2>2. vi[p] \in 1 .. Len(PlanOf(p)) /\ Len(PlanOf(p)) \in Nat
      BY <1>a, InVersion
    <2>3. si[p] \in 1 .. Len(cv.steps) + 1 /\ Len(cv.steps) \in Nat
      BY <1>a, InVersion
    <2>4. PlanOf(p)' = PlanOf(p)
      BY <1>a DEF PlanOf
    <2> QED
      BY <1>a, <2>1, <2>2, <2>3, <2>4
  <1>1. PositionOK(p)'
    BY <1>b DEF PositionOK
  <1>2. Passed(p)' = Passed(p) \cup {vi[p]}
    <2>1. Selected(cmd[p], VersionAt(cmd[p], vi[p]), recorded[p])
      BY <1>a, InVersion DEF CurrentVersion
    <2>2. 1 .. vi[p] = (1 .. vi[p] - 1) \cup {vi[p]}
      BY <1>b
    <2>3. Passed(p)' = {k \in 1 .. vi[p] : Selected(cmd[p], VersionAt(cmd[p], k), recorded[p])}
      <3>1. vi'[p] - 1 = vi[p] /\ cmd' = cmd /\ recorded' = recorded
        BY <1>a, <1>b
      <3> QED
        BY <3>1 DEF Passed
    <2> QED
      BY <2>1, <2>2, <2>3 DEF Passed
  <1>3. Partial(p)' = {}
    BY <1>b DEF Partial
  <1>4. txRows' \in [Runners -> SUBSET Row]
    BY <1>a DEF TypeOK
  <1>5. txRows'[p] = WorkRows(p)'
    <2>1. txRows[p] = WorkRows(p)
      BY <1>a, InVersion
    <2>2. CASE cmd[p].op = "down"
      <3>1. txRows'[p] = {x \in txRows[p] : x.version # VersionAt(cmd[p], vi[p]).version}
        BY <1>a, <2>2 DEF TypeOK, CurrentVersion
      <3>2. txRows[p] = {x \in rows : \A k \in Passed(p) : VersionAt(cmd[p], k).version # x.version}
        BY <2>1, <2>2 DEF WorkRows
      <3>3. WorkRows(p)' =
              {x \in rows : \A k \in Passed(p) \cup {vi[p]} : VersionAt(cmd[p], k).version # x.version}
        BY <1>a, <1>2, <2>2 DEF WorkRows
      <3> QED
        BY <3>1, <3>2, <3>3
    <2>3. CASE cmd[p].op # "down"
      <3>1. txRows'[p] = txRows[p]
        BY <1>a, <2>3
      <3>2. Partial(p) = VersionRows(VersionAt(cmd[p], vi[p]))
        <4>1. Partial(p) = {RowOf(cv.version, cv.steps[j]) : j \in 1 .. Len(cv.steps)}
          BY <1>a, <1>b, <2>3, InVersion DEF Partial, StepAt
        <4>2. DOMAIN cv.steps = 1 .. Len(cv.steps)
          BY <1>a, InVersion, PlanTypes DEF Command
        <4> QED
          BY <4>1, <4>2 DEF VersionRows, CurrentVersion
      <3>3. WorkRows(p)' = rows \cup UNION {VersionRows(VersionAt(cmd[p], k)) : k \in Passed(p) \cup {vi[p]}}
        BY <1>a, <1>2, <1>3, <2>3 DEF WorkRows
      <3>4. WorkRows(p) = rows \cup Partial(p)
                             \cup UNION {VersionRows(VersionAt(cmd[p], k)) : k \in Passed(p)}
        BY <2>3 DEF WorkRows
      <3> QED
        BY <2>1, <3>1, <3>2, <3>3, <3>4
    <2> QED
      BY <2>2, <2>3
  <1>6. TransactionOK(p)'
    BY <1>a, <1>5, InVersion DEF TransactionOK
  <1>7. /\ vi' \in [Runners -> Nat]
        /\ \A q \in Runners \ {p} : vi'[q] = vi[q] /\ pc'[q] = pc[q] /\ txRows'[q] = txRows[q]
    BY <1>a DEF TypeOK
  <1> QED
    BY <1>a, <1>b, <1>1, <1>4, <1>6, <1>7, InsideTx DEF TypeOK

\* What a commit publishes is the command applied at once to the history.
LEMMA CommitTarget ==
    ASSUME IInv, NEW p \in Runners, Commit(p)
    PROVE  rows' = TargetRows(cmd[p], rows) /\ Refusal(cmd[p], rows) = "ok"
  <1>1. /\ pc[p] = "version" /\ vi[p] > Len(PlanOf(p)) /\ rows' = txRows[p]
    BY DEF Commit
  <1>2. /\ PositionOK(p) /\ TransactionOK(p) /\ cmd[p] \in Command /\ Len(PlanOf(p)) \in Nat
    BY CommandTypes DEF IInv, PositionInv, TransactionInv
  <1>3. vi[p] - 1 = Len(Plan[cmd[p].release])
    BY <1>1, <1>2 DEF PositionOK, PlanOf
  <1>4. recorded[p] = rows /\ Refusal(cmd[p], rows) = "ok" /\ txRows[p] = WorkRows(p)
    BY <1>1, <1>2 DEF TransactionOK
  <1>5. Passed(p) = {k \in 1 .. Len(Plan[cmd[p].release]) : Selected(cmd[p], VersionAt(cmd[p], k), rows)}
    BY <1>3, <1>4 DEF Passed
  <1>6. Partial(p) = {}
    BY <1>1 DEF Partial
  <1>7. TargetRows(cmd[p], rows) =
           IF cmd[p].op = "down"
           THEN {x \in rows : \A k \in Passed(p) : VersionAt(cmd[p], k).version # x.version}
           ELSE rows \cup UNION {VersionRows(VersionAt(cmd[p], k)) : k \in Passed(p)}
    BY <1>2, <1>5, PassedAll
  <1>8. WorkRows(p) = TargetRows(cmd[p], rows)
    BY <1>6, <1>7 DEF WorkRows
  <1> QED
    BY <1>1, <1>4, <1>8

\* A commit publishes what the transaction sees, a history of whole versions.
LEMMA CommitInv ==
    ASSUME IInv, NEW p \in Runners, Commit(p)
    PROVE  IInv'
  <1> USE DEF IInv
  <1>a. /\ pc[p] = "version" /\ rows' = txRows[p] /\ live' = [o \in Objects |-> LiveOf(p, o)]
        /\ lock' = NoRunner /\ pc' = [pc EXCEPT ![p] = "done"]
        /\ recorded' = [recorded EXCEPT ![p] = {}] /\ txRows' = [txRows EXCEPT ![p] = {}]
        /\ txLive' = [txLive EXCEPT ![p] = [o \in Objects |-> Untouched]]
        /\ vi' = [vi EXCEPT ![p] = 1] /\ si' = [si EXCEPT ![p] = 1] /\ ti' = [ti EXCEPT ![p] = 1]
        /\ cmd' = cmd /\ runs' = runs /\ hotfixes' = hotfixes
    BY DEF Commit, bounds
  <1>b. result' \in [Runners -> Results]
    BY DEF Commit, TypeOK, Results
  <1>c. lock = p /\ \A q \in Runners \ {p} : pc[q] \notin InTx
    BY <1>a DEF LockInv
  <1>d. Len(PlanOf(p)) \in Nat /\ \A q \in Runners : PlanOf(q)' = PlanOf(q)
    BY <1>a, CommandTypes DEF PlanOf
  <1>e. live' \in [Objects -> Defs \cup {Absent}]
    <2>1. \A o \in Objects : LiveOf(p, o) \in Defs \cup {Absent}
      BY DEF LiveOf, TypeOK
    <2> QED
      BY <1>a, <2>1
  <1>1. TypeOK'
    <2>1. rows' \in SUBSET Row /\ lock' \in Runners \cup {NoRunner}
      BY <1>a DEF TypeOK
    <2>2. /\ pc' \in [Runners -> {"idle", "lock", "done"} \cup InTx]
          /\ recorded' \in [Runners -> SUBSET Row] /\ txRows' \in [Runners -> SUBSET Row]
      BY <1>a DEF TypeOK
    <2>3. txLive' \in [Runners -> [Objects -> Defs \cup {Absent, Untouched}]]
      BY <1>a DEF TypeOK
    <2>4. vi' \in [Runners -> Nat] /\ si' \in [Runners -> Nat] /\ ti' \in [Runners -> Nat]
      BY <1>a DEF TypeOK
    <2>5. \A q \in Runners : vi'[q] \in 1 .. Len(PlanOf(q))' + 1
      BY <1>a, <1>d DEF TypeOK
    <2> QED
      BY <1>a, <1>b, <1>e, <2>1, <2>2, <2>3, <2>4, <2>5 DEF TypeOK
  <1>2. LockInv'
    BY <1>a, <1>c, RunnerAssumption DEF LockInv, TypeOK
  <1>3. ASSUME NEW q \in Runners
        PROVE  PositionOK(q)' /\ TransactionOK(q)'
    <2>1. pc'[q] \notin {"version", "step", "statement"}
      BY <1>a, <1>c DEF TypeOK
    <2>2. vi'[q] = 1
      BY <1>a, <1>c DEF TypeOK, PositionInv, PositionOK
    <2>3. Len(PlanOf(q))' \in Nat
      BY <1>d, CommandTypes
    <2> QED
      BY <2>1, <2>2, <2>3, Idle
  <1> QED
    BY <1>1, <1>2, <1>3 DEF PositionInv, TransactionInv

\* An outside change touches no history.
LEMMA HotfixInv ==
    ASSUME IInv, NEW o \in Objects, Hotfix(o)
    PROVE  IInv'
  <1> USE DEF IInv, Hotfix, tx, loop
  <1>1. TypeOK'
    BY RunnerAssumption DEF TypeOK, PlanOf
  <1>2. LockInv'
    BY DEF LockInv
  <1>3. ASSUME NEW q \in Runners
        PROVE  PositionOK(q)' /\ TransactionOK(q)'
    BY Frame DEF PositionInv, TransactionInv
  <1> QED
    BY <1>1, <1>2, <1>3 DEF PositionInv, TransactionInv

\* Every step keeps the invariant.
LEMMA NextInv ==
    ASSUME IInv, [Next]_vars
    PROVE  IInv'
  <1>1. ASSUME NEW p \in Runners, Refuse(p)
        PROVE  IInv'
    <2>1. DownRefusal(cmd[p], rows) \in {"ok", "MIG-014", "MIG-020"}
      BY DEF DownRefusal
    <2>2. Refusal(cmd[p], rows) \in Results
      BY <2>1 DEF Refusal, Results
    <2> QED
      BY <1>1, <2>2, RollbackInv DEF Refuse
  <1>2. ASSUME NEW p \in Runners, GuardRefuses(p)
        PROVE  IInv'
    BY <1>2, RollbackInv DEF GuardRefuses, Results
  <1>3. ASSUME NEW p \in Runners, Abort(p)
        PROVE  IInv'
    <2>1. PICK code \in {"MIG-021", "driver"} : Rollback(p, code)
      BY <1>3 DEF Abort
    <2> QED
      BY <1>3, <2>1, RollbackInv DEF Abort, Results
  <1>4. CASE UNCHANGED vars
    <2>1. TypeOK' /\ LockInv'
      BY <1>4 DEF IInv, TypeOK, LockInv, vars, PlanOf
    <2>2. ASSUME NEW q \in Runners
          PROVE  PositionOK(q)' /\ TransactionOK(q)'
      BY <1>4, Frame DEF IInv, PositionInv, TransactionInv, vars
    <2> QED
      BY <2>1, <2>2 DEF IInv, PositionInv, TransactionInv
  <1> QED
    BY <1>1, <1>2, <1>3, <1>4, RequestInv, LockStepInv, AdmitInv, NextVersionInv, NextStepInv,
       ApplyStatementInv, FinishStepInv, FinishVersionInv, CommitInv, HotfixInv
       DEF Next, Progress

(***************************************************************************)
(* The theorems.                                                           *)
(***************************************************************************)

\* Type correctness of the runner, positions of its loops included.
THEOREM TypeCorrect == Spec => []TypeOK
  <1>1. Init => IInv
    BY InitInv
  <1>2. IInv /\ [Next]_vars => IInv'
    BY NextInv
  <1>3. IInv => TypeOK
    BY DEF IInv
  <1> QED
    BY <1>1, <1>2, <1>3, PTL DEF Spec

\* Only commits change the committed history.
LEMMA HistoryStep ==
    ASSUME IInv, [Next]_vars
    PROVE  rows' = rows \/ \E p \in Runners : Commit(p)
  BY DEF Next, Progress, vars, db, Request, BeginMigrationRunLock, LockRefused, Refuse, Rollback,
         Admit, NextVersion, NextStep, ApplyStatement, GuardRefuses, FinishStep, FinishVersion,
         Abort, Hotfix

\* A version is recorded whole, from one build and never from a draft, for any
\* number of processes, builds, versions and steps.
THEOREM VersionsWhole == Spec => []WholeVersions
  <1>1. Init => IInv /\ WholeVersions
    <2>1. Init => WholeVersions
      BY DEF Init, WholeVersions, WholeHistory, Versions
    <2> QED
      BY <2>1, InitInv
  <1>2. IInv /\ WholeVersions /\ [Next]_vars => IInv' /\ WholeVersions'
    <2> SUFFICES ASSUME IInv, WholeVersions, [Next]_vars
                 PROVE  WholeVersions'
      BY NextInv
    <2>1. CASE rows' = rows
      BY <2>1 DEF WholeVersions
    <2>2. ASSUME NEW p \in Runners, Commit(p)
          PROVE  WholeVersions'
      <3>1. cmd[p] \in Command
        BY CommandTypes DEF IInv
      <3>2. rows' = TargetRows(cmd[p], rows) /\ Refusal(cmd[p], rows) = "ok"
        BY <2>2, CommitTarget
      <3>3. WholeHistory(TargetRows(cmd[p], rows))
        BY <3>1, <3>2, WholePreserved DEF WholeVersions
      <3> QED
        BY <3>2, <3>3 DEF WholeVersions
    <2> QED
      BY <2>1, <2>2, HistoryStep
  <1> QED
    BY <1>1, <1>2, PTL DEF Spec

\* Concurrent, failing runs implement commands that run alone and at once.
THEOREM ImplementsHistory == Spec => RefinesHistory
  <1>1. Init => IInv /\ History!Init
    BY InitInv DEF Init, History!Init
  <1>2. IInv /\ [Next]_vars => IInv' /\ [History!Next]_rows
    <2> SUFFICES ASSUME IInv, [Next]_vars
                 PROVE  History!Next \/ rows' = rows
      BY NextInv
    <2>1. ASSUME NEW p \in Runners, Commit(p)
          PROVE  History!Next
      <3>1. cmd[p] \in Commands
        BY DEF IInv, TypeOK
      <3>2. rows' = TargetRows(cmd[p], rows) /\ Refusal(cmd[p], rows) = "ok"
        BY <2>1, CommitTarget
      <3> QED
        BY <3>1, <3>2 DEF History!Next, History!Run
    <2> QED
      BY <2>1, HistoryStep
  <1> QED
    BY <1>1, <1>2, PTL DEF Spec, RefinesHistory, History!Spec

(***************************************************************************)
(* Status, which decides per step, and the commands, which decide per      *)
(* version, agree on every history.                                        *)
(***************************************************************************)
\* A step is in some state: the states of a plan, one by one.
LEMMA StateOf ==
    ASSUME NEW r \in Releases, NEW h, NEW s
    PROVE  s \in StepStates(r, h) <=>
              \E i \in DOMAIN Plan[r] : \E j \in DOMAIN Plan[r][i].steps :
                  s = StepState(h, Plan[r][i], Plan[r][i].steps[j])
  <1> DEFINE Of(i) == {StepState(h, Plan[r][i], Plan[r][i].steps[j]) : j \in DOMAIN Plan[r][i].steps}
  <1>1. StepStates(r, h) = UNION {Of(i) : i \in DOMAIN Plan[r]}
    BY DEF StepStates
  <1>2. \A i \in DOMAIN Plan[r] : s \in Of(i) <=> \E j \in DOMAIN Plan[r][i].steps :
                                                s = StepState(h, Plan[r][i], Plan[r][i].steps[j])
    OBVIOUS
  <1> HIDE DEF Of
  <1>3. s \in UNION {Of(i) : i \in DOMAIN Plan[r]} <=> \E i \in DOMAIN Plan[r] : s \in Of(i)
    OBVIOUS
  <1> QED
    BY <1>1, <1>2, <1>3

\* A drifted step is what validateHistory's first half looks for.
LEMMA DriftSeen ==
    ASSUME NEW r \in Releases, NEW h
    PROVE  HistoryDrifted(r, h) <=> "drifted" \in StepStates(r, h)
  <1>1. ASSUME NEW i \in DOMAIN Plan[r], NEW j \in DOMAIN Plan[r][i].steps
        PROVE  "drifted" = StepState(h, Plan[r][i], Plan[r][i].steps[j]) <=>
                   /\ Plan[r][i].version \in Versions(h)
                   /\ RowOf(Plan[r][i].version, Plan[r][i].steps[j]) \notin h
    BY DEF StepState
  <1>2. ASSUME NEW i \in DOMAIN Plan[r]
        PROVE  ~ (VersionRows(Plan[r][i]) \subseteq h) <=>
                   \E j \in DOMAIN Plan[r][i].steps : RowOf(Plan[r][i].version, Plan[r][i].steps[j]) \notin h
    BY DEF VersionRows
  <1> QED
    BY <1>1, <1>2, StateOf DEF HistoryDrifted

\* A version no build of this plan has is recorded with some row, which is listed as unknown.
LEMMA UnknownSeen ==
    ASSUME NEW r \in Releases, NEW h, HistoryUnknown(r, h)
    PROVE  UnknownRows(r, h) # {}
  <1>1. PICK x \in h : \A i \in DOMAIN Plan[r] : Plan[r][i].version # x.version
    BY DEF HistoryUnknown, Versions
  <1> QED
    BY <1>1 DEF UnknownRows

\* What is pending or a draft is what a migrate selects and records.
LEMMA PendingSeen ==
    ASSUME NEW r \in Releases, NEW h, NEW c, c.op = "migrate", c.release = r
    PROVE  HasPending(r, h) <=> TargetRows(c, h) # h
  <1>1. ASSUME NEW i \in DOMAIN Plan[r], NEW j \in DOMAIN Plan[r][i].steps
        PROVE  StepState(h, Plan[r][i], Plan[r][i].steps[j]) \in {"pending", "draft"} <=>
                   /\ Selected(c, Plan[r][i], h)
                   /\ RowOf(Plan[r][i].version, Plan[r][i].steps[j]) \notin h
    BY DEF StepState, Selected
  <1>2. HasPending(r, h) <=>
            \E i \in DOMAIN Plan[r] : /\ Selected(c, Plan[r][i], h)
                                      /\ \E j \in DOMAIN Plan[r][i].steps :
                                             RowOf(Plan[r][i].version, Plan[r][i].steps[j]) \notin h
    <2>1. HasPending(r, h) <=> \E s \in {"pending", "draft"} : s \in StepStates(r, h)
      BY DEF HasPending
    <2> QED
      BY <1>1, <2>1, StateOf
  <1>3. TargetRows(c, h) =
            h \cup UNION {VersionRows(Plan[r][i]) : i \in {k \in DOMAIN Plan[r] : Selected(c, Plan[r][k], h)}}
    BY DEF TargetRows
  <1>4. TargetRows(c, h) # h <=>
            \E i \in DOMAIN Plan[r] : Selected(c, Plan[r][i], h) /\ \E x \in VersionRows(Plan[r][i]) : x \notin h
    BY <1>3, Zenon
  <1>5. ASSUME NEW i \in DOMAIN Plan[r]
        PROVE  (\E x \in VersionRows(Plan[r][i]) : x \notin h) <=>
                   \E j \in DOMAIN Plan[r][i].steps : RowOf(Plan[r][i].version, Plan[r][i].steps[j]) \notin h
    BY DEF VersionRows
  <1> QED
    BY <1>2, <1>4, <1>5

\* What Status reports, read without the run lock, is what migrate would decide on the same history.
THEOREM StatusForeseen == Spec => []StatusForetells
  <1>1. StatusForetells
    <2> SUFFICES ASSUME NEW r \in Releases
                 PROVE  LET deploy == [op |-> "migrate", release |-> r, target |-> 0, force |-> FALSE]
                            refusal == Refusal(deploy, rows)
                            states == StepStates(r, rows)
                        IN  /\ refusal = "MIG-010" <=> "drifted" \in states
                            /\ refusal = "MIG-011" => UnknownRows(r, rows) # {}
                            /\ "draft" \in states => refusal # "ok"
                            /\ HasPending(r, rows) <=> TargetRows(deploy, rows) # rows
      BY DEF StatusForetells
    <2> DEFINE deploy == [op |-> "migrate", release |-> r, target |-> 0, force |-> FALSE]
               refusal == Refusal(deploy, rows)
    <2>0. deploy.op = "migrate" /\ deploy.release = r
      OBVIOUS
    <2> HIDE DEF deploy
    <2>1. refusal = "MIG-010" <=> "drifted" \in StepStates(r, rows)
      BY <2>0, DriftSeen DEF Refusal
    <2>2. refusal = "MIG-011" => UnknownRows(r, rows) # {}
      BY <2>0, UnknownSeen DEF Refusal
    <2>3. ASSUME "draft" \in StepStates(r, rows)
          PROVE  refusal # "ok"
      <3>1. PICK i \in DOMAIN Plan[r] : \E j \in DOMAIN Plan[r][i].steps :
                "draft" = StepState(rows, Plan[r][i], Plan[r][i].steps[j])
        BY <2>3, StateOf
      <3>2. Plan[r][i].draft /\ Plan[r][i].version \notin Versions(rows)
        BY <3>1 DEF StepState
      <3>3. PendingDraft(deploy, rows)
        BY <3>2, <2>0 DEF PendingDraft
      <3> QED
        BY <3>3, <2>0 DEF Refusal
    <2>4. HasPending(r, rows) <=> TargetRows(deploy, rows) # rows
      BY <2>0, PendingSeen
    <2> QED
      BY <2>1, <2>2, <2>3, <2>4 DEF deploy
  <1> QED
    BY <1>1, PTL

=============================================================================
