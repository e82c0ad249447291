--------------------------- MODULE MigrationRunner ---------------------------
(***************************************************************************)
(* The versioned migration runner (go/orm/migrations/migration_runner.go)  *)
(* as processes that share one database: each pins a connection, takes the *)
(* dialect's run lock, reads schema_version, checks the whole plan, then   *)
(* executes statement by statement inside one transaction.  A run can fail *)
(* at every point, a commit can succeed without the client hearing of it,  *)
(* and people change views outside the migrations.                         *)
(***************************************************************************)
EXTENDS MigrationPlan, SequencesExt

CONSTANTS
    Runners,         \* processes that may run a migration command
    Commands,        \* the commands they may run
    NoRunner,        \* nobody holds the run lock
    Untouched,       \* an object the open transaction has not changed
    HotDefs,         \* definitions an outside hotfix gives a view
    ExclusiveLock,   \* the run lock excludes every other writer (SQLite's BEGIN IMMEDIATE)
    MaxRuns,         \* bound: commands per process
    MaxHotfixes      \* bound: outside changes

ASSUME RunnerAssumption ==
    /\ Commands \subseteq Command /\ Commands # {}
    /\ NoRunner \notin Runners
    /\ Untouched \notin Defs \cup {Absent}
    /\ HotDefs \subseteq Defs
    /\ ExclusiveLock \in BOOLEAN
    /\ MaxRuns \in Nat
    /\ MaxHotfixes \in Nat

VARIABLES
    rows,        \* committed content of schema_version
    live,        \* committed definition of every object
    lock,        \* the process holding the run lock
    pc,          \* where each process is in its command
    cmd,         \* the command each process runs
    recorded,    \* the history it read under the lock
    txRows,      \* schema_version as its open transaction sees it
    txLive,      \* the definitions its open transaction changed
    vi, si, ti,  \* loop positions: version, step, statement
    result,      \* outcome of its last command
    runs,        \* commands it has issued (bounds the model)
    hotfixes     \* outside changes so far (bounds the model)

db     == <<rows, live>>
tx     == <<recorded, txRows, txLive>>
loop   == <<vi, si, ti>>
bounds == <<runs, hotfixes>>
vars   == <<rows, live, lock, pc, cmd, recorded, txRows, txLive, vi, si, ti,
            result, runs, hotfixes>>

InTx == {"begun", "version", "step", "statement"}

Results == {"none", "ok", "driver", "MIG-010", "MIG-011", "MIG-012", "MIG-013",
            "MIG-014", "MIG-020", "MIG-021"}

Init ==
    /\ rows = {}
    /\ live = [o \in Objects |-> Absent]
    /\ lock = NoRunner
    /\ pc = [p \in Runners |-> "idle"]
    /\ cmd = [p \in Runners |-> CHOOSE c \in Commands : TRUE]
    /\ recorded = [p \in Runners |-> {}]
    /\ txRows = [p \in Runners |-> {}]
    /\ txLive = [p \in Runners |-> [o \in Objects |-> Untouched]]
    /\ vi = [p \in Runners |-> 1]
    /\ si = [p \in Runners |-> 1]
    /\ ti = [p \in Runners |-> 1]
    /\ result = [p \in Runners |-> "none"]
    /\ runs = [p \in Runners |-> 0]
    /\ hotfixes = 0

-----------------------------------------------------------------------------
(* Where a process is in its plan. *)

PlanOf(p) == Plan[cmd[p].release]

CurrentVersion(p) == VersionAt(cmd[p], vi[p])

CurrentStep(p) == StepAt(cmd[p], CurrentVersion(p), si[p])

CurrentStatements(p) == StepStatements(cmd[p], CurrentVersion(p), CurrentStep(p))

\* The definition a statement of p's transaction sees.
LiveOf(p, o) == IF txLive[p][o] = Untouched THEN live[o] ELSE txLive[p][o]

-----------------------------------------------------------------------------
(* Migrate, MigrateDown and Baseline. *)

\* An operator (or a deployment) issues a command.
Request(p) ==
    /\ pc[p] \in {"idle", "done"}
    /\ runs[p] < MaxRuns
    /\ \E c \in Commands : cmd' = [cmd EXCEPT ![p] = c]
    /\ pc' = [pc EXCEPT ![p] = "lock"]
    /\ result' = [result EXCEPT ![p] = "none"]
    /\ runs' = [runs EXCEPT ![p] = @ + 1]
    /\ UNCHANGED <<db, lock, tx, loop, hotfixes>>

\* Mutant of BeginMigrationRunLock: the run does not wait for the lock.
UnlockedBegin(p) ==
    /\ pc[p] = "lock"
    /\ lock' = p
    /\ pc' = [pc EXCEPT ![p] = "begun"]
    /\ UNCHANGED <<db, cmd, tx, loop, result, bounds>>

\* BeginMigrationRunLock: the transaction opens and holds the lock until it ends.
BeginMigrationRunLock(p) ==
    /\ pc[p] = "lock"
    /\ lock = NoRunner
    /\ lock' = p
    /\ pc' = [pc EXCEPT ![p] = "begun"]
    /\ UNCHANGED <<db, cmd, tx, loop, result, bounds>>

\* No connection, or the wait for the lock ran into its timeout.
LockRefused(p) ==
    /\ pc[p] = "lock"
    /\ pc' = [pc EXCEPT ![p] = "done"]
    /\ result' = [result EXCEPT ![p] = "driver"]
    /\ UNCHANGED <<db, lock, cmd, tx, loop, bounds>>

\* Mutant of Rollback: the connection goes back to the pool with its lock.
LeakyRollback(p, code) ==
    /\ pc' = [pc EXCEPT ![p] = "done"]
    /\ result' = [result EXCEPT ![p] = code]
    /\ recorded' = [recorded EXCEPT ![p] = {}]
    /\ txRows' = [txRows EXCEPT ![p] = {}]
    /\ txLive' = [txLive EXCEPT ![p] = [o \in Objects |-> Untouched]]
    /\ vi' = [vi EXCEPT ![p] = 1]
    /\ si' = [si EXCEPT ![p] = 1]
    /\ ti' = [ti EXCEPT ![p] = 1]
    /\ UNCHANGED <<db, lock, cmd, bounds>>

\* Every way out of a run but the commit: the deferred Rollback ends the
\* transaction and with it the lock; what it wrote is gone.
Rollback(p, code) ==
    /\ pc' = [pc EXCEPT ![p] = "done"]
    /\ result' = [result EXCEPT ![p] = code]
    /\ lock' = NoRunner
    /\ recorded' = [recorded EXCEPT ![p] = {}]
    /\ txRows' = [txRows EXCEPT ![p] = {}]
    /\ txLive' = [txLive EXCEPT ![p] = [o \in Objects |-> Untouched]]
    /\ vi' = [vi EXCEPT ![p] = 1]
    /\ si' = [si EXCEPT ![p] = 1]
    /\ ti' = [ti EXCEPT ![p] = 1]
    /\ UNCHANGED <<db, cmd, bounds>>

\* ensureVersionTable, readRecorded and the checks before the first statement.
Refuse(p) ==
    /\ pc[p] = "begun"
    /\ Refusal(cmd[p], rows) # "ok"
    /\ Rollback(p, Refusal(cmd[p], rows))

Admit(p) ==
    /\ pc[p] = "begun"
    /\ Refusal(cmd[p], rows) = "ok"
    /\ recorded' = [recorded EXCEPT ![p] = rows]
    /\ txRows' = [txRows EXCEPT ![p] = rows]
    /\ pc' = [pc EXCEPT ![p] = "version"]
    /\ UNCHANGED <<db, lock, cmd, txLive, loop, result, bounds>>

\* The version loop: a version outside the command's selection is skipped.
NextVersion(p) ==
    /\ pc[p] = "version"
    /\ vi[p] <= Len(PlanOf(p))
    /\ IF Selected(cmd[p], CurrentVersion(p), recorded[p])
       THEN /\ pc' = [pc EXCEPT ![p] = "step"]
            /\ si' = [si EXCEPT ![p] = 1]
            /\ vi' = vi
       ELSE /\ vi' = [vi EXCEPT ![p] = @ + 1]
            /\ UNCHANGED <<pc, si>>
    /\ UNCHANGED <<db, lock, cmd, tx, ti, result, bounds>>

\* The step loop: the step's statements are next.
NextStep(p) ==
    /\ pc[p] = "step"
    /\ si[p] <= Len(CurrentVersion(p).steps)
    /\ pc' = [pc EXCEPT ![p] = "statement"]
    /\ ti' = [ti EXCEPT ![p] = 1]
    /\ UNCHANGED <<db, lock, cmd, tx, vi, si, result, bounds>>

\* Mutant of GuardHolds: the guard is not evaluated.
AnyLive(p, s) == TRUE

\* A guard that finds the definition it expects, or is forced.
GuardHolds(p, s) == LiveOf(p, s.object) = s.def \/ cmd[p].force

\* Mutant of ApplyStatement: the statement runs on the pool, outside the transaction.
ApplyOutsideTx(p) ==
    /\ pc[p] = "statement"
    /\ ti[p] <= Len(CurrentStatements(p))
    /\ LET s == CurrentStatements(p)[ti[p]] IN
         /\ s.guard => GuardHolds(p, s)
         /\ live' = IF s.guard THEN live ELSE [live EXCEPT ![s.object] = Left(LiveOf(p, s.object), s)]
    /\ ti' = [ti EXCEPT ![p] = @ + 1]
    /\ UNCHANGED <<rows, lock, pc, cmd, tx, vi, si, result, bounds>>

\* applyStatement: a guard compares, any other statement executes.
ApplyStatement(p) ==
    /\ pc[p] = "statement"
    /\ ti[p] <= Len(CurrentStatements(p))
    /\ LET s == CurrentStatements(p)[ti[p]] IN
         /\ s.guard => GuardHolds(p, s)
         /\ txLive' = IF s.guard THEN txLive
                      ELSE [txLive EXCEPT ![p][s.object] = Left(LiveOf(p, s.object), s)]
    /\ ti' = [ti EXCEPT ![p] = @ + 1]
    /\ UNCHANGED <<db, lock, pc, cmd, recorded, txRows, vi, si, result, bounds>>

\* MIG-012: the live definition was changed outside migrations.
GuardRefuses(p) ==
    /\ pc[p] = "statement"
    /\ ti[p] <= Len(CurrentStatements(p))
    /\ LET s == CurrentStatements(p)[ti[p]] IN s.guard /\ ~GuardHolds(p, s)
    /\ Rollback(p, "MIG-012")

\* After a step's statements migrate and baseline record it.
FinishStep(p) ==
    /\ pc[p] = "statement"
    /\ ti[p] > Len(CurrentStatements(p))
    /\ txRows' = IF cmd[p].op = "down" THEN txRows
                 ELSE [txRows EXCEPT ![p] = @ \cup {RowOf(CurrentVersion(p).version, CurrentStep(p))}]
    /\ si' = [si EXCEPT ![p] = @ + 1]
    /\ pc' = [pc EXCEPT ![p] = "step"]
    /\ UNCHANGED <<db, lock, cmd, recorded, txLive, vi, ti, result, bounds>>

\* After a version's steps down deletes the version's records, whatever object
\* they are for (deleteVersionRecord).
FinishVersion(p) ==
    /\ pc[p] = "step"
    /\ si[p] > Len(CurrentVersion(p).steps)
    /\ txRows' = IF cmd[p].op # "down" THEN txRows
                 ELSE [txRows EXCEPT ![p] = {x \in @ : x.version # CurrentVersion(p).version}]
    /\ vi' = [vi EXCEPT ![p] = @ + 1]
    /\ pc' = [pc EXCEPT ![p] = "version"]
    /\ UNCHANGED <<db, lock, cmd, recorded, txLive, si, ti, result, bounds>>

\* tx.Commit. The database may have committed although the client reports a
\* driver error: the connection died before the acknowledgement.
Commit(p) ==
    /\ pc[p] = "version"
    /\ vi[p] > Len(PlanOf(p))
    /\ rows' = txRows[p]
    /\ live' = [o \in Objects |-> LiveOf(p, o)]
    /\ \E outcome \in {"ok", "driver"} : result' = [result EXCEPT ![p] = outcome]
    /\ lock' = NoRunner
    /\ pc' = [pc EXCEPT ![p] = "done"]
    /\ recorded' = [recorded EXCEPT ![p] = {}]
    /\ txRows' = [txRows EXCEPT ![p] = {}]
    /\ txLive' = [txLive EXCEPT ![p] = [o \in Objects |-> Untouched]]
    /\ vi' = [vi EXCEPT ![p] = 1]
    /\ si' = [si EXCEPT ![p] = 1]
    /\ ti' = [ti EXCEPT ![p] = 1]
    /\ UNCHANGED <<cmd, bounds>>

\* A statement fails (MIG-021), the context ends, the connection or the process
\* dies: the transaction never commits.
Abort(p) ==
    /\ pc[p] \in InTx
    /\ \E code \in {"MIG-021", "driver"} : Rollback(p, code)

-----------------------------------------------------------------------------
(* The outside world. *)

\* Somebody replaces an existing view outside the migrations. Under an exclusive
\* lock no other writer commits during a run; under an advisory one the engine
\* only blocks changes to objects the open transaction has already changed.
Hotfix(o) ==
    /\ hotfixes < MaxHotfixes
    /\ o \in Views
    /\ live[o] # Absent
    /\ ExclusiveLock => lock = NoRunner
    /\ \A p \in Runners : txLive[p][o] = Untouched
    /\ \E d \in HotDefs : live' = [live EXCEPT ![o] = d]
    /\ hotfixes' = hotfixes + 1
    /\ UNCHANGED <<rows, lock, pc, cmd, tx, loop, result, runs>>

\* The program's own progress, as opposed to what may befall it.
Progress(p) ==
    \/ BeginMigrationRunLock(p)
    \/ Refuse(p)
    \/ Admit(p)
    \/ NextVersion(p)
    \/ NextStep(p)
    \/ ApplyStatement(p)
    \/ GuardRefuses(p)
    \/ FinishStep(p)
    \/ FinishVersion(p)
    \/ Commit(p)

Next ==
    \/ \E p \in Runners : Request(p) \/ Progress(p) \/ LockRefused(p) \/ Abort(p)
    \/ \E o \in Objects : Hotfix(o)

Spec == Init /\ [][Next]_vars

\* A started command is a running program: it keeps taking its next step. Nothing
\* is assumed about failures, timeouts or people.
FairSpec == Spec /\ \A p \in Runners : WF_vars(Progress(p))

-----------------------------------------------------------------------------
(* The inductive invariant behind the safety properties. *)

\* The run lock: exactly its holder has a transaction open.
LockInv == \A p \in Runners : pc[p] \in InTx <=> lock = p

\* A loop position stays within the plan, on a version the command selected.
PositionOK(p) ==
    /\ vi[p] \in 1 .. Len(PlanOf(p)) + 1
    /\ pc[p] \notin {"version", "step", "statement"} => vi[p] = 1
    /\ pc[p] \in {"step", "statement"} =>
          /\ vi[p] <= Len(PlanOf(p))
          /\ Selected(cmd[p], CurrentVersion(p), recorded[p])
          /\ si[p] \in 1 .. Len(CurrentVersion(p).steps) + 1
    /\ pc[p] = "statement" => si[p] <= Len(CurrentVersion(p).steps) /\ ti[p] >= 1

PositionInv == \A p \in Runners : PositionOK(p)

\* The versions p's loop has behind it and had to work on.
Passed(p) == {k \in 1 .. vi[p] - 1 : Selected(cmd[p], VersionAt(cmd[p], k), recorded[p])}

\* The rows p has recorded of the version it is in.
Partial(p) ==
    IF pc[p] \in {"step", "statement"}
    THEN {RowOf(CurrentVersion(p).version, StepAt(cmd[p], CurrentVersion(p), j)) : j \in 1 .. si[p] - 1}
    ELSE {}

\* The committed history changed by the work p has done so far.
WorkRows(p) ==
    IF cmd[p].op = "down"
    THEN {x \in rows : \A k \in Passed(p) : VersionAt(cmd[p], k).version # x.version}
    ELSE rows \cup Partial(p) \cup UNION {VersionRows(VersionAt(cmd[p], k)) : k \in Passed(p)}

\* The open transaction: what p read is still the committed history, its checks
\* still hold, and it sees that history changed by its own work.
TransactionOK(p) ==
    pc[p] \in {"version", "step", "statement"} =>
        /\ recorded[p] = rows
        /\ Refusal(cmd[p], rows) = "ok"
        /\ txRows[p] = WorkRows(p)

TransactionInv == \A p \in Runners : TransactionOK(p)

-----------------------------------------------------------------------------
(* Properties. *)

TypeOK ==
    /\ rows \in SUBSET Row
    /\ live \in [Objects -> Defs \cup {Absent}]
    /\ lock \in Runners \cup {NoRunner}
    /\ pc \in [Runners -> {"idle", "lock", "done"} \cup InTx]
    /\ cmd \in [Runners -> Commands]
    /\ recorded \in [Runners -> SUBSET Row]
    /\ txRows \in [Runners -> SUBSET Row]
    /\ txLive \in [Runners -> [Objects -> Defs \cup {Absent, Untouched}]]
    /\ vi \in [Runners -> Nat] /\ si \in [Runners -> Nat] /\ ti \in [Runners -> Nat]
    /\ \A p \in Runners : vi[p] \in 1 .. Len(PlanOf(p)) + 1
    /\ result \in [Runners -> Results]
    /\ runs \in [Runners -> 0 .. MaxRuns]
    /\ hotfixes \in 0 .. MaxHotfixes

\* "A version is applied atomically" (spec/migrations.md): whatever failed, ran
\* concurrently or came from another build, the committed rows of a version are
\* exactly the steps some build composes for it, and never those of a version
\* that was a draft in that build.
WholeVersions == WholeHistory(rows)

\* The Up statements of all steps of all builds.
Ups == {step.up : step \in UNION {ToSet(rv.steps) : rv \in UNION {ToSet(Plan[r]) : r \in Releases}}}

\* The definition the step a row records left its object with: the row's checksum names the step.
DefOf(x) ==
    LET up == CHOOSE u \in Ups : u[Len(u)].object = x.object /\ computeChecksum(u) = x.checksum
    IN  up[Len(up)].def

Newest(mine) == CHOOSE x \in mine : \A y \in mine : y.version <= x.version

\* The definition the newest step of an object that a history records left.
RecordedDef(h, o) ==
    LET mine == {x \in h : x.object = o} IN
    IF mine = {} THEN Absent ELSE DefOf(Newest(mine))

\* History and schema agree: unless somebody has changed it outside, an object is
\* what its newest recorded step made it, but for columns a derived rollback brought
\* back nullable, and exists only if a step is recorded.  It relates what two different parts of the run write (statements and records)
\* across failures, lost acknowledgements, rollbacks and rival builds.
LiveMatchesHistory ==
    \A o \in Objects : live[o] \in HotDefs \/ Loosened(live[o], RecordedDef(rows, o))

\* An outside hotfix is never silently destroyed, neither by a migration nor by a
\* rollback (MIG-012): only a forced command or another outside change replaces it.
HotfixPreserved ==
    [][\A o \in Views :
          live[o] \in HotDefs /\ live'[o] \notin HotDefs =>
              \E p \in Runners : Commit(p) /\ cmd[p].force]_vars

\* The run lock makes concurrent commands serial: every change of the committed
\* history is one command applied at once to the history as it is at that moment,
\* and failed, refused or crashed runs leave no trace.
History == INSTANCE SchemaHistory
RefinesHistory == History!Spec

\* Every command comes to an end, with nobody else's failure needed: the holder of
\* the run lock always releases it.
RunsEnd == \A p \in Runners : pc[p] = "lock" ~> pc[p] = "done"

\* A status read at any moment, by any build, beside whatever is running, foretells what migrate would do
\* to the committed history: a drifted step is exactly MIG-010, MIG-011 always shows an unknown row, a draft
\* is always refused, and HasPending is exactly that the versions migrate selects change the history.
StatusForetells ==
    \A r \in Releases :
        LET deploy == [op |-> "migrate", release |-> r, target |-> 0, force |-> FALSE]
            refusal == Refusal(deploy, rows)
            states == StepStates(r, rows)
        IN  /\ refusal = "MIG-010" <=> "drifted" \in states
            /\ refusal = "MIG-011" => UnknownRows(r, rows) # {}
            /\ "draft" \in states => refusal # "ok"
            /\ HasPending(r, rows) <=> TargetRows(deploy, rows) # rows

=============================================================================
