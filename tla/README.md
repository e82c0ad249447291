# A TLA+ model of SimpleOrm's stateful core

SimpleOrm is a SQL-first object mapper specified once (`spec/*.md`) and implemented in
C#, PHP and Go. This directory models the Go implementation (`go/orm`): the parts that keep
state across calls, share state between processes, or can fail half-way. The modules are
model-checked with TLC on small instances; the central results are also proved with TLAPS
for every value of the constants. `PROJECT.json` maps every definition to its source lines.

## Inventory

| Component | Source | State | Operations | What is hard | Module |
|---|---|---|---|---|---|
| Migration runner | `migrations/migration_runner.go`, `migration_set.go`, `down_deriver.go`, `snapshot_set.go` | the `schema_version` rows and the live schema (in the database), the plan and snapshots (in the build) | `Migrate`, `MigrateDown`, `Baseline`, `Status`, `HasPending` | several processes and builds on one database, crashes, lost acknowledgements, people changing views | `MigrationPlan`, `MigrationRunner` |
| Migration authoring | `migrations/migration_generator.go`, `diff_command.go`, `schema_snapshot.go`, `schema_sync.go`, `shadow.go`, `trigger_*.go`, `cli/cli.go` | the migrations tree, the registered versions, the database | diff, amend, snapshot, shadow, migrate `--force` | which past a snapshot tells, half-written trees, hand-written files, order of actions | `SchemaDiff`, `Authoring` |
| Schema guard | `schema_guard.go` | none | `Validate` | agreement with the generator | `Authoring` (`Valid`) |
| Identity map | `tracker.go`, `tracking.go` | pointer index, key index, snapshots | register, forget, restore, resolve, `Refresh`, `Detach`, `Merge` | entries that undo closures keep after the map dropped them; keys that are used again | `IdentityMap` |
| Generated writes and hooks | `db_crud.go`, `db_write.go`, `db_hooks.go` | instances' keys, versions, flags, stamps | `Insert`, `Update`, `UpdateOnly`, `Delete`, `DeleteEntity`; prepare, execute, complete | zero-row results, the identity gate, version checks, fields set before the statement runs | `SessionWrites` |
| Batches | `batch.go`, `batching.go` | the message in progress, the undo journal | `Batch*`, `Send`, before, add, send, complete | preparing against a map the message has not updated; failure after some statements | `SessionWrites` |
| Statement messages | `postgres/batch.go`, `postgres/driver.go`, `sqlserver/batch.go` | the connection: what is sent, what is unread, cached plans | `SendMessage`, `ExecContext` | attributing results, draining after errors, stale plans | `StatementMessages` |
| Unit of work | `unit_of_work.go`, `flush.go` | scheduled inserts with cascade links, scheduled removes | `Persist`, `Remove`, `Flush` | cascades and cancels over graphs, order by types and dependencies, key flow, retry after failure, immediate writes beside the schedule | `UnitOfWork` |
| Session | `db.go`, `db_open.go`, `db_options.go`, `db_statements.go`, `internal/core/command_timeout.go` | pool, pinned connection, current transaction, deadlines | `Open`, `Close`, `Begin`, `Commit`, `Rollback`, statements | retries, contexts that end, scopes that outlive the session | `Session` |
| Loading | `db_eager.go`, `db_eager_join.go`, `db_loading.go`, `loading_keys.go`, `criteria_query.go` | navigations and the map | `List` with includes in three fetch modes, `Load`, `LoadEach` | several queries over rows that change, correlation, order, duplicates | `Loading` |
| Queries and rendering | `db_query.go`, `generated_sql.go`, `registry.go`, `internal/render` | render caches | `Query*`, `Stream*` | text only | - |
| Metadata and binding | `internal/core`, `metadata`, `mapping`, `params` | map cache | load, convert, bind | reflection | - |

How they meet. A session owns one connection, at most one transaction, one identity map and
one schedule, and is used by one thread. Immediate writes, batches and flushes share the
prepare/execute/complete steps of `preparedWrite`; batches and flushes share the message plan
(`batchCall`) and the undo journal; the dialects turn a planned message into round trips
(`StatementMessages` is the contract `SessionWrites` assumes with `OneRoundTrip`). The runner
shares nothing with sessions but the database: processes meet in the run lock and in
`schema_version`. The authoring commands write the tree a build is compiled from; what
`Authoring` calls the registered versions is one `Plan` of `MigrationPlan`.

What makes each correct: the runner changes the history as if successful commands ran one at
a time, never records part of a version or a draft, keeps schema and history in agreement,
does not destroy outside changes unasked, and its status foretells what it will do; a generated
version reaches the model and never replaces what somebody wrote; the map has one instance per
key and one key per instance; a batch does what its immediate calls would have done or, failing,
leaves memory as it was; every result belongs to its statement; a flush that succeeds has written
exactly what was asked for, parents first, children deleted first, generated keys in place; a
scope is all or nothing whatever contexts end; a load shows what the rows relate.

## Modules

- `MigrationPlan` - pure: what a build knows (rendered plan, snapshots) and every decision the
  runner takes by comparing it with a history, `Status` and `HasPending` included. A database
  outlives its builds, so plans are indexed by `Releases`. A statement is its text (a model value)
  and what the engine does with it; a checksum is the sequence of the texts of the Up statements,
  SHA-256 being taken as injective. A table's definition is its shape, columns with type and
  nullability; `Left` is what an alteration leaves of it. A rollback is derived (`DeriveDown`) or
  refused (`DeriveRefusal`): no snapshot or a column of another type (MIG-020), a snapshot of another
  dialect (MIG-014); a NOT NULL column that was dropped comes back nullable.
- `MigrationRunner` - the processes. `pc` is the position in the Go function (`lock`: waiting in
  `BeginMigrationRunLock`; `begun`: transaction open; `version`, `step`, `statement`: the three
  loops). `rows`, `live` are what is committed, `txRows`, `txLive` what the open transaction sees.
  `Abort` is every failure inside the transaction, a process crash included; `Commit` may report a
  driver error although it committed; `Hotfix` is a person. `ExclusiveLock` says whether the run
  lock excludes all writers (SQLite) or only other runners (PostgreSQL, SQL Server).
- `SchemaHistory` - the abstract specification of the runner: one variable, one atomic action.
- `TraceablePlans` - what the plans and snapshots of all builds must be like for the history to tell
  the live schema (`Traceable`) and for a change of a view to be guarded (`Guarded`). The runner checks
  neither; they are the hypotheses of two theorems, and the instances of `MCMigrationRunner` meet them.
- `SchemaDiff` - the diff of two table shapes, the actions a generated step consists of in the
  order `TableActions.build` runs them, the plan of a force sync, and what an engine does with a
  statement (`DropCascades` FALSE: a column an index covers cannot be dropped).
- `Authoring` - `tree` (roots, step files, snapshots per version), `registered` (the Set is
  `1..registered`), `applied` and `live` (the database), `model` (the entities). One action per
  command and per thing an author does. A diff is planned from the tree and committed file by file
  (`CommitPlan`, `Commit`), and may stop after any of them. Every command is a fresh build, so it runs only
  when the tree compiles.
- `IdentityMap` - the tracker as a record of a heap of entries and two indexes. Entries are named
  by registration number because undo closures hold Go pointers to entries no longer indexed.
- `SessionWrites` - a tracked session over one entity type with a generated key and a version:
  application steps, immediate calls, the caller's transaction, other sessions, and `Batch.Send`
  taken apart into take (`before`), prepare, add, send, execute, complete, commit. The journal is
  a sequence of closures as data. `session.options` holds the session's and the dialect's choices:
  batching, one round trip, parameter cap, counts read back, reused keys, and whether the type has
  the soft-delete and updated-at hooks.
- `StatementMessages` - one connection: the client's loop over a message (`phase`, `start`, `at`),
  the server working through `wire` and leaving answers on `stream`, prepared plans per text.
- `UnitOfWork` - schedule, cascade walks, cancel, type ranks, flush plan and flush. What one
  statement does to the map is abstracted to tracked or not (that is `SessionWrites`' subject).
  `want` and `touched` are history variables: what the last call on an instance asked for since the
  last successful flush, and which instances were written immediately since. `rankTypes` is what
  Tarjan's algorithm computes, not its loop: components by mutual reachability, ranks by the longest
  way down.
- `Session` - `Open` as its attempts (`phase`, `attempt`), scopes with the driver's own view of
  their transaction (`driver`), and the transaction the one connection is inside (`serverTx`, `pending`),
  into which statements fall. A context may end between any two steps; `DriverRollsBack` is the goroutine
  of `database/sql`. It may still have its ROLLBACK to send when `Commit` has reported the ended context
  and the session has dropped the transaction, so the next `Begin` may meet a transaction on the
  connection: `RefusesNested` says what the engine then does with the BEGIN. `AtomicUnits` is its
  abstract specification: units kept whole or lost whole.
- `Loading` - one owner and one target type in the four kinds of navigation. A call is a sequence
  of queries, one action each, so other sessions write in between; join mode is one query and a fold.
- `MC*` - instances for TLC. `MigrationRunner_proofs`, `TraceablePlans_proofs`, `IdentityMap_proofs`,
  `Session_proofs`, `SessionWrites_proofs`, `StatementMessages_proofs`, `Loading_proofs`,
  `Authoring_proofs` - theorems and their lemmas. The parts of an inductive invariant that say something
  about the system are defined, and explained, in the component's module; those of `SessionWrites` and of
  `TraceablePlans`, which speak of the proof's own notions, in the proof module.

Definitions named "Mutant of ..." are plausible bugs used to confirm that each property can fail;
no specification uses them.

## Runs

| Run | Shows |
|---|---|
| `main` | two processes, five builds (old; V3 as draft and snapshots of another dialect; V2 missing and a hand-written rollback; current, V3 dropping a NOT NULL column; V2 edited after it was applied, V3 changing a type), two commands each, one hotfix, exclusive lock: `WholeVersions`, `LiveMatchesHistory`, `StatusForetells`, `HotfixPreserved`, refinement of `SchemaHistory` |
| `adoption` | baseline beside deployments and a hotfix, advisory lock: `WholeVersions`, and `RunsEnd` under fairness |
| `authoring` | six entity models, two versions, one odd event (hand-written step, draft, interrupted diff, outside index): `GeneratedReachesModel`, `HandWrittenKept`, `DraftReviewed`, `ShadowRecords`, `SyncReachesModel`, `UnchangedIsValid` |
| `batch` | four sessions (batching off with reused and edited keys; one round trip, parameter cap, counts read back; statement by statement; soft delete and stamps): `OneInstancePerKey`, `BatchAsImmediate`, `FailedSendUndone` |
| `messages` | two calls on a PostgreSQL or SQL Server connection, two faults (a rejected statement, a scalar that cannot be used), two schema changes: `ResultsAttributed`, `NothingUnread`, `RanInOrder`, `FailuresExplained`, `CallsReturn` |
| `unit_of_work` | seven object graphs over one self-referencing type or three types, cascades in both directions, rewired navigations, immediate writes, failing flushes: `ScheduleConsistent`, `KeysFlowed`, `ChildrenDeletedFirst`, `FlushRealizesIntent` |
| `session` | two contexts, two scopes, two statements, one open retry, an engine that refuses a nested BEGIN: `NothingLeaks`, `ScopeAtomic`, `EnlistmentTotal`, `ScopeOwnsTransaction`, refinement of `AtomicUnits`, `OpenReturns` |
| `loading` | three databases, three fetch modes, four include lists, with and without a limit, tracked or not, two calls and one change: `LoadedIsRelational`, `LoadedDuringWrites`, `DuplicatesRefused`, `CollectionsOrdered`, `OtherNavigationsKept` |
| `batch_undo`, `cancel_cycle`, `generated_step`, `relinked_trigger` | counterexamples, see Findings |

Bounds. Two runners suffice for every interleaving of a lock and for one command to meet the
leftovers of another; two commands each give migrate, rollback and re-migrate between rivals;
three versions with a table and a view give a guarded replacement, a derived, a hand-written and a
refused rollback, a column restored nullable and a version that arrives late. In `SessionWrites` two instances and three keys (one
stored) are what a displaced holder, a reused key and an insert need; four application steps
(three where a batch holds three operations) cover delete-then-insert and read-change-batch;
versions grow with the steps and need no bound of their own. In `UnitOfWork` three instances give
chains, fan-out, a shared child and a row of three types; five application steps allow persist,
failed flush, retry, remove, flush; a session that starts with rows it has read reaches the
deletes of unrelated-looking instances. `Limit` is 2 or 3 so that messages fill up.
In `Authoring` two versions and one edit of the model give a first version, a change and an amend
of either; three versions and two edits are used where a trigger is unlinked and linked again
(`relinked_trigger`; with its constants `ShadowRecords` holds too, 19,308 states). In
`Session` one retry gives both outcomes of the loop's test and two scopes a scope begun after
another was lost. In `Loading` `LoadChunkSize` is 1 so that two owners are two chunks, and two
calls give a re-read of a tracked root; in `StatementMessages` messages of three statements have a
statement that goes alone first, in the middle and last, and a second call shows what the first left.
Every bound is a constant in a guard (`MaxRuns`, `MaxHotfixes`, `MaxSteps`, `MaxOps`, `MaxVersion`,
`MaxEdits`, `MaxOdd`, `MaxLoads`, `MaxChanges`, `MaxCalls`, `MaxFaults`, `MaxSchemaChanges`). Runs
with `CHECK_DEADLOCK FALSE` stop when their bound is used up or when everything is closed;
`UnitOfWork` has an explicit `Done`. `PtrSymmetry` permutes instances, which no definition tells apart.

Fairness. Requests, failures, timeouts, contexts that end and people are never assumed to happen or
to stop.
- `RunsEnd`: weak fairness of `Progress(p)`, the next step of a running Go function. It suffices for
  a process waiting for the lock because the rival's commands are bounded (`MaxRuns`) and each ends;
  against rivals that never stop asking, the run would also need the fair queue of the database's
  lock. What the property shows is that no path through a run keeps the lock.
- `OpenReturns`: weak fairness of a step of `Open`: connect and ping return, the retry timer fires.
- `CallsReturn`: weak fairness of the client (its loop runs on) and of the server (it works through
  what it received). The property is that neither waits for something the other will not send.

## Proofs

For every set of processes, builds, plans, snapshots and commands meeting `PlanAssumption` and
`RunnerAssumption` (`MigrationRunner_proofs`):

- `TypeCorrect`: `Spec => []TypeOK`.
- `VersionsWhole`: `Spec => []WholeVersions`. Not inductive alone: a commit publishes `txRows`, so
  one needs `LockInv` (exactly the holder has a transaction), `PositionInv` (loop positions within
  a selected version) and `TransactionInv` (what the holder read is still committed, its checks
  still hold, and its transaction is that history changed by the versions it has passed and the
  steps it has recorded, `WorkRows`). At the end of the loops `WorkRows` is `TargetRows`.
- `ImplementsHistory`: `Spec => History!Spec`, from the same invariant: only `Commit` changes
  `rows`, to `TargetRows(cmd, rows)` of an admitted command; every other step stutters.
- `StatusForeseen`: `Spec => []StatusForetells`. Status looks at single steps, migrate at whole
  versions. The lemmas `StateOf`, `DriftSeen`, `UnknownSeen` and `PendingSeen` relate the two views
  for every history, reachable or not, so the theorem needs no inductive invariant: it is a
  statement about two independent readings of the history table (`Status` and the checks of
  `Migrate`), not about the order of steps.

For the same processes, commands and failures, about the schema itself (`TraceablePlans_proofs`):

- `HistoryTellsSchema`: `Traceable /\ NoAdoption => (Spec => []LiveMatchesHistory)`, under an exclusive
  and under an advisory lock. "Is what the history says" is up to `Loosened`: columns that a derived
  rollback brought back nullable, as `spec/migrations.md:114-115` says it does. `HotfixesKept`: `Traceable /\ Guarded /\ NoAdoption /\ ExclusiveLock =>
  (Spec => HotfixPreserved)`.
- The argument: between two steps the open transaction's schema is what a history says, but for a
  rollback not the history it would commit, because the rows of a version go after its last step
  (`FinishVersion`). `Effective` is the history without the steps undone so far; an object is what it says,
  or a hotfix of something it says exists (`Matches`), except the one whose statements are running, which is
  so until the first change and again after the last (`StatementOK`). A step put on top of a history that
  has exactly the earlier versions of its object (`UpTo`) makes the object what the step leaves; undoing it
  leads back there, for a derived rollback because of what the snapshots say (`DerivedRestores`).
  That the history has exactly those versions follows from its being whole (`WholeHistory`), from the
  checks of `Refusal`, and from `InOrder`: with a version of an object all earlier ones are recorded.
- For the hotfix: a run that is not forced has not touched a hotfixed view, and of the statements of its
  step has executed only guards that expect a hotfix (`HotOK`); a guard that expects anything else refuses, and without
  one only a view that the history says is absent is changed (`ViewsGuarded`), which a hotfixed one is not.
- Why each hypothesis is there. `StepsDefine`: a step is about its own object, and equal SQL leaves
  equal definitions; otherwise a row says nothing about the schema. `SameObjects`: a recorded object that
  the build does not compose is not refused (see Findings), and the rollback of the version forgets it. `ObjectsInOrder`: two
  branches do not work on one object without each other's versions; a version that arrives late is
  allowed. `Reversible`: a hand-written rollback restores what was there; a derived one works from
  snapshots that say what the versions left. The last clause of `SnapshotsTell` excludes the derived rollback of an
  object that was removed and created again: a removal leaves no snapshot, so `LatestBefore`
  (`down_deriver.go:34`) finds the one from before it, and the rollback brings back what the history says is
  gone. It has the same cause as `relinked_trigger`. `NoAdoption`: baseline records what it does not execute. `Guarded`: the
  statements of a view begin with a guard, as the generator writes them, unless the view does not exist.
  `ExclusiveLock` is needed by the hotfix alone (see Findings).

For every set of instances and keys (`IdentityMap_proofs`): `NewTrackerOK`, `ForgetOK`,
`RegisterOK`, `RestoreOK`: the operations keep the indexes inverse to each other. `ForgetOK` and
`RestoreOK` assume that the entry's pointer is unregistered or registered with this very entry;
`register` establishes it for itself, a batch's undo does not always (`batch_undo`).

For every set of sessions, instances, keys and values and every number of statements, batches and outside
writes (`WritesAssumption`) - `SessionWrites_proofs`, both under `KeysStable`: a session that batches
neither edits keys nor sees the database give out a key again. Sessions without batching are unrestricted.

- `OneInstance`: `Spec => []OneInstancePerKey`. `SendUndone`: `Spec => FailedSendUndone`.
- The invariant is that undoing from here gives back the memory the send began with, at every moment of
  the send (`GroupInv`). It is stated about closures, as the code has them: the map does not change between
  two message ends, so every closure of one message records the memory of the last message end. `Near` and `Back` say what one
  statement may have changed and what its closure restores, `Group` that a message's closures together lead
  back to the memory of the last message end, `Reaches` that the earlier ones lead from there to the start;
  when a message ends its group moves to the earlier ones (`RebaseGroup`). Taken together the closures
  commute because no two statements of a message concern one row or one instance (`Independent`, rule 1a)
  and keys the database gives out are new (`Fits`, `Returned`).
- The other parts type the world, the queue and the message (`WorldInv`, `QueueInv`, `StatementsInv`), tie
  each phase to the transaction and journal it may have (`ControlInv`) and fix the memory at the start of
  a send (`StartInv`). `rollback` is a recursive function; what it computes is proved by a least
  counterexample.
- `KeysStable` is needed. With key edits `batch_undo` is the counterexample. With reused keys TLC finds
  the same violation: row 1 is read into p; the batch deletes row 1 by a command, inserts q (which takes
  key 1 again and displaces p's entry) and inserts p (key 2); the commit fails, and the undo restores p's
  old entry over the newer one, while key 2 stays indexed.

For every set of contexts, scopes and statements and every number of retries (`SessionAssumption`:
the model value for no transaction is not a scope) - `Session_proofs`:

- `TypeCorrect`, `NoLeaks` (`NothingLeaks`, inductive with `RetryLeft`: a wait is entered only with a
  retry left), `OwnTransaction` (`ScopeOwnsTransaction`), `AllOrNothing` (`ScopeAtomic`),
  `AlwaysEnlisted` (`EnlistmentTotal`) and `ImplementsUnits` (`RefinesUnits`). The last three assume
  `RefusesNested`: without it a late rollback takes the next scope's transaction away (see Findings). The
  others hold for either engine.
- The argument: the session's transaction is a scope that was begun and not ended (`TxInv`), and a scope
  never begun has no statements (`FreshInv`). With an engine that refuses a nested BEGIN the connection is
  inside the transaction of the one `sql.Tx` that is live (`LiveInv`), so a late ROLLBACK falls on its own
  scope's statements, or on statements executed under no scope after the session dropped it; until its
  end none of a scope's statements is durable while all that were reported are pending, so that a commit
  makes all of them durable and anything else none. A `sql.Tx` that is over refuses its statements, so a
  scope whose transaction is gone has none of them in the database either.
- The refinement: the open unit is the transaction the connection is inside; a statement in it is
  `Run`, one outside any transaction is `Alone`, the driver's commit is `Keep`, a rollback is `Lose`, a
  scope that the session ends while its unit is lost already or still to be lost is `Drop`, and all else
  stutters.

For every set of messages and single statements of either dialect, every number of calls, rejected
statements, unusable scalars and schema changes (`MessagesAssumption`: statements are what the session forms, with a
placeholder list and one of the four ways to read a result) - `StatementMessages_proofs`:

- `TypeCorrect`, `NoneUnread` (`NothingUnread`), `InOrder` (`RanInOrder`), `OwnResults`
  (`ResultsAttributed`) and `FailuresHaveCauses` (`FailuresExplained`), all from one invariant `IInv`.
- Its parts: a message is answered by exactly one end, read last (`ResponseInv`); the wire holds the
  last statements of the segment in order (`WireInv`), so `Reached`, the first statement the server
  has not come to, is a function of its length; until an error, and on PostgreSQL until a refused
  statement, everything before `Reached` has run (`RanInv`: a statement whose scalar cannot be used has
  run, and does not make the server drop the rest); the answers up to the first error are those of the statements still to be read, in
  order and without a gap (`StreamInv`), which is why taking the head of the stream for statement
  `at` is right on SQL Server too, where statements without a scalar answer nothing; so what was read
  is each statement's own (`ReadInv`); and every error on the stream has its cause (`CauseInv`).
- `TypeOK` includes that a statement on the wire sees its own values. That rests on two lemmas about
  the parameter rewrites: `PipelineSees` (numbering names by first appearance and arranging the values
  in that order gives every placeholder its own value, from `OrdinalIs`: names and numbers correspond
  one to one) and `TextSees` (with the names renamed apart no name of the joined text is declared twice
  and each is found with its own statement's value).

For every database, include list, mode, limit and interleaved write (`LoadingAssumption`) -
`Loading_proofs`: `NavigationsKept`, the action property `OtherNavigationsKept`, from `HeldInv` (the
shape of what is held) and `IncludesInv` (the navigation a query is about is one the call names).
What the queries answer plays no part in it.

For every set of tables, views, triggers and models, every number of versions and every point at which
a commit phase stops (`AuthoringAssumption`: objects are listed in sequences, versions are counted) -
`Authoring_proofs`: `AuthorsFilesKept` (the action property `HandWrittenKept`) and `DraftsReviewed`
(`DraftReviewed`). The inductive part is only that the tree has a place for every version and object and
that the Set is no larger (`TreeInv`); the argument is about one commit phase. Every operation of it writes
a planned step, removes a file of the version it amends, or removes or writes the root
(`CommitOperations`); outside an amend a planned step has no file yet (`OverwriteRefused`), and an amend
without `--force` found no file without the generator's header (`locateVersionFiles`); a root that is
written has the marker of the one it replaces (`EmitRoot`). For this the lists of objects in name order
are functions of their positions (`Listed`) and the order of new tables lists as many as there are.

Only model-checked, and why:

- Liveness (`RunsEnd`, `OpenReturns`, `CallsReturn`): fairness is outside this prover.
- `LiveMatchesHistory` and `HotfixPreserved` outside the hypotheses of their theorems, where they need
  not hold.
- `BatchAsImmediate`: it compares a reordered batch with a fold of immediate calls over the same work.
- `LoadedIsRelational`, `LoadedDuringWrites`, `DuplicatesRefused`, `CollectionsOrdered` and the types
  of `Loading`: what sorting, selecting from and folding over a sequence yield needs induction over
  the sequence through operator parameters, which the provers cannot instantiate. (Induction over a
  recursive function is possible: a least counterexample, by the well-foundedness of `<`. The undo of a
  batch, `rollback`, is proved about in this way.)
- Everything about `UnitOfWork`, whose cascades, cancel and ranks are RECURSIVE operators, and of
  `Authoring` all that is about what a step does (`GeneratedReachesModel`, `ShadowRecords`,
  `SyncReachesModel`, `UnchangedIsValid`): replays and generated steps are folds.

## Findings

With a run that shows them:

1. `batch_undo` - `restore` (`tracker.go:103`) leaves a newer entry of the same pointer in the key
   index when a batch with a delete by key and an insert of the same instance is undone.
2. `cancel_cycle` - inserts of a cancelled owner that cascade to each other stay scheduled
   (`unit_of_work.go:339`), although the comment at 322 says the cancel is transitive.
3. `generated_step` - a generated step that removes a column and the index over it drops the column
   first (`migration_generator.go:367`, `:373`); SQLite and SQL Server refuse it. The derived rollback
   was given the other order for that reason (`down_deriver.go:123`).
4. `relinked_trigger` - a trigger removed by a generated step and linked again is compared with the
   snapshot from before its removal (`diff_command.go:182`): no change is found, it stays missing.

Met while modelling, and built into the models as the code has them:

- `validateHistory` (`migration_runner.go:466-477`) compares recorded versions with the plan's versions
  only; a recorded object the build does not compose passes, although `spec/migrations.md:82-83` makes
  unknown rows `MIG-011`. `Status` does report it as unknown.
- Guard and statement are two steps (`migration_runner.go:591`); with an advisory run lock a view
  changed in between is destroyed, although `spec/migrations.md:291-293` says it is preserved. The
  `main` run therefore checks `HotfixPreserved` under the exclusive lock.
- With SQLite's reused rowids, rule 1a does not see that an insert of the message takes a key the
  session still holds (`batching.go:154`); the batch accepts what the immediate call refuses
  (`spec/session.md:304-305`). The session with reused keys has batching off.
- `Persist`, `Insert`, `Remove`, `Flush`: `Remove` cancels the insert that was already written and the
  row stays (`unit_of_work.go:272`, `spec/unit-of-work.md:48`, `:71-74`). `FlushRealizesIntent` leaves
  out instances written immediately since the last flush.
- A force sync of an index that is redefined under its own name plans `create index if not exists`
  (`schema_sync.go:125`, `sqlite/dialect.go:245`), which does nothing because the name is taken, then drops
  the old index by that name (`schema_sync.go:130`) and reports success (`cli.go:292-306`): the table is
  left without the index, although `spec/migrations.md:281-283` says a missing one is created. A derived
  name tells neither uniqueness nor direction (`spec/metadata-model.md:180-181`), so making an index unique
  is enough. The models have such a change; `SyncReachesModel` leaves the tables out where the live index
  and the model's have one name, other definitions and columns that stay (`RedefinesIndex`).
- A scope whose context ended is dropped by `Commit` or `Rollback` while the ROLLBACK of `database/sql` is
  still to come, and the next `Begin` sends its BEGIN on the same connection (`db.go:175`). SQLite refuses
  it. An engine that accepts it lets the new scope join the old transaction; the late ROLLBACK then ends
  that, and what the new scope executes afterwards commits statement by statement, although
  `spec/session.md:128-129` says that enlistment is total and `:133-134` that an uncommitted transaction is
  never silently committed. With `RefusesNested = FALSE` TLC finds this trace as a violation of
  `EnlistmentTotal`, and one of `ScopeAtomic`. Whether it happens on PostgreSQL and SQL Server also depends on the driver,
  which may sever a connection it rolls back under an ended context.
- A view entity that gains a field without new SQL gives a silent diff (`diff_command.go:239-262`
  compares the SQL) and fails `validate` with VAL-013 (`schema_guard.go:376-384`). `UnchangedIsValid`
  therefore assumes that the SQL of a mapped view selects the fields of its entity.
- A trigger's snapshot stays where a later replay finds that the version drops the trigger
  (`shadow.go:282-284`); `ShadowRecords` speaks of what a version composes and does not drop.
- Join mode leaves a to-one navigation of a tracked root as it was when no row matches
  (`db_eager_join.go:554-558`), where the other modes set it to nil; and a limit may cut off the second
  row of a drifted one-to-one, which the other modes refuse (`db_eager_join.go:109`,
  `spec/loading.md:91-93`). `LoadedIsRelational` and `DuplicatesRefused` except exactly these.

## Abstractions

`Authoring`: one dialect; one step file per version and object; a trigger that moves to another
relation (refused by the code) does not occur; snapshot and shadow writes succeed (a shadow replay
may fail in the database); what a view's columns are follows from its SQL (`Selects`), not from the
columns of its tables; a materialized view is a view; a column renamed onto an existing one and two
indexes that swap their names are not among the models; `validate` only reads and is the operator
`Valid`. `MigrationPlan`: a column is an identity that survives a rename, so inverted renames leave no
trace; indexes are part of `SchemaDiff`'s shapes, not of these; a rollback of a table that derives no
statement is one that changes nothing. `MigrationRunner`: builds compose the same objects for one version (`SameObjects`), and
`StatusForetells` compares status and migrate on one committed history, so what Status reads while a
run commits is that history before or after. `Session`: after the driver's own rollback the connection
stays usable; `database/sql`, or the driver, may discard it instead, after which statements fail, and
failing is an outcome of every statement here. With `RefusesNested` FALSE a COMMIT ends the joined
transaction, as in PostgreSQL; that SQL Server counts nested BEGINs is not modelled. Rows may be open when the session closes: the deadline
is then released when the caller closes them. `StatementMessages`: the binder has matched placeholders and
arguments, so `arrange` never refuses; the three ways a scalar cannot be used (no row, no column, not an
integer) are one; where `QueryContext` itself fails, draining is the driver's; the server does not
refuse statements of an aborted transaction, which leaves more for the client to get right.
`SessionWrites`: the clock does not move during a call. `Loading`: a key has one part, a link row a key of
its own; the engine's other order is the opposite one. `UnitOfWork`: one key counter for all types.

## Not modelled

Rendering, metadata, parameter binding and value conversion are computations on types and text
without state between calls; conformance cases compare their output and a model would repeat the
code. That includes the DDL and type mapping of the three dialects, the attribute and fluent maps,
canonical JSON of snapshots, and the schema guard's checks of registered SQL. Natural and composite
keys, the created-at stamp, the by-key soft delete of unversioned types and the width of version
columns are left out of `SessionWrites`; a flush inside the caller's transaction out of `UnitOfWork`;
argument parsing, output and `init` of the command line out of `Authoring`. The C# and PHP
implementations are not modelled.

## Plan

Done: runner, plan and status; identity map, writes, hooks and batches; unit of work with type
ranks; session; loading; authoring; dialect messages.

Proved: the runner's history and status, the agreement of history and schema and the survival of hotfixes
for traceable plans, the operations of the identity map, its consistency and the undo
of a failed batch in every session with stable keys, all safety properties
of `Session` (the refinement included) and of `StatementMessages`, that a load writes only what it
names, and that a diff keeps the author's files and drafts.

Left, proofs:
1. `BatchAsImmediate`: that the statements of a message commute is in the lemmas of `SessionWrites_proofs`;
   what is missing is that sorting a batch into messages only exchanges statements that commute.
2. `UnitOfWork` with the cascade and cancel walks as recursive functions instead of RECURSIVE operators.
3. That what `diff` generates is traceable: `Authoring` and `MigrationPlan` would have to share one notion
   of step.
