---------------------------- MODULE SessionWrites ----------------------------
(***************************************************************************)
(* The generated writes of a tracked session (go/orm/db_crud.go, db_write  *)
(* .go, batching.go, batch.go, tracking.go, db_detach_merge.go): every     *)
(* write is prepared, executed and completed; an immediate call runs the   *)
(* three steps back to back, a batch prepares several statements, sends    *)
(* them as one message and completes them afterwards, and a failed batch   *)
(* undoes in memory what it did.                                           *)
(*                                                                         *)
(* One entity type with a database-generated key, a version column and one *)
(* data column; with the hooks of db_hooks.go also a soft-delete flag and  *)
(* an updated-at stamp, which preparing a statement sets on the instance.  *)
(* A session is one connection used by one thread; other sessions change   *)
(* rows between its transactions.                                          *)
(***************************************************************************)
EXTENDS IdentityMap, SequencesExt

CONSTANTS
    Vals,           \* values of the data column
    NoRow,          \* a key without a row
    NoPtr,          \* the instance of an operation that has none
    Seed,           \* the row every key of SeedKeys holds at first
    SeedKeys,       \* keys stored before the session opens
    Limit,          \* MaxStatementsPerMessage
    Sessions        \* the sessions to look at: their options and the dialect's, and the bounds

ASSUME WritesAssumption ==
    /\ IsFiniteSet(Keys) /\ Keys = 1 .. Cardinality(Keys)
    /\ SeedKeys \subseteq Keys /\ SeedKeys = 1 .. Cardinality(SeedKeys)
    /\ Seed \in [ver: Nat, val: Vals, del: {FALSE}, stamp: {0}]
    /\ Limit \in Nat \ {0}
    /\ NoPtr \notin Ptrs

VARIABLES
    session,   \* one of Sessions
    obj,       \* the instances: key (0: unset), version, value, soft-delete flag, updated-at stamp
    born,      \* instances the application holds
    tr,        \* the identity map
    table,     \* the rows, as the session's connection sees them
    lastKey,   \* the largest key generated so far: the identity counter
    tx,        \* whose transaction is open: none, the caller's, the call's own
    saved,     \* the rows when it was opened
    phase,     \* where a batch send is
    after,     \* where it goes once the message in progress is complete
    ops,       \* the operations it has taken from the queue
    held,      \* a prepared statement not yet in the message
    message,   \* the statements of the message in progress
    results,   \* what the statements that ran returned
    done,      \* how many of them are completed
    journal,   \* undoJournal
    start,     \* the state when the call began
    result,    \* outcome of the last call
    steps      \* application and outside steps (bounds the model)

AutoBatching == "auto" \in session.options             \* Options.Batching = Auto
OneRoundTrip == "oneRoundTrip" \in session.options     \* the dialect sends a message itself (StatementBatcher)
ParameterCap == "parameterCap" \in session.options     \* the dialect caps the parameters of a message
ReportsCounts == "reportsCounts" \in session.options   \* ReportsAffectedRowsBySelect
KeyReuse == "keyReuse" \in session.options             \* a generated key is the largest key plus one (SQLite's rowid)
Hooks == "hooks" \in session.options                   \* the type has the [SoftDelete] and [UpdatedAt] columns
KeyEdits == "keyEdits" \in session.options             \* the application assigns the key fields of instances it holds

MaxSteps == session.steps                              \* bound: application and outside steps
MaxOps == session.ops                                  \* bound: operations in a batch

memory == <<obj, born, tr>>
data   == <<table, lastKey>>
plan   == <<phase, after, ops, held, message, results, done, journal, start>>
vars   == <<session, obj, born, tr, table, lastKey, tx, saved, phase, after, ops, held,
            message, results, done, journal, start, result, steps>>

\* The session clock: it does not move during a call.
now == steps

\* An instance with key k that holds the row's values.
Holding(k, row) == [key |-> k, ver |-> row.ver, val |-> row.val, del |-> row.del, stamp |-> row.stamp]

New == Holding(0, Seed)

Start(o, t, tb, last) == [obj |-> o, tr |-> t, table |-> tb, lastKey |-> last, code |-> "ok"]

Init ==
    /\ session \in Sessions
    /\ obj = [p \in Ptrs |-> New]
    /\ born = {}
    /\ tr = newTracker
    /\ table = [k \in Keys |-> IF k \in SeedKeys THEN Seed ELSE NoRow]
    /\ lastKey = Cardinality(SeedKeys)
    /\ tx = "none"
    /\ saved = table
    /\ phase = "idle" /\ after = "idle"
    /\ ops = <<>> /\ held = <<>> /\ message = <<>> /\ results = <<>> /\ done = 0
    /\ journal = <<>>
    /\ start = Start(obj, tr, table, lastKey)
    /\ result = "ok"
    /\ steps = 0

-----------------------------------------------------------------------------
(* The operations a caller can ask for, and the three steps of each. *)

Operation == [kind: {"insert", "update", "updateOnly", "delete"}, ptr: Ptrs, key: {0}]
       \cup  [kind: {"deleteByKey", "command"}, ptr: {NoPtr}, key: Keys]

\* The operations on instances the application holds and keys it can know.
Available == {op \in Operation : op.ptr \in born \cup {NoPtr} /\ op.key \in 0 .. lastKey}

\* writeIdentity: the instance must be the session's instance for its key.
UOW002(o, t, p) ==
    LET e == t.byPtr[p] IN
    IF e # Nil THEN t.entries[e].key # o[p].key ELSE find(t, o[p].key) # Nil

Columns == {"val", "del"}

Snapshot(o, p) == [ver |-> o[p].ver, val |-> o[p].val, del |-> o[p].del, stamp |-> o[p].stamp]

\* The columns a statement sets: the clock joins the caller's.
stampSet(set) == IF Hooks THEN set \cup {"stamp"} ELSE set

Updates == {"update", "updateOnly", "softDelete"}

\* The instance once a statement on it is prepared: the clock and the flag are already on it.
Prepared(kind, i) ==
    LET stamped == IF Hooks /\ kind \in Updates THEN [i EXCEPT !.stamp = now] ELSE i
    IN  IF kind = "softDelete" THEN [stamped EXCEPT !.del = TRUE] ELSE stamped

\* The statement of an operation on p, with the columns it sets, the values it binds now and the
\* entry its completion will use.
Bound(kind, set, o, t, p) ==
    LET i == Prepared(kind, o[p])
    IN  [kind |-> kind, ptr |-> p, key |-> i.key, ver |-> i.ver, val |-> i.val, del |-> i.del,
         stamp |-> i.stamp, set |-> stampSet(set), entry |-> t.byPtr[p]]

RefusedFor(o, t, p) == Bound("refused", {}, o, t, p)

\* A statement about a key, with no instance.
Keyed(kind, k) ==
    [kind |-> kind, ptr |-> NoPtr, key |-> k, ver |-> 0, val |-> Seed.val, del |-> FALSE, stamp |-> 0,
     set |-> {}, entry |-> Nil]

\* A generated key has nothing to check yet, whatever the instance holds.
prepareInsert(o, t, p) == Bound("insert", Columns, o, t, p)

\* The columns of a tracked instance that differ from its snapshot; none, no statement.  A stamp
\* alone never is a change.
prepareTrackedUpdate(o, t, p) ==
    LET changed == {c \in Columns : t.snap[t.byPtr[p]][c] # o[p][c]}
    IN  Bound(IF changed = {} THEN "none" ELSE "update", changed, o, t, p)

\* The whole row of an instance the session does not know.
prepareUpdate(o, t, p) ==
    IF UOW002(o, t, p) THEN RefusedFor(o, t, p)
    ELSE IF t.byPtr[p] # Nil THEN prepareTrackedUpdate(o, t, p)
    ELSE Bound("update", Columns, o, t, p)

prepareUpdateOnly(o, t, p) ==
    IF UOW002(o, t, p) THEN RefusedFor(o, t, p) ELSE Bound("updateOnly", {"val"}, o, t, p)

\* The delete of a type with a flag is the update that sets it.
prepareSoftDeleteEntity(o, t, p) == Bound("softDelete", {"del"}, o, t, p)

prepareDeleteEntity(o, t, p) ==
    IF UOW002(o, t, p) THEN RefusedFor(o, t, p)
    ELSE IF Hooks THEN prepareSoftDeleteEntity(o, t, p)
    ELSE Bound("delete", {}, o, t, p)

\* By key the version cannot be bumped, so a soft delete is refused.
prepareDeleteByKey(k) == Keyed(IF Hooks THEN "refused" ELSE "deleteByKey", k)

RefusalCode(op) == IF op.kind = "deleteByKey" THEN "CRUD-012" ELSE "UOW-002"

\* A registry command: SQL the session knows nothing about, here one that deletes a row.
BatchExecute(k) == Keyed("command", k)

\* The prepare step of an operation: a statement, none, or a refusal before any SQL.
prepare(o, t, op) ==
    CASE op.kind = "insert"      -> prepareInsert(o, t, op.ptr)
      [] op.kind = "update"      -> prepareUpdate(o, t, op.ptr)
      [] op.kind = "updateOnly"  -> prepareUpdateOnly(o, t, op.ptr)
      [] op.kind = "delete"      -> prepareDeleteEntity(o, t, op.ptr)
      [] op.kind = "deleteByKey" -> prepareDeleteByKey(op.key)
      [] op.kind = "command"     -> BatchExecute(op.key)

\* The key the database generates next; 0 when the model's keys are used up.
NextKey(tb, last) ==
    LET used == {k \in Keys : tb[k] # NoRow}
        next == 1 + (IF KeyReuse THEN Max(used \cup {0}) ELSE last)
    IN  IF next \in Keys THEN next ELSE 0

\* The rows a keyed statement matches: updates and entity deletes also require
\* the version they know.
Matches(tb, w) ==
    /\ w.key \in Keys
    /\ tb[w.key] # NoRow
    /\ w.kind \in Updates \cup {"delete"} => tb[w.key].ver = w.ver

\* A row, or a snapshot, with a version and the columns `set` of what `from` holds.
Written(row, set, from, ver) ==
    [ver   |-> ver,
     val   |-> IF "val" \in set THEN from.val ELSE row.val,
     del   |-> IF "del" \in set THEN from.del ELSE row.del,
     stamp |-> IF "stamp" \in set THEN from.stamp ELSE row.stamp]

\* The statement runs in the database.
execute(tb, last, w) ==
    LET key == NextKey(tb, last)
        hit == Matches(tb, w)
    IN  CASE w.kind = "insert" ->
               [table |-> [tb EXCEPT ![key] = [ver |-> w.ver, val |-> w.val, del |-> w.del, stamp |-> w.stamp]],
                lastKey |-> Max({last, key}), key |-> key, affected |-> 1]
          [] w.kind \in Updates ->
               [table |-> IF hit THEN [tb EXCEPT ![w.key] = Written(@, w.set, w, w.ver + 1)] ELSE tb,
                lastKey |-> last, key |-> 0, affected |-> IF hit THEN 1 ELSE 0]
          [] OTHER ->
               [table |-> IF hit THEN [tb EXCEPT ![w.key] = NoRow] ELSE tb,
                lastKey |-> last, key |-> 0, affected |-> IF hit THEN 1 ELSE 0]

\* The database can run it: an insert needs a free key of the model.
Executable(tb, last, w) == w.kind = "insert" => NextKey(tb, last) # 0

\* The rule that judges the affected count: zero rows fail a generated write.
judge(w, r) ==
    IF r.affected > 0 \/ w.kind \in {"insert", "command"} THEN "ok"
    ELSE IF w.kind = "deleteByKey" THEN "CRUD-001" ELSE "CRUD-010"

\* The entry a registration under k displaces, other than p's own.
Displaced(t, p, k) ==
    LET holder == find(t, k) IN
    IF holder # Nil /\ t.entries[holder].ptr # p THEN <<holder>> ELSE <<>>

\* What a completion does to the map, and the entries its undo must put back.
trackJournaled(o, t, p) ==
    [tr |-> register(t, p, o[p].key, Snapshot(o, p)), undo |-> Displaced(t, p, o[p].key)]

forgetEntryJournaled(t, e) == [tr |-> forgetIfAny(t, e), undo |-> IF e = Nil THEN <<>> ELSE <<e>>]

forgetKeyJournaled(t, k) == forgetEntryJournaled(t, find(t, k))

\* The written columns and the version move, as the instance holds them now.
resnapshot(o, t, w) ==
    [tr |-> IF w.entry = Nil THEN t
            ELSE [t EXCEPT !.snap[w.entry] = Written(@, w.set, o[w.ptr], o[w.ptr].ver)],
     undo |-> <<>>]

\* The completion of a statement that passed its judge: a generated key is written
\* back, a version is bumped, and the map follows.
finish(o, t, w, r) ==
    LET o1 == CASE w.kind = "insert" -> [o EXCEPT ![w.ptr].key = r.key]
                [] w.kind \in Updates -> [o EXCEPT ![w.ptr].ver = @ + 1]
                [] OTHER -> o
        map == CASE w.kind = "insert" \/ (w.kind = "update" /\ w.entry = Nil) -> trackJournaled(o1, t, w.ptr)
                 [] w.kind = "updateOnly" \/ (w.kind = "update" /\ w.entry # Nil) ->
                      resnapshot(o1, t, w)
                 [] w.kind \in {"delete", "softDelete"} -> forgetEntryJournaled(t, w.entry)
                 [] w.kind = "deleteByKey" -> forgetKeyJournaled(t, w.key)
                 [] w.kind = "command"     -> [tr |-> t, undo |-> <<>>]
    IN  [obj |-> o1, tr |-> map.tr, undo |-> map.undo]

\* The instances once w is prepared.
Marked(o, w) == IF w.ptr = NoPtr THEN o ELSE [o EXCEPT ![w.ptr] = Prepared(w.kind, @)]

\* runImmediate: the three steps back to back; when the statement fails undoPrepare takes the stamp and
\* the flag off again.
Immediate(s, op) ==
    LET w == prepare(s.obj, s.tr, op)
        r == execute(s.table, s.lastKey, w)
        f == finish(Marked(s.obj, w), s.tr, w, r)
    IN  IF s.code # "ok" THEN s
        ELSE IF w.kind = "refused" THEN [s EXCEPT !.code = RefusalCode(op)]
        ELSE IF w.kind = "none" THEN s
        ELSE IF judge(w, r) # "ok" THEN [s EXCEPT !.code = judge(w, r)]
        ELSE [s EXCEPT !.obj = f.obj, !.tr = f.tr, !.table = r.table, !.lastKey = r.lastKey]

-----------------------------------------------------------------------------
(* The application between calls, and everybody else. *)

Step ==
    /\ phase = "idle"
    /\ steps < MaxSteps
    /\ steps' = steps + 1

\* The application makes a new instance.
Make(p) ==
    /\ Step
    /\ p \notin born
    /\ born' = born \cup {p}
    /\ UNCHANGED <<session, obj, tr, data, tx, saved, plan, result>>

\* It changes a value, or the key, of an instance it holds: to unset, or to one
\* some row has had.
Edit(p) ==
    /\ Step
    /\ p \in born
    /\ \/ \E v \in Vals \ {obj[p].val} : obj' = [obj EXCEPT ![p].val = v]
       \/ KeyEdits /\ \E k \in (0 .. lastKey) \ {obj[p].key} : obj' = [obj EXCEPT ![p].key = k]
    /\ UNCHANGED <<session, born, tr, data, tx, saved, plan, result>>

\* The instance a row of key k is materialized into when k is not tracked.
Materialize(p, k) ==
    /\ obj' = [obj EXCEPT ![p] = Holding(k, table[k])]
    /\ born' = born \cup {p}
    /\ tr' = register(tr, p, k, table[k])

\* A read of a row (resolveRow): the tracked instance wins, an unknown key
\* registers the fresh one.
Read(k) ==
    /\ Step
    /\ table[k] # NoRow
    /\ IF find(tr, k) # Nil THEN UNCHANGED memory
       ELSE \E p \in Ptrs \ born : Materialize(p, k)
    /\ result' = "ok"
    /\ UNCHANGED <<session, data, tx, saved, plan>>

\* Refresh: the row overwrites the instance; an unknown instance stays unknown.
Refresh(p) ==
    /\ Step
    /\ p \in born
    /\ LET k == obj[p].key
           row == IF k \in Keys THEN table[k] ELSE NoRow
           code == IF UOW002(obj, tr, p) THEN "UOW-002" ELSE IF row = NoRow THEN "CRUD-001" ELSE "ok"
       IN  /\ result' = code
           /\ IF code # "ok" THEN UNCHANGED <<obj, tr>>
              ELSE /\ obj' = [obj EXCEPT ![p] = Holding(k, row)]
                   /\ tr' = IF tr.byPtr[p] = Nil THEN tr ELSE [tr EXCEPT !.snap[tr.byPtr[p]] = row]
    /\ UNCHANGED <<session, born, data, tx, saved, plan>>

\* Detach: the session forgets the instance, by instance and never by key.
Detach(p) ==
    /\ Step
    /\ p \in born
    /\ tr.byPtr[p] # Nil
    /\ tr' = forget(tr, tr.byPtr[p])
    /\ result' = "ok"
    /\ UNCHANGED <<session, obj, born, data, tx, saved, plan>>

\* Merge: the copy's version and values move onto the session's instance for its
\* key, which is read now if the key is unknown.
Merge(p) ==
    /\ Step
    /\ p \in born
    /\ tr.byPtr[p] = Nil
    /\ obj[p].key \in Keys
    /\ LET k == obj[p].key
           holder == find(tr, k)
       IN  IF holder # Nil
           THEN /\ LET q == tr.entries[holder].ptr IN
                     obj' = [obj EXCEPT ![q] = Holding(obj[q].key, obj[p])]
                /\ result' = "ok"
                /\ UNCHANGED <<born, tr>>
           ELSE IF table[k] = NoRow THEN result' = "CRUD-001" /\ UNCHANGED memory
           ELSE \E q \in Ptrs \ born :
                  /\ obj' = [obj EXCEPT ![q] = obj[p]]
                  /\ born' = born \cup {q}
                  /\ tr' = register(tr, q, k, table[k])
                  /\ result' = "ok"
    /\ UNCHANGED <<session, data, tx, saved, plan>>

\* Insert, Update, UpdateOnly, DeleteEntity, Delete and Execute.
ImmediateCall(op) ==
    /\ Step
    /\ Executable(table, lastKey, prepare(obj, tr, op))
    /\ LET s == Immediate(Start(obj, tr, table, lastKey), op) IN
         /\ obj' = s.obj /\ tr' = s.tr /\ table' = s.table /\ lastKey' = s.lastKey
         /\ result' = s.code
    /\ UNCHANGED <<session, born, tx, saved, plan>>

\* The caller's transaction scope. A rollback reverts the rows, never the map.
Begin ==
    /\ Step
    /\ tx = "none"
    /\ tx' = "caller" /\ saved' = table
    /\ UNCHANGED <<session, memory, data, plan, result>>

Commit ==
    /\ Step
    /\ tx = "caller"
    /\ tx' = "none"
    /\ UNCHANGED <<session, memory, data, saved, plan, result>>

Rollback ==
    /\ Step
    /\ tx = "caller"
    /\ tx' = "none" /\ table' = saved
    /\ UNCHANGED <<session, memory, lastKey, saved, plan, result>>

\* Another session deletes or updates a row.
Outside(k) ==
    /\ Step
    /\ tx = "none"
    /\ table[k] # NoRow
    /\ \/ table' = [table EXCEPT ![k] = NoRow]
       \/ \E v \in Vals : table' = [table EXCEPT ![k] = [ver |-> @.ver + 1, val |-> v, del |-> @.del, stamp |-> @.stamp]]
    /\ UNCHANGED <<session, memory, lastKey, tx, saved, plan, result>>

-----------------------------------------------------------------------------
(* The undo journal. *)

\* recordWrite: what an operation on p can change, captured before it prepares.
recordWrite(p) ==
    LET e == tr.byPtr[p] IN
    [kind |-> "write", ptr |-> p, key |-> obj[p].key, ver |-> obj[p].ver, del |-> obj[p].del,
     stamp |-> obj[p].stamp, entry |-> e, snap |-> IF e = Nil THEN Seed ELSE tr.snap[e], holder |-> find(tr, obj[p].key)]

\* The closure a completion adds for an entry it dropped.
restoreLater(e) ==
    [kind |-> "restore", ptr |-> NoPtr, key |-> 0, ver |-> 0, del |-> FALSE, stamp |-> 0, entry |-> e,
     snap |-> Seed, holder |-> Nil]

\* One closure run against the memory m.
undoOne(j, m) ==
    LET o1 == [m.obj EXCEPT ![j.ptr] = [@ EXCEPT !.key = j.key, !.ver = j.ver, !.del = j.del, !.stamp = j.stamp]]
        current == m.tr.byPtr[j.ptr]
        t1 == IF current = j.entry THEN m.tr ELSE forgetIfAny(m.tr, current)
        t2 == IF j.entry = Nil THEN t1 ELSE restore([t1 EXCEPT !.snap[j.entry] = j.snap], j.entry)
        t3 == IF j.holder \in {Nil, j.entry} THEN t2 ELSE restore(t2, j.holder)
    IN  IF j.kind = "restore" THEN [m EXCEPT !.tr = restore(m.tr, j.entry)]
        ELSE [obj |-> o1, tr |-> t3]

\* Mutant of rollback: the closures run in the order they were recorded.
rollbackInOrder(closures, n, m) == FoldLeft(LAMBDA acc, j : undoOne(j, acc), m, SubSeq(closures, 1, n))

\* rollback: the first n closures run against the memory m, last in first out; left[i] is the memory
\* with i of them left to run.
rollback(closures, n, m) ==
    LET left[i \in 0 .. n] == IF i = n THEN m ELSE undoOne(closures[i + 1], left[i + 1])
    IN  left[0]

Undone == rollback(journal, Len(journal), [obj |-> obj, tr |-> tr])

-----------------------------------------------------------------------------
(* Batch.Send. *)

\* The call begins, in the caller's transaction or in one of its own.
Send ==
    /\ Step
    /\ phase' = "next"
    /\ IF tx = "none" THEN tx' = "call" /\ saved' = table ELSE UNCHANGED <<tx, saved>>
    /\ start' = Start(obj, tr, table, lastKey)
    /\ ops' = <<>> /\ journal' = <<>>
    /\ UNCHANGED <<session, memory, data, after, held, message, results, done, result>>

\* keyNow: the set key an operation is about.
keyNow(op) == IF op.ptr = NoPtr THEN IF op.kind = "command" THEN 0 ELSE op.key ELSE obj[op.ptr].key

\* Mutant of DependsOnMessage: keys are not compared.
SameInstanceOnly(op) == \E i \in DOMAIN message : op.ptr # NoPtr /\ message[i].ptr = op.ptr

\* Rule 1a: the message holds a statement on the same instance, or on the same
\* set key, as it was prepared.
DependsOnMessage(op) ==
    \E i \in DOMAIN message :
        \/ op.ptr # NoPtr /\ message[i].ptr = op.ptr
        \/ keyNow(op) # 0 /\ message[i].kind # "command" /\ message[i].key = keyNow(op)

\* before: the next operation is taken from the queue; a message it depends on
\* goes out before it prepares.
Take(op) ==
    /\ phase = "next"
    /\ Len(ops) < MaxOps
    /\ ops' = Append(ops, op)
    /\ IF DependsOnMessage(op) THEN phase' = "send" /\ after' = "prepare"
       ELSE phase' = "prepare" /\ after' = after
    /\ UNCHANGED <<session, memory, data, tx, saved, held, message, results, done, journal, start, result, steps>>

\* What a call leaves behind when it returns: nothing of its own.
EndCall ==
    /\ after' = "idle" /\ ops' = <<>> /\ journal' = <<>>
    /\ start' = Start(obj', tr', table', lastKey')

\* The call fails as a whole: the journal undoes its effects in memory and its
\* own transaction rolls back.
Fail(code) ==
    /\ obj' = Undone.obj /\ tr' = Undone.tr
    /\ IF tx = "call" THEN tx' = "none" /\ table' = saved ELSE UNCHANGED <<tx, table>>
    /\ phase' = "idle" /\ result' = code
    /\ held' = <<>> /\ message' = <<>> /\ results' = <<>> /\ done' = 0
    /\ UNCHANGED <<session, born, lastKey, saved, steps>>
    /\ EndCall

\* recordWrite, then the operation's prepare step.
Prepare ==
    /\ phase = "prepare"
    /\ LET op == Last(ops)
           w == prepare(obj, tr, op)
       IN  /\ w.kind # "refused"
           /\ journal' = IF op.ptr = NoPtr THEN journal ELSE Append(journal, recordWrite(op.ptr))
           /\ obj' = Marked(obj, w)
           /\ IF w.kind = "none" THEN phase' = "next" /\ held' = held
              ELSE phase' = "add" /\ held' = <<w>>
    /\ UNCHANGED <<session, born, tr, data, tx, saved, after, ops, message, results, done, start, result, steps>>

PrepareRefused ==
    /\ phase = "prepare"
    /\ prepare(obj, tr, Last(ops)).kind = "refused"
    /\ Fail(RefusalCode(Last(ops)))

\* readsResult: a generated key, or a count the dialect reports by a select.
readsResult(w) == w.kind = "insert" \/ (ReportsCounts /\ w.kind # "command")

\* Rule 2: a statement whose result is read never shares a message with a registry
\* command ahead of it.
BehindCommand == readsResult(held[1]) /\ \E i \in DOMAIN message : message[i].kind = "command"

\* The message goes out without the statement: rule 2, or rule 3's parameter cap.
Overflow ==
    /\ phase = "add"
    /\ message # <<>>
    /\ BehindCommand \/ ParameterCap
    /\ phase' = "send" /\ after' = "add"
    /\ UNCHANGED <<session, memory, data, tx, saved, ops, held, message, results, done, journal, start, result, steps>>

\* add: the statement joins the message, which goes out once it is full.
Add ==
    /\ phase = "add"
    /\ ~BehindCommand
    /\ message' = Append(message, held[1]) /\ held' = <<>>
    /\ IF AutoBatching /\ Len(message) + 1 < Limit THEN phase' = "next" /\ after' = after
       ELSE phase' = "send" /\ after' = "next"
    /\ UNCHANGED <<session, memory, data, tx, saved, ops, results, done, journal, start, result, steps>>

\* The queue is exhausted: what is left of the plan goes out.
Drain ==
    /\ phase = "next"
    /\ ops # <<>>
    /\ IF message = <<>> THEN phase' = "commit" /\ after' = after
       ELSE phase' = "send" /\ after' = "commit"
    /\ UNCHANGED <<session, memory, data, tx, saved, ops, held, message, results, done, journal, start, result, steps>>

\* A statement of the message runs. In one round trip all of them run before the
\* first is completed; otherwise each is completed before the next runs.
Running == phase = "send" /\ Len(results) < Len(message) /\ (OneRoundTrip \/ done = Len(results))

Execute ==
    /\ Running
    /\ LET w == message[Len(results) + 1]
           r == execute(table, lastKey, w)
       IN  /\ Executable(table, lastKey, w)
           /\ table' = r.table /\ lastKey' = r.lastKey
           /\ results' = Append(results, [key |-> r.key, affected |-> r.affected])
    /\ UNCHANGED <<session, memory, tx, saved, phase, after, ops, held, message, done, journal, start, result, steps>>

\* The driver reports an error, or the context ends.
ExecuteFails == Running /\ Fail("driver")

\* complete: the next result is judged and applied.
Completing == phase = "send" /\ done < Len(results) /\ (OneRoundTrip => Len(results) = Len(message))

\* Mutant of Complete: the affected count of a delete is not judged.
CompleteUnjudged ==
    /\ Completing
    /\ message[done + 1].kind # "delete" => judge(message[done + 1], results[done + 1]) = "ok"
    /\ LET f == finish(obj, tr, message[done + 1], results[done + 1]) IN
         /\ obj' = f.obj /\ tr' = f.tr
         /\ journal' = journal \o [i \in DOMAIN f.undo |-> restoreLater(f.undo[i])]
    /\ IF done + 1 = Len(message)
       THEN phase' = after /\ message' = <<>> /\ results' = <<>> /\ done' = 0
       ELSE done' = done + 1 /\ UNCHANGED <<phase, message, results>>
    /\ UNCHANGED <<session, born, data, tx, saved, after, ops, held, start, result, steps>>

Complete ==
    /\ Completing
    /\ LET w == message[done + 1]
           r == results[done + 1]
           f == finish(obj, tr, w, r)
       IN  /\ judge(w, r) = "ok"
           /\ obj' = f.obj /\ tr' = f.tr
           /\ journal' = journal \o [i \in DOMAIN f.undo |-> restoreLater(f.undo[i])]
    /\ IF done + 1 = Len(message)
       THEN phase' = after /\ message' = <<>> /\ results' = <<>> /\ done' = 0
       ELSE done' = done + 1 /\ UNCHANGED <<phase, message, results>>
    /\ UNCHANGED <<session, born, data, tx, saved, after, ops, held, start, result, steps>>

CompleteRefused ==
    /\ Completing
    /\ judge(message[done + 1], results[done + 1]) # "ok"
    /\ Fail(judge(message[done + 1], results[done + 1]))

\* The call's own transaction commits; the caller's is left open.
CommitCall ==
    /\ phase = "commit"
    /\ tx' = IF tx = "call" THEN "none" ELSE tx
    /\ phase' = "idle" /\ result' = "ok"
    /\ UNCHANGED <<session, memory, data, saved, held, message, results, done, steps>>
    /\ EndCall

\* The commit reports an error, whether or not the database committed.
CommitFails ==
    /\ phase = "commit"
    /\ tx = "call" /\ tx' = "none"
    /\ table' \in {table, saved}
    /\ obj' = Undone.obj /\ tr' = Undone.tr
    /\ phase' = "idle" /\ result' = "commit"
    /\ UNCHANGED <<session, born, lastKey, saved, held, message, results, done, steps>>
    /\ EndCall

Next ==
    \/ \E p \in Ptrs : Make(p) \/ Edit(p) \/ Refresh(p) \/ Detach(p) \/ Merge(p)
    \/ \E k \in Keys : Read(k) \/ Outside(k)
    \/ \E op \in Available : ImmediateCall(op) \/ Take(op)
    \/ Begin \/ Commit \/ Rollback
    \/ Send \/ Prepare \/ PrepareRefused \/ Overflow \/ Add \/ Drain
    \/ Execute \/ ExecuteFails \/ Complete \/ CompleteRefused
    \/ CommitCall \/ CommitFails

Spec == Init /\ [][Next]_vars

-----------------------------------------------------------------------------
(* Properties. *)

\* One instance per key and one key per instance, after any sequence of reads,
\* writes, displaced holders, detaches, merges and undone batches.
OneInstancePerKey == MapOK(tr)

\* batch.go: "A failed send undoes every in-memory effect of every statement it
\* prepared". Keys, versions, tracking and snapshots are as before the call, and a
\* call in its own transaction that failed before its commit left no row behind.
FailedSendUndone ==
    [][phase # "idle" /\ phase' = "idle" /\ result' # "ok" =>
          /\ obj' = start.obj
          /\ View(tr') = View(start.tr)
          /\ tx = "call" /\ result' # "commit" => table' = start.table]_vars

\* spec/session.md: each operation of a batch "behaves exactly as its immediate call
\* would at that point of the sequence". A batch about to commit has done to the
\* instances, the map and the rows what the immediate calls would have done.
BatchAsImmediate ==
    phase = "commit" =>
        LET s == FoldLeft(Immediate, start, ops) IN
        /\ s.code = "ok"
        /\ s.obj = obj
        /\ View(s.tr) = View(tr)
        /\ s.table = table

=============================================================================
