------------------------------- MODULE Session ------------------------------
(***************************************************************************)
(* The session: Open and its retries (db_open.go), Begin, Commit, Rollback *)
(* and Close (db.go), and the one funnel every statement goes through with *)
(* its deadline (db_statements.go, command_timeout.go).                    *)
(*                                                                         *)
(* database/sql is external: it ties a transaction to the context of Begin *)
(* and rolls it back on a goroutine of its own some time after that        *)
(* context ends.  The session pins one connection, so that rollback falls  *)
(* on the connection every later statement and scope uses.  A context may  *)
(* end between any two steps.                                              *)
(***************************************************************************)
EXTENDS Integers, FiniteSets

CONSTANTS
    Contexts,       \* the contexts the application passes
    Scopes,         \* the Tx values it can be given
    Statements,     \* what it executes, each at most once
    NoTx,
    OpenRetries,    \* Options.OpenRetries
    CommandTimeout, \* Options.CommandTimeout is set
    RefusesNested   \* the engine refuses a BEGIN inside a transaction (SQLite), or lets it join (PostgreSQL)

ASSUME SessionAssumption ==
    /\ NoTx \notin Scopes
    /\ OpenRetries \in Nat
    /\ CommandTimeout \in BOOLEAN
    /\ RefusesNested \in BOOLEAN

VARIABLES
    phase,      \* where Open is; "open" and "closed" afterwards
    attempt,    \* the open attempt in progress
    openCtx,    \* the context of Open
    pool, conn, \* the pool and the pinned connection exist
    ended,      \* the contexts that have ended
    tx,         \* db.tx
    driver,     \* the sql.Tx of a scope: "unused", "live" or "over"
    done,       \* Tx.done
    ctxOf,      \* the context a scope was begun with
    serverTx,   \* the scope whose BEGIN opened the transaction the connection is inside, or NoTx
    pending,    \* the statements run in that transaction
    durable,    \* the statements whose effect is committed
    used,       \* the statements the application has executed
    scopeOf,    \* the scope the session had when a statement was executed
    reported,   \* the statements whose call returned no error
    kept,       \* the scopes whose Commit returned no error
    rows,       \* a result set is open: "none", "open"
    timers,     \* the deadlines that are armed
    panicked    \* a call dereferenced a nil transaction

openVars == <<phase, attempt, openCtx, pool, conn>>
txVars == <<tx, driver, done, ctxOf, serverTx, pending, durable, kept>>
readVars == <<rows, timers>>
vars == <<openVars, ended, txVars, used, scopeOf, reported, readVars, panicked>>

Opening == {"create", "pin", "ping", "wait"}

-----------------------------------------------------------------------------
(***************************************************************************)
(* Open.  An attempt creates a pool, pins a connection and pings it; both  *)
(* are released when it fails.                                             *)
(***************************************************************************)
\* Options that Open refuses cost nothing and leave nothing; the rest starts the first attempt.
Open(c) ==
    /\ phase = "none"
    /\ phase' \in {"create", "failed"} /\ attempt' = 0 /\ openCtx' = c
    /\ UNCHANGED <<pool, conn, ended, txVars, used, scopeOf, reported, readVars, panicked>>

\* A connection string the dialect cannot parse is never retried.
CreateConnection ==
    /\ phase = "create"
    /\ \/ phase' = "pin" /\ pool' = TRUE
       \/ phase' = "failed" /\ pool' = pool
    /\ UNCHANGED <<attempt, openCtx, conn, ended, txVars, used, scopeOf, reported, readVars, panicked>>

\* pool.Conn, then the ping.
pinConnection ==
    /\ openCtx \notin ended
    /\ \/ phase = "pin" /\ phase' = "ping" /\ conn' = TRUE
       \/ phase = "ping" /\ phase' = "open" /\ conn' = conn
    /\ UNCHANGED <<attempt, openCtx, pool, ended, txVars, used, scopeOf, reported, readVars, panicked>>

Retryable(failure) == attempt < OpenRetries /\ openCtx \notin ended /\ failure = "transient"

\* Mutant of PinFails: the connection whose ping failed is forgotten, not closed.
PinFailsLeaky(failure) ==
    /\ phase \in {"pin", "ping"}
    /\ pool' = FALSE
    /\ phase' = IF Retryable(failure) THEN "wait" ELSE "failed"
    /\ UNCHANGED <<attempt, openCtx, conn, ended, txVars, used, scopeOf, reported, readVars, panicked>>

\* No connection, or one whose ping fails: what the attempt has is closed.
PinFails(failure) ==
    /\ phase \in {"pin", "ping"}
    /\ pool' = FALSE /\ conn' = FALSE
    /\ phase' = IF Retryable(failure) THEN "wait" ELSE "failed"
    /\ UNCHANGED <<attempt, openCtx, ended, txVars, used, scopeOf, reported, readVars, panicked>>

\* Mutant of waitBeforeRetry: the attempt is not counted.
waitUncounted ==
    /\ phase = "wait"
    /\ \/ phase' = "create" /\ attempt' = attempt
       \/ openCtx \in ended /\ phase' = "failed" /\ attempt' = attempt
    /\ UNCHANGED <<openCtx, pool, conn, ended, txVars, used, scopeOf, reported, readVars, panicked>>

\* The select may take the timer although the context has ended as well.
waitBeforeRetry ==
    /\ phase = "wait"
    /\ \/ phase' = "create" /\ attempt' = attempt + 1
       \/ openCtx \in ended /\ phase' = "failed" /\ attempt' = attempt
    /\ UNCHANGED <<openCtx, pool, conn, ended, txVars, used, scopeOf, reported, readVars, panicked>>

-----------------------------------------------------------------------------
(***************************************************************************)
(* Transaction scopes                                                      *)
(***************************************************************************)
Live(s) == driver[s] = "live"

\* BEGIN on the connection: the engine refuses it inside a transaction, or joins that transaction.
BeginTx(s, c) ==
    /\ serverTx # NoTx => ~RefusesNested
    /\ serverTx' = IF serverTx = NoTx THEN s ELSE serverTx
    /\ driver' = [driver EXCEPT ![s] = "live"]
    /\ ctxOf' = [ctxOf EXCEPT ![s] = c]

\* Mutant of Begin: a second scope is begun while one is open, its BEGIN sent as a savepoint.
BeginNested(s, c) ==
    /\ phase = "open" /\ driver[s] = "unused" /\ c \notin ended
    /\ serverTx' = IF serverTx = NoTx THEN s ELSE serverTx
    /\ driver' = [driver EXCEPT ![s] = "live"]
    /\ ctxOf' = [ctxOf EXCEPT ![s] = c]
    /\ tx' = s
    /\ UNCHANGED <<openVars, ended, done, pending, durable, kept, used, scopeOf, reported, readVars, panicked>>

\* TX-001 when the session has a transaction, the context's error when it has ended.
Begin(s, c) ==
    /\ phase = "open" /\ driver[s] = "unused"
    /\ tx = NoTx /\ c \notin ended
    /\ BeginTx(s, c)
    /\ tx' = s
    /\ UNCHANGED <<openVars, ended, done, pending, durable, kept, used, scopeOf, reported, readVars, panicked>>

\* A ROLLBACK ends the connection's transaction, whichever scopes it has served.
Undone == serverTx' = NoTx /\ pending' = {}

\* The goroutine database/sql keeps per transaction.
DriverRollsBack(s) ==
    /\ Live(s) /\ ctxOf[s] \in ended
    /\ driver' = [driver EXCEPT ![s] = "over"]
    /\ Undone
    /\ UNCHANGED <<openVars, ended, tx, done, ctxOf, durable, kept, used, scopeOf, reported, readVars, panicked>>

Done(s) == done' = [done EXCEPT ![s] = TRUE] /\ tx' = NoTx

\* The sql.Tx is over, or its goroutine has claimed it and may still have its ROLLBACK to send.
Claimed == ~Live(tx) \/ ctxOf[tx] \in ended

\* Commit of a scope whose transaction is there, in the outcomes the driver can give: committed and
\* acknowledged; committed, the acknowledgement lost; refused and undone; refused and left open, as
\* SQLite does when it is busy.  An ended context is reported at once and the rollback left to the
\* driver's goroutine, although the session has dropped the transaction.
Commit(s) ==
    /\ driver[s] # "unused" /\ ~done[s] /\ tx # NoTx
    /\ Done(s)
    /\ \/ /\ ~Claimed
          /\ driver' = [driver EXCEPT ![tx] = "over"]
          /\ \/ Undone /\ durable' = durable \cup pending /\ kept' \in {kept, kept \cup {s}}
             \/ Undone /\ UNCHANGED <<durable, kept>>
             \/ RefusesNested /\ UNCHANGED <<serverTx, pending, durable, kept>>
       \/ Claimed /\ UNCHANGED <<driver, serverTx, pending, durable, kept>>
    /\ UNCHANGED <<openVars, ended, ctxOf, used, scopeOf, reported, readVars, panicked>>

Rollback(s) ==
    /\ driver[s] # "unused" /\ ~done[s] /\ tx # NoTx
    /\ Done(s)
    /\ \/ Live(tx) /\ driver' = [driver EXCEPT ![tx] = "over"] /\ Undone
       \/ Claimed /\ UNCHANGED <<driver, serverTx, pending>>
    /\ UNCHANGED <<openVars, ended, ctxOf, durable, kept, used, scopeOf, reported, readVars, panicked>>

\* Commit and Rollback of a scope the session no longer has a transaction for.
NilTransaction(s) ==
    /\ driver[s] # "unused" /\ ~done[s] /\ tx = NoTx
    /\ done' = [done EXCEPT ![s] = TRUE] /\ panicked' = TRUE
    /\ UNCHANGED <<openVars, ended, tx, driver, ctxOf, serverTx, pending, durable, kept, used, scopeOf, reported, readVars>>

\* sql.Conn.Close waits for every transaction begun on the connection.
Close ==
    /\ phase = "open"
    /\ phase' = "closed" /\ pool' = FALSE /\ conn' = FALSE
    /\ driver' = [s \in Scopes |-> IF Live(s) THEN "over" ELSE driver[s]]
    /\ Undone
    /\ tx' = NoTx
    /\ UNCHANGED <<attempt, openCtx, ended, done, ctxOf, durable, kept, used, scopeOf, reported, readVars, panicked>>

-----------------------------------------------------------------------------
(***************************************************************************)
(* Statements.  rawExecutor is the transaction or the pinned connection;   *)
(* on either, a statement is part of the transaction the connection is in, *)
(* and stands by itself when it is in none.                                *)
(***************************************************************************)
\* Mutant of rawExecutor: a transaction whose context ended is passed by.
rawExecutorSkipsEnded == IF tx # NoTx /\ Live(tx) THEN tx ELSE NoTx

\* The sql.Tx a statement is sent through, NoTx being the connection itself.
rawExecutor == tx

\* A sql.Tx that is over refuses its statements.
Refused(c) == c \in ended \/ (rawExecutor # NoTx /\ ~Live(rawExecutor))

\* The statement's effect, wherever it falls.
Effect(x) ==
    IF serverTx # NoTx THEN pending' = pending \cup {x} /\ durable' = durable
                       ELSE durable' = durable \cup {x} /\ pending' = pending

\* ExecContext: the deadline is armed and released around the call.  A timeout that fires, or a lost
\* answer, is an error whose statement may have run.
Execute(x, c) ==
    /\ phase = "open" /\ x \notin used /\ used' = used \cup {x}
    /\ scopeOf' = [scopeOf EXCEPT ![x] = tx]
    /\ \/ ~Refused(c) /\ Effect(x) /\ reported' \in {reported, reported \cup {x}}
       \/ UNCHANGED <<pending, durable, reported>>
    /\ UNCHANGED <<openVars, ended, tx, driver, done, ctxOf, serverTx, kept, readVars, panicked>>

\* A deadline is derived when the option is set, and released with the rows it was derived for.
CommandContext(armed) == IF CommandTimeout THEN armed + 1 ELSE armed

release(armed) == IF CommandTimeout THEN armed - 1 ELSE armed

\* QueryContext: the deadline lives as long as the rows; an error releases it at once.
Query(c) ==
    /\ phase = "open" /\ rows = "none"
    /\ \/ ~Refused(c) /\ rows' = "open" /\ timers' = CommandContext(timers)
       \/ rows' = rows /\ timers' = release(CommandContext(timers))
    /\ UNCHANGED <<openVars, ended, txVars, used, scopeOf, reported, panicked>>

\* The reader's deferred Close: at the last row, an error, an ended context or a consumer that stops.
CloseRows ==
    /\ rows = "open"
    /\ rows' = "none" /\ timers' = release(timers)
    /\ UNCHANGED <<openVars, ended, txVars, used, scopeOf, reported, panicked>>

EndContext(c) ==
    /\ c \notin ended
    /\ ended' = ended \cup {c}
    /\ UNCHANGED <<openVars, txVars, used, scopeOf, reported, readVars, panicked>>

-----------------------------------------------------------------------------
Init ==
    /\ phase = "none" /\ attempt = 0 /\ openCtx \in Contexts
    /\ pool = FALSE /\ conn = FALSE /\ ended = {}
    /\ tx = NoTx
    /\ driver = [s \in Scopes |-> "unused"] /\ done = [s \in Scopes |-> FALSE]
    /\ ctxOf \in [Scopes -> Contexts]
    /\ serverTx = NoTx /\ pending = {}
    /\ durable = {} /\ used = {} /\ scopeOf = [x \in Statements |-> NoTx] /\ reported = {} /\ kept = {}
    /\ rows = "none" /\ timers = 0 /\ panicked = FALSE

OpenStep == CreateConnection \/ pinConnection \/ (\E f \in {"transient", "permanent", "canceled"} : PinFails(f))
            \/ waitBeforeRetry

Next ==
    \/ \E c \in Contexts : Open(c) \/ Query(c) \/ EndContext(c)
    \/ CreateConnection \/ pinConnection \/ waitBeforeRetry
    \/ \E failure \in {"transient", "permanent", "canceled"} : PinFails(failure)
    \/ \E s \in Scopes : (\E c \in Contexts : Begin(s, c)) \/ DriverRollsBack(s) \/ Commit(s)
                         \/ Rollback(s) \/ NilTransaction(s)
    \/ \E x \in Statements, c \in Contexts : Execute(x, c)
    \/ Close \/ CloseRows

Spec == Init /\ [][Next]_vars

\* A step of Open ends: the dialect's connect and ping do, and the timer fires.
FairSpec == Spec /\ WF_vars(OpenStep)

-----------------------------------------------------------------------------
(***************************************************************************)
(* The inductive invariant behind the safety properties                    *)
(***************************************************************************)
\* A wait is only entered with a retry left.
RetryLeft == phase = "wait" => attempt < OpenRetries

\* The session's transaction is a scope that was begun and not ended, and only a transaction has
\* statements pending.
TxInv ==
    /\ tx # NoTx => phase = "open" /\ driver[tx] # "unused" /\ ~done[tx]
    /\ serverTx = NoTx => pending = {}
    /\ pending \subseteq used /\ durable \subseteq used /\ reported \subseteq used

\* The statements the application executed while the session had scope s.
Own(s) == {x \in used : scopeOf[x] = s}

\* A scope that was never begun has nothing.
FreshInv == \A s \in Scopes : driver[s] = "unused" => Own(s) = {} /\ ~done[s] /\ s \notin kept

\* With an engine that refuses a nested BEGIN: the connection is inside the transaction of the one
\* sql.Tx that is live, and what is pending was executed under its scope or, once the session had dropped it,
\* under none.
LiveInv ==
    \A s \in Scopes : Live(s) =>
        /\ serverTx = s /\ tx \in {s, NoTx} /\ s \notin kept
        /\ \A x \in pending : scopeOf[x] \in {s, NoTx}
        /\ Own(s) \cap durable = {} /\ Own(s) \cap reported \subseteq pending

-----------------------------------------------------------------------------
(***************************************************************************)
(* Properties                                                              *)
(***************************************************************************)
TypeOK ==
    /\ phase \in {"none", "failed", "open", "closed"} \cup Opening
    /\ attempt \in Nat /\ openCtx \in Contexts /\ pool \in BOOLEAN /\ conn \in BOOLEAN
    /\ ended \subseteq Contexts /\ tx \in Scopes \cup {NoTx}
    /\ driver \in [Scopes -> {"unused", "live", "over"}] /\ done \in [Scopes -> BOOLEAN]
    /\ ctxOf \in [Scopes -> Contexts] /\ serverTx \in Scopes \cup {NoTx} /\ pending \subseteq Statements
    /\ durable \subseteq Statements /\ used \subseteq Statements
    /\ scopeOf \in [Statements -> Scopes \cup {NoTx}] /\ reported \subseteq Statements
    /\ kept \subseteq Scopes /\ rows \in {"none", "open"} /\ timers \in Int /\ panicked \in BOOLEAN

\* A pool and a connection exist exactly while an attempt or the session needs them, and a deadline
\* is armed exactly while a result set is open: no way out of Open, Close or a read leaves one behind
\* (openConnection, pinConnection, resultRows.Close); attempts are bounded by OpenRetries.
NothingLeaks ==
    /\ pool <=> phase \in {"pin", "ping", "open"}
    /\ conn <=> phase \in {"ping", "open"}
    /\ timers = IF rows = "open" /\ CommandTimeout THEN 1 ELSE 0
    /\ attempt <= OpenRetries

\* A scope is all or nothing: of the statements executed while the session had it, those reported as
\* run are all in the database or none of them is, and they are when its Commit returned no error,
\* whatever contexts ended in between (Begin, Commit, the transaction's own context, rawExecutor).  It
\* needs the engine's refusal of a nested BEGIN.
ScopeAtomic ==
    \A s \in Scopes : \/ Own(s) \cap reported \subseteq durable
                      \/ Own(s) \cap durable = {} /\ s \notin kept

\* From Begin until Commit or Rollback every statement of the session runs inside the transaction:
\* none is in the database before the scope ends, although the driver may have rolled back the
\* transaction, or that of a scope before (Begin, exec, rawExecutor).  It needs the engine's refusal of
\* a nested BEGIN.
EnlistmentTotal == \A s \in Scopes : tx = s => Own(s) \cap durable = {}

\* While the session is open a scope that was not ended is the session's transaction, so Commit and
\* Rollback act on their own scope; they find no transaction only after Close dropped it (Tx.Commit,
\* Tx.Rollback, Db.Close).
ScopeOwnsTransaction ==
    /\ \A s \in Scopes : driver[s] # "unused" /\ ~done[s] => tx = s \/ phase = "closed"
    /\ panicked => phase = "closed"

\* Every scope's statements, and only they while the session has it, reach the database as one unit
\* that nothing but its own Commit keeps (AtomicUnits): the unit is the transaction the connection is
\* inside, the scope the session's.  It needs the engine's refusal of a nested BEGIN.
Units == INSTANCE AtomicUnits WITH scope <- tx, unit <- serverTx

RefinesUnits == Units!Spec

\* Open returns: retries are bounded and every wait ends (openConnection).
OpenReturns == phase \in Opening ~> phase \in {"open", "failed", "closed"}

=============================================================================
