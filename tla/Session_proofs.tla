---------------------------- MODULE Session_proofs ---------------------------
(***************************************************************************)
(* What Session promises, for every number of contexts, scopes, statements *)
(* and retries: nothing leaks and a scope owns its transaction; and, when  *)
(* the engine refuses a BEGIN inside a transaction, a scope is all or      *)
(* nothing and the session implements AtomicUnits.                         *)
(***************************************************************************)
EXTENDS Session, TLAPS

\* What concerns Open, the pool, the connection and the deadlines.
ResourceInv == NothingLeaks /\ RetryLeft

\* What concerns transactions and statements, whatever the engine does with a nested BEGIN.
BaseInv == TxInv /\ FreshInv /\ ScopeOwnsTransaction

\* What needs its refusal.
NestInv == RefusesNested => LiveInv /\ ScopeAtomic

ScopesInv == BaseInv /\ NestInv

IInv == TypeOK /\ ResourceInv /\ ScopesInv

-----------------------------------------------------------------------------
\* Before Open nothing is pinned, open or durable.
LEMMA InitInv == Init => IInv
  <1> SUFFICES ASSUME Init
               PROVE  IInv
    OBVIOUS
  <1> USE SessionAssumption DEF Init
  <1>1. TypeOK
    <2>1. /\ done \in [Scopes -> BOOLEAN] /\ driver \in [Scopes -> {"unused", "live", "over"}]
          /\ scopeOf \in [Statements -> Scopes \cup {NoTx}]
      OBVIOUS
    <2>2. pool \in BOOLEAN /\ conn \in BOOLEAN /\ panicked \in BOOLEAN
      OBVIOUS
    <2>3. /\ phase \in {"none", "failed", "open", "closed"} \cup Opening
          /\ attempt \in Nat /\ rows \in {"none", "open"} /\ timers \in Int
      OBVIOUS
    <2> QED
      BY <2>1, <2>2, <2>3 DEF TypeOK
  <1>2. ResourceInv
    BY DEF ResourceInv, NothingLeaks, RetryLeft
  <1>3. ScopesInv
    <2>1. TxInv /\ FreshInv
      BY DEF TxInv, FreshInv, Own
    <2>2. ScopeOwnsTransaction
      BY DEF ScopeOwnsTransaction
    <2>3. LiveInv /\ ScopeAtomic
      BY DEF LiveInv, ScopeAtomic, Own, Live
    <2> QED
      BY <2>1, <2>2, <2>3 DEF ScopesInv, BaseInv, NestInv
  <1> QED
    BY <1>1, <1>2, <1>3 DEF IInv

\* A step that leaves the transactions, the statements and their reports alone, and neither opens a
\* second time nor leaves an open or closed session.
LEMMA ScopesFrame ==
    ASSUME ScopesInv,
           txVars' = txVars, used' = used, scopeOf' = scopeOf, reported' = reported, panicked' = panicked,
           phase \in {"open", "closed"} => phase' = phase
    PROVE  ScopesInv'
  <1> USE DEF txVars
  <1>1. TxInv' /\ FreshInv'
    BY DEF ScopesInv, BaseInv, TxInv, FreshInv, Own
  <1>2. ScopeOwnsTransaction'
    BY DEF ScopesInv, BaseInv, ScopeOwnsTransaction
  <1>3. RefusesNested => LiveInv' /\ ScopeAtomic'
    BY DEF ScopesInv, NestInv, LiveInv, ScopeAtomic, Own, Live
  <1> QED
    BY <1>1, <1>2, <1>3 DEF ScopesInv, BaseInv, NestInv

\* Open, its attempts and its waits.
LEMMA OpenInv ==
    ASSUME IInv,
           \/ \E c \in Contexts : Open(c)
           \/ CreateConnection \/ pinConnection \/ waitBeforeRetry
           \/ \E failure \in {"transient", "permanent", "canceled"} : PinFails(failure)
    PROVE  IInv'
  <1> USE SessionAssumption DEF IInv
  <1>a. /\ txVars' = txVars /\ used' = used /\ scopeOf' = scopeOf /\ reported' = reported
        /\ panicked' = panicked /\ readVars' = readVars /\ ended' = ended
        /\ phase \in Opening \cup {"none"}
    BY DEF Open, CreateConnection, pinConnection, waitBeforeRetry, PinFails, Opening
  <1>1. TypeOK'
    <2>1. pool' \in BOOLEAN /\ conn' \in BOOLEAN
      BY DEF TypeOK, Open, CreateConnection, pinConnection, waitBeforeRetry, PinFails
    <2>2. attempt' \in Nat /\ openCtx' \in Contexts
      BY DEF TypeOK, Open, CreateConnection, pinConnection, waitBeforeRetry, PinFails
    <2>3. phase' \in {"none", "failed", "open", "closed"} \cup Opening
      BY DEF TypeOK, Open, CreateConnection, pinConnection, waitBeforeRetry, PinFails, Opening
    <2> QED
      BY <1>a, <2>1, <2>2, <2>3 DEF TypeOK, txVars, readVars
  <1>2. ResourceInv'
    BY <1>a DEF TypeOK, ResourceInv, NothingLeaks, RetryLeft, readVars, Open, CreateConnection,
                pinConnection, waitBeforeRetry, PinFails, Retryable
  <1>3. ScopesInv'
    BY <1>a, ScopesFrame DEF Opening
  <1> QED
    BY <1>1, <1>2, <1>3

\* Reading, and a context that ends.
LEMMA ReadInv ==
    ASSUME IInv, (\E c \in Contexts : Query(c) \/ EndContext(c)) \/ CloseRows
    PROVE  IInv'
  <1> USE SessionAssumption DEF IInv
  <1>a. /\ openVars' = openVars /\ txVars' = txVars /\ used' = used /\ scopeOf' = scopeOf
        /\ reported' = reported /\ panicked' = panicked
    BY DEF Query, EndContext, CloseRows
  <1>1. TypeOK'
    BY <1>a DEF TypeOK, txVars, openVars, readVars, Query, EndContext, CloseRows, CommandContext, release
  <1>2. ResourceInv'
    BY <1>a DEF TypeOK, ResourceInv, NothingLeaks, RetryLeft, openVars, readVars, Query, EndContext, CloseRows,
                CommandContext, release
  <1>3. ScopesInv'
    BY <1>a, ScopesFrame DEF openVars
  <1> QED
    BY <1>1, <1>2, <1>3

\* A step that leaves Open, the pool and the reads alone.
LEMMA ResourceFrame ==
    ASSUME ResourceInv, openVars' = openVars, readVars' = readVars
    PROVE  ResourceInv'
  BY DEF ResourceInv, NothingLeaks, RetryLeft, openVars, readVars

\* A scope begins: with an engine that refuses a nested BEGIN nothing was open.
LEMMA BeginInv ==
    ASSUME IInv, NEW s \in Scopes, NEW c \in Contexts, Begin(s, c)
    PROVE  IInv'
  <1> USE SessionAssumption DEF IInv
  <1>a. /\ tx' = s /\ tx = NoTx /\ phase = "open" /\ phase' = phase /\ driver[s] = "unused"
        /\ driver' = [driver EXCEPT ![s] = "live"]
        /\ serverTx # NoTx => ~RefusesNested
        /\ serverTx' = IF serverTx = NoTx THEN s ELSE serverTx
        /\ done' = done /\ pending' = pending /\ durable' = durable /\ used' = used /\ scopeOf' = scopeOf
        /\ reported' = reported /\ kept' = kept /\ panicked' = panicked
    BY DEF Begin, BeginTx, openVars
  <1>b. driver'[s] = "live" /\ \A t \in Scopes : t # s => driver'[t] = driver[t]
    BY <1>a DEF TypeOK
  <1>c. Own(s) = {} /\ ~done[s] /\ s \notin kept
    BY <1>a DEF ScopesInv, BaseInv, FreshInv
  <1>1. TypeOK'
    BY DEF TypeOK, Begin, BeginTx, openVars, readVars
  <1>2. ResourceInv'
    BY ResourceFrame DEF Begin
  <1>3. TxInv' /\ FreshInv'
    BY <1>a, <1>b, <1>c DEF ScopesInv, BaseInv, TxInv, FreshInv, Own
  <1>4. ScopeOwnsTransaction'
    BY <1>a, <1>b DEF ScopesInv, BaseInv, ScopeOwnsTransaction
  <1>5. ASSUME RefusesNested
        PROVE  LiveInv' /\ ScopeAtomic'
    <2>1. serverTx = NoTx /\ serverTx' = s /\ pending = {}
      BY <1>5, <1>a DEF ScopesInv, BaseInv, TxInv
    <2>2. \A t \in Scopes : Live(t)' => t = s
      BY <1>5, <1>a, <1>b, <2>1 DEF ScopesInv, NestInv, LiveInv, Live
    <2>3. Own(s)' = {}
      BY <1>a, <1>c DEF Own
    <2>4. LiveInv'
      BY <1>a, <1>c, <2>1, <2>2, <2>3 DEF LiveInv
    <2>5. ScopeAtomic'
      BY <1>5, <1>a DEF ScopesInv, NestInv, ScopeAtomic, Own
    <2> QED
      BY <2>4, <2>5
  <1> QED
    BY <1>1, <1>2, <1>3, <1>4, <1>5 DEF ScopesInv, BaseInv, NestInv

\* The ways transactions end without a commit: the driver's goroutine, Rollback, Close and a Commit that
\* is refused turn live transactions over, or none, and change no statement.  The connection's
\* transaction is undone, or what is live stays as it was.
LEMMA Ended ==
    ASSUME TypeOK, BaseInv, NestInv,
           \A s \in Scopes : driver'[s] = driver[s] \/ (driver[s] # "unused" /\ driver'[s] = "over"),
           \A s \in Scopes : driver[s] = "unused" => done'[s] = done[s],
           tx' \in {tx, NoTx},
           durable' = durable, used' = used, scopeOf' = scopeOf, reported' = reported, kept' = kept,
           \/ serverTx' = serverTx /\ pending' = pending
           \/ serverTx' = NoTx /\ pending' = {} /\ (RefusesNested => \A s \in Scopes : driver'[s] # "live")
    PROVE  FreshInv' /\ NestInv'
  <1>1. FreshInv'
    BY DEF BaseInv, FreshInv, Own
  <1>2. ASSUME RefusesNested
        PROVE  LiveInv'
    <2>1. ASSUME NEW s \in Scopes, Live(s)'
          PROVE  Live(s) /\ serverTx' = serverTx /\ pending' = pending
      BY <1>2, <2>1 DEF Live
    <2> QED
      BY <1>2, <2>1 DEF NestInv, LiveInv, Own
  <1>3. ASSUME RefusesNested
        PROVE  ScopeAtomic'
    BY <1>3 DEF NestInv, ScopeAtomic, Own
  <1> QED
    BY <1>1, <1>2, <1>3 DEF NestInv

\* Only the scope whose sql.Tx is live can be the only one: over with it, none is.
LEMMA LastLive ==
    ASSUME IInv, NEW s \in Scopes, Live(s), driver' = [driver EXCEPT ![s] = "over"]
    PROVE  RefusesNested => \A t \in Scopes : driver'[t] # "live"
  BY DEF IInv, TypeOK, ScopesInv, NestInv, LiveInv, Live

\* The driver rolls back behind the session: the transaction is over, the scope is not.
LEMMA DriverRollsBackInv ==
    ASSUME IInv, NEW s \in Scopes, DriverRollsBack(s)
    PROVE  IInv'
  <1> USE SessionAssumption DEF IInv
  <1>a. /\ driver' = [driver EXCEPT ![s] = "over"] /\ Live(s) /\ tx' = tx /\ phase' = phase
        /\ done' = done /\ serverTx' = NoTx /\ pending' = {} /\ durable' = durable /\ used' = used
        /\ scopeOf' = scopeOf /\ reported' = reported /\ kept' = kept /\ panicked' = panicked
    BY DEF DriverRollsBack, Undone, openVars
  <1>b. \A t \in Scopes : driver'[t] = driver[t] \/ (driver[t] # "unused" /\ driver'[t] = "over")
    BY <1>a DEF TypeOK, Live
  <1>1. TypeOK'
    BY DEF TypeOK, DriverRollsBack, Undone, openVars, readVars
  <1>2. ResourceInv'
    BY ResourceFrame DEF DriverRollsBack
  <1>3. FreshInv' /\ NestInv'
    BY <1>a, <1>b, LastLive, Ended DEF ScopesInv
  <1>4. TxInv' /\ ScopeOwnsTransaction'
    <2>1. TxInv'
      BY <1>a, <1>b DEF TypeOK, ScopesInv, BaseInv, TxInv
    <2>2. ScopeOwnsTransaction'
      BY <1>a, <1>b DEF ScopesInv, BaseInv, ScopeOwnsTransaction
    <2> QED
      BY <2>1, <2>2
  <1> QED
    BY <1>1, <1>2, <1>3, <1>4 DEF ScopesInv, BaseInv

\* A scope that is ended with a transaction there is the session's transaction.
LEMMA ScopeIsTx ==
    ASSUME IInv, NEW s \in Scopes, driver[s] # "unused", ~done[s], tx # NoTx
    PROVE  tx = s /\ phase = "open"
  BY DEF IInv, ScopesInv, BaseInv, TxInv, ScopeOwnsTransaction

\* A scope that is ended is not the session's transaction any more.
LEMMA ScopeEnded ==
    ASSUME TypeOK, BaseInv, NEW s \in Scopes, driver[s] # "unused", tx' = NoTx,
           done' = [done EXCEPT ![s] = TRUE], tx \in {s, NoTx}, phase' = phase,
           \A t \in Scopes : driver'[t] = driver[t] \/ (driver[t] # "unused" /\ driver'[t] = "over"),
           panicked' => panicked \/ phase = "closed",
           serverTx' = NoTx => pending' = {}, pending' \subseteq pending,
           durable' \subseteq durable \cup pending, used' = used, reported' = reported
    PROVE  TxInv' /\ ScopeOwnsTransaction'
  <1> USE SessionAssumption
  <1>1. TxInv'
    BY DEF BaseInv, TxInv
  <1>2. ScopeOwnsTransaction'
    BY DEF TypeOK, BaseInv, TxInv, ScopeOwnsTransaction
  <1> QED
    BY <1>1, <1>2

\* A scope is rolled back, or left to the driver's goroutine.
LEMMA RollbackInv ==
    ASSUME IInv, NEW s \in Scopes, Rollback(s)
    PROVE  IInv'
  <1> USE SessionAssumption DEF IInv
  <1>a. tx = s /\ phase = "open" /\ driver[s] # "unused"
    BY ScopeIsTx DEF Rollback
  <1>b. /\ tx' = NoTx /\ phase' = phase /\ done' = [done EXCEPT ![s] = TRUE] /\ durable' = durable
        /\ used' = used /\ scopeOf' = scopeOf /\ reported' = reported /\ kept' = kept /\ panicked' = panicked
    BY DEF Rollback, Done, openVars
  <1>c. \/ Live(s) /\ driver' = [driver EXCEPT ![s] = "over"] /\ serverTx' = NoTx /\ pending' = {}
        \/ driver' = driver /\ serverTx' = serverTx /\ pending' = pending
    BY <1>a DEF Rollback, Undone
  <1>d. /\ \A t \in Scopes : driver'[t] = driver[t] \/ (driver[t] # "unused" /\ driver'[t] = "over")
        /\ driver' \in [Scopes -> {"unused", "live", "over"}]
    BY <1>c DEF TypeOK, Live
  <1>e. \A t \in Scopes : driver[t] = "unused" => done'[t] = done[t]
    BY <1>a, <1>b DEF TypeOK
  <1>1. TypeOK'
    <2>1. serverTx' \in Scopes \cup {NoTx} /\ pending' \subseteq Statements /\ done' \in [Scopes -> BOOLEAN]
      BY <1>b, <1>c DEF TypeOK
    <2> QED
      BY <1>b, <1>d, <2>1 DEF TypeOK, Rollback, openVars, readVars
  <1>2. ResourceInv'
    BY ResourceFrame DEF Rollback
  <1>3. FreshInv' /\ NestInv'
    BY <1>b, <1>c, <1>d, <1>e, LastLive, Ended DEF ScopesInv
  <1>4. serverTx' = NoTx => pending' = {}
    BY <1>c DEF ScopesInv, BaseInv, TxInv
  <1>5. TxInv' /\ ScopeOwnsTransaction'
    BY <1>a, <1>b, <1>c, <1>d, <1>4, ScopeEnded DEF ScopesInv
  <1> QED
    BY <1>1, <1>2, <1>3, <1>5 DEF ScopesInv, BaseInv

\* A scope of a closed session ends without a transaction.
LEMMA NilTransactionInv ==
    ASSUME IInv, NEW s \in Scopes, NilTransaction(s)
    PROVE  IInv'
  <1> USE SessionAssumption DEF IInv
  <1>a. phase = "closed"
    BY DEF NilTransaction, ScopesInv, BaseInv, ScopeOwnsTransaction
  <1>b. /\ driver' = driver /\ driver[s] # "unused" /\ tx = NoTx /\ tx' = tx /\ phase' = phase
        /\ done' = [done EXCEPT ![s] = TRUE] /\ serverTx' = serverTx /\ pending' = pending
        /\ durable' = durable /\ used' = used
        /\ scopeOf' = scopeOf /\ reported' = reported /\ kept' = kept /\ panicked' = TRUE
    BY DEF NilTransaction, openVars
  <1>c. \A t \in Scopes : driver[t] = "unused" => done'[t] = done[t]
    BY <1>b DEF TypeOK
  <1>1. TypeOK'
    BY DEF TypeOK, NilTransaction, openVars, readVars
  <1>2. ResourceInv'
    BY ResourceFrame DEF NilTransaction
  <1>3. FreshInv' /\ NestInv'
    BY <1>b, <1>c, Ended DEF ScopesInv
  <1>4. serverTx' = NoTx => pending' = {}
    BY <1>b DEF ScopesInv, BaseInv, TxInv
  <1>5. TxInv' /\ ScopeOwnsTransaction'
    BY <1>a, <1>b, <1>4, ScopeEnded DEF ScopesInv
  <1> QED
    BY <1>1, <1>2, <1>3, <1>5 DEF ScopesInv, BaseInv

\* Close ends whatever is open.
LEMMA CloseInv ==
    ASSUME IInv, Close
    PROVE  IInv'
  <1> USE SessionAssumption DEF IInv
  <1>b. /\ driver' = [s \in Scopes |-> IF Live(s) THEN "over" ELSE driver[s]]
        /\ tx' = NoTx /\ phase' = "closed" /\ pool' = FALSE /\ conn' = FALSE /\ readVars' = readVars
        /\ attempt' = attempt /\ done' = done /\ serverTx' = NoTx /\ pending' = {} /\ durable' = durable
        /\ used' = used /\ scopeOf' = scopeOf /\ reported' = reported /\ kept' = kept
    BY DEF Close, Undone
  <1>c. \A t \in Scopes : /\ driver'[t] = driver[t] \/ (driver[t] # "unused" /\ driver'[t] = "over")
                          /\ driver'[t] # "live"
    BY <1>b DEF TypeOK, Live
  <1>1. TypeOK'
    <2>1. driver' \in [Scopes -> {"unused", "live", "over"}]
      BY <1>b DEF TypeOK
    <2> QED
      BY <2>1 DEF TypeOK, Close, Undone, readVars
  <1>2. ResourceInv'
    BY <1>b DEF ResourceInv, NothingLeaks, RetryLeft, readVars
  <1>3. FreshInv' /\ NestInv'
    BY <1>b, <1>c, Ended DEF ScopesInv
  <1>4. TxInv' /\ ScopeOwnsTransaction'
    BY <1>b DEF ScopesInv, BaseInv, TxInv, ScopeOwnsTransaction
  <1> QED
    BY <1>1, <1>2, <1>3, <1>4 DEF ScopesInv, BaseInv

\* A scope commits: all its statements are durable, or none.
LEMMA CommitInv ==
    ASSUME IInv, NEW s \in Scopes, Commit(s)
    PROVE  IInv'
  <1> USE SessionAssumption DEF IInv
  <1>a. tx = s /\ phase = "open" /\ driver[s] # "unused"
    BY ScopeIsTx DEF Commit
  <1>b. /\ tx' = NoTx /\ phase' = phase /\ done' = [done EXCEPT ![s] = TRUE]
        /\ used' = used /\ scopeOf' = scopeOf /\ reported' = reported /\ panicked' = panicked
    BY DEF Commit, Done, openVars
  <1>c. \/ /\ Live(s) /\ driver' = [driver EXCEPT ![s] = "over"] /\ serverTx' = NoTx /\ pending' = {}
           /\ durable' = durable \cup pending /\ kept' \in {kept, kept \cup {s}}
        \/ /\ Live(s) /\ driver' = [driver EXCEPT ![s] = "over"] /\ serverTx' = NoTx /\ pending' = {}
           /\ durable' = durable /\ kept' = kept
        \/ /\ driver' \in {driver, [driver EXCEPT ![s] = "over"]} /\ serverTx' = serverTx /\ pending' = pending
           /\ durable' = durable /\ kept' = kept
    BY <1>a DEF Commit, Claimed, Undone
  <1>d. /\ \A t \in Scopes : driver'[t] = driver[t] \/ (driver[t] # "unused" /\ driver'[t] = "over")
        /\ driver' \in [Scopes -> {"unused", "live", "over"}]
    BY <1>a, <1>c DEF TypeOK
  <1>e. \A t \in Scopes : driver[t] = "unused" => done'[t] = done[t]
    BY <1>a, <1>b DEF TypeOK
  <1>1. TypeOK'
    <2>1. serverTx' \in Scopes \cup {NoTx} /\ pending' \subseteq Statements /\ done' \in [Scopes -> BOOLEAN]
      BY <1>b, <1>c DEF TypeOK
    <2>2. durable' \subseteq Statements /\ kept' \subseteq Scopes
      BY <1>c DEF TypeOK
    <2> QED
      BY <1>b, <1>d, <2>1, <2>2 DEF TypeOK, Commit, openVars, readVars
  <1>2. ResourceInv'
    BY ResourceFrame DEF Commit
  <1>3. TxInv' /\ ScopeOwnsTransaction'
    <2>1. /\ serverTx' = NoTx => pending' = {}
          /\ pending' \subseteq pending /\ durable' \subseteq durable \cup pending
      BY <1>c DEF ScopesInv, BaseInv, TxInv
    <2> QED
      BY <1>a, <1>b, <1>d, <2>1, ScopeEnded DEF ScopesInv
  <1>4. FreshInv' /\ NestInv'
    <2>1. CASE durable' = durable /\ kept' = kept
      BY <1>b, <1>c, <1>d, <1>e, <2>1, LastLive, Ended DEF ScopesInv
    <2>2. CASE /\ Live(s) /\ driver' = [driver EXCEPT ![s] = "over"] /\ serverTx' = NoTx /\ pending' = {}
               /\ durable' = durable \cup pending /\ kept' \in {kept, kept \cup {s}}
      <3>1. \A t \in Scopes : Own(t)' = Own(t)
        BY <1>b DEF Own
      <3>2. FreshInv'
        BY <1>a, <1>d, <1>e, <2>2, <3>1 DEF ScopesInv, BaseInv, FreshInv
      <3>3. ASSUME RefusesNested
            PROVE  LiveInv'
        BY <2>2, <3>3, LastLive DEF LiveInv, Live
      <3>4. ASSUME RefusesNested
            PROVE  ScopeAtomic'
        <4>1. LiveInv /\ ScopeAtomic /\ pending \subseteq used
          BY <3>4 DEF ScopesInv, BaseInv, TxInv, NestInv
        <4>2. Own(s) \cap reported \subseteq durable'
          BY <2>2, <4>1 DEF LiveInv
        <4>3. \A x \in pending : scopeOf[x] \in {s, NoTx}
          BY <2>2, <4>1 DEF LiveInv
        <4>4. \A t \in Scopes : t # s => Own(t) \cap durable' = Own(t) \cap durable /\ (t \in kept' <=> t \in kept)
          BY <2>2, <4>3 DEF Own
        <4> QED
          BY <1>b, <2>2, <3>1, <4>1, <4>2, <4>4 DEF ScopeAtomic
      <3> QED
        BY <3>2, <3>3, <3>4 DEF NestInv
    <2> QED
      BY <1>c, <2>1, <2>2
  <1> QED
    BY <1>1, <1>2, <1>3, <1>4 DEF ScopesInv, BaseInv

\* A statement joins the transaction the connection is inside, or is durable by itself.
LEMMA ExecuteInv ==
    ASSUME IInv, NEW x \in Statements, NEW c \in Contexts, Execute(x, c)
    PROVE  IInv'
  <1> USE SessionAssumption DEF IInv
  <1>a. /\ phase = "open" /\ x \notin used /\ used' = used \cup {x} /\ scopeOf' = [scopeOf EXCEPT ![x] = tx]
        /\ phase' = phase /\ tx' = tx /\ driver' = driver /\ done' = done /\ kept' = kept /\ panicked' = panicked
        /\ serverTx' = serverTx
    BY DEF Execute, openVars
  <1>b. \/ /\ tx = NoTx \/ Live(tx)
           /\ reported' \in {reported, reported \cup {x}}
           /\ \/ serverTx # NoTx /\ pending' = pending \cup {x} /\ durable' = durable
              \/ serverTx = NoTx /\ pending' = pending /\ durable' = durable \cup {x}
        \/ pending' = pending /\ durable' = durable /\ reported' = reported
    BY DEF Execute, Effect, Refused, rawExecutor
  <1>i. TxInv /\ FreshInv /\ ScopeOwnsTransaction
    BY DEF ScopesInv, BaseInv
  \* The statement is fresh: it belongs to the session's scope only, and is in no transaction yet.
  <1>c. /\ \A t \in Scopes : Own(t)' = IF t = tx THEN Own(t) \cup {x} ELSE Own(t)
        /\ \A t \in Scopes : x \notin Own(t)
        /\ x \notin durable /\ x \notin reported /\ x \notin pending
    <2>1. \A y \in used : scopeOf'[y] = scopeOf[y]
      BY <1>a DEF TypeOK
    <2>2. scopeOf'[x] = tx
      BY <1>a DEF TypeOK
    <2> QED
      BY <1>a, <1>i, <2>1, <2>2 DEF TxInv, Own
  <1>1. TypeOK'
    <2>1. /\ pending' \subseteq Statements /\ durable' \subseteq Statements
          /\ reported' \subseteq Statements /\ used' \subseteq Statements
      BY <1>a, <1>b DEF TypeOK
    <2>2. scopeOf' \in [Statements -> Scopes \cup {NoTx}]
      BY <1>a DEF TypeOK
    <2> QED
      BY <2>1, <2>2 DEF TypeOK, Execute, openVars, readVars
  <1>2. ResourceInv'
    BY ResourceFrame DEF Execute
  <1>3. TxInv'
    BY <1>a, <1>b, <1>i DEF TxInv
  <1>4. ScopeOwnsTransaction'
    BY <1>a, <1>i DEF ScopeOwnsTransaction
  <1>5. FreshInv'
    BY <1>a, <1>c, <1>i DEF FreshInv, TxInv
  <1>6. ASSUME RefusesNested
        PROVE  LiveInv' /\ ScopeAtomic'
    <2>i. LiveInv /\ ScopeAtomic
      BY <1>6 DEF ScopesInv, NestInv
    <2>1. ASSUME NEW t \in Scopes, Live(t)'
          PROVE  /\ serverTx' = t /\ tx' \in {t, NoTx} /\ t \notin kept'
                 /\ \A y \in pending' : scopeOf'[y] \in {t, NoTx}
                 /\ Own(t)' \cap durable' = {} /\ Own(t)' \cap reported' \subseteq pending'
      <3>1. Live(t) /\ serverTx = t /\ tx \in {t, NoTx} /\ t \notin kept
        BY <1>a, <2>i, <2>1 DEF LiveInv, Live
      <3>2. Own(t) \cap durable = {} /\ Own(t) \cap reported \subseteq pending
        BY <2>i, <3>1 DEF LiveInv
      <3>3. \A y \in pending' : scopeOf'[y] \in {t, NoTx}
        <4>1. \A y \in pending : scopeOf[y] \in {t, NoTx} /\ scopeOf'[y] = scopeOf[y]
          BY <1>a, <1>i, <2>i, <3>1 DEF LiveInv, TxInv, TypeOK
        <4>2. scopeOf'[x] \in {t, NoTx}
          BY <1>a, <3>1 DEF TypeOK
        <4> QED
          BY <1>b, <4>1, <4>2
      <3>4. durable' = durable /\ (x \in reported' => x \in pending') /\ pending \subseteq pending'
        BY <1>b, <1>c, <3>1
      <3>5. Own(t)' \subseteq Own(t) \cup {x} /\ reported' \subseteq reported \cup {x}
        BY <1>b, <1>c
      <3> QED
        BY <1>a, <1>c, <3>1, <3>2, <3>3, <3>4, <3>5
    <2>2. LiveInv'
      BY <2>1 DEF LiveInv
    <2>3. ASSUME NEW t \in Scopes
          PROVE  \/ Own(t)' \cap reported' \subseteq durable'
                 \/ Own(t)' \cap durable' = {} /\ t \notin kept'
      <3>1. CASE Live(t)
        BY <1>a, <2>1, <3>1 DEF Live
      <3>2. CASE ~Live(t) /\ t = tx
        <4>1. durable' = durable /\ reported' = reported
          BY <1>b, <3>2
        <4> QED
          BY <1>a, <1>c, <2>i, <4>1 DEF ScopeAtomic
      <3>3. CASE t # tx
        <4>1. Own(t)' = Own(t) /\ x \notin Own(t)
          BY <1>c, <3>3
        <4>2. Own(t) \cap reported' = Own(t) \cap reported /\ Own(t) \cap durable' = Own(t) \cap durable
          BY <1>b, <4>1
        <4>3. durable \subseteq durable'
          BY <1>b
        <4> QED
          BY <1>a, <2>i, <4>1, <4>2, <4>3 DEF ScopeAtomic
      <3> QED
        BY <3>1, <3>2, <3>3
    <2> QED
      BY <2>2, <2>3 DEF ScopeAtomic
  <1> QED
    BY <1>1, <1>2, <1>3, <1>4, <1>5, <1>6 DEF ScopesInv, BaseInv, NestInv

\* Every step keeps the invariant.
LEMMA NextInv ==
    ASSUME IInv, [Next]_vars
    PROVE  IInv'
  <1>1. CASE Next
    BY <1>1, OpenInv, ReadInv, BeginInv, DriverRollsBackInv, CommitInv, RollbackInv, NilTransactionInv,
       ExecuteInv, CloseInv DEF Next
  <1>2. CASE UNCHANGED vars
    <2>1. TypeOK'
      BY <1>2 DEF IInv, vars, openVars, txVars, readVars, TypeOK
    <2>2. ResourceInv'
      BY <1>2, ResourceFrame DEF IInv, vars
    <2>3. ScopesInv'
      BY <1>2, ScopesFrame DEF IInv, vars, openVars
    <2> QED
      BY <2>1, <2>2, <2>3 DEF IInv
  <1> QED
    BY <1>1, <1>2

\* The invariant holds throughout.
LEMMA Invariance == Spec => []IInv
  <1>1. IInv /\ [Next]_vars => IInv'
    BY NextInv
  <1> QED
    BY InitInv, <1>1, PTL DEF Spec

-----------------------------------------------------------------------------
\* Every variable keeps its type, whatever is opened, begun, executed or ended.
THEOREM TypeCorrect == Spec => []TypeOK
  <1>1. IInv => TypeOK
    BY DEF IInv
  <1> QED
    BY <1>1, Invariance, PTL

\* No way out of Open, Close or a read leaves a pool, a connection or a deadline behind, and attempts
\* are bounded by OpenRetries.
THEOREM NoLeaks == Spec => []NothingLeaks
  <1>1. IInv => NothingLeaks
    BY DEF IInv, ResourceInv
  <1> QED
    BY <1>1, Invariance, PTL

\* Commit and Rollback act on their own scope's transaction, and find none only after Close.
THEOREM OwnTransaction == Spec => []ScopeOwnsTransaction
  <1>1. IInv => ScopeOwnsTransaction
    BY DEF IInv, ScopesInv, BaseInv
  <1> QED
    BY <1>1, Invariance, PTL

\* With an engine that refuses a nested BEGIN a scope is all or nothing, and all when its Commit returned
\* no error, although the driver rolls an ended scope back behind the session's back.
THEOREM AllOrNothing == ASSUME RefusesNested PROVE Spec => []ScopeAtomic
  <1>1. IInv => ScopeAtomic
    BY DEF IInv, ScopesInv, NestInv
  <1> QED
    BY <1>1, Invariance, PTL

\* A statement that takes effect while the session has a scope falls into the scope's transaction.
LEMMA EnlistedStep ==
    ASSUME IInv, RefusesNested, EnlistmentTotal, [Next]_vars
    PROVE  EnlistmentTotal'
  <1> USE SessionAssumption
  <1> SUFFICES ASSUME NEW s \in Scopes, tx' = s
               PROVE  Own(s)' \cap durable' = {}
    BY DEF EnlistmentTotal
  <1>1. CASE UNCHANGED <<tx, durable, used, scopeOf>>
    BY <1>1 DEF EnlistmentTotal, Own
  <1>2. CASE \E t \in Scopes, c \in Contexts : Begin(t, c)
    <2>1. driver[s] = "unused" /\ UNCHANGED <<durable, used, scopeOf>>
      BY <1>2 DEF Begin
    <2> QED
      BY <2>1 DEF IInv, ScopesInv, BaseInv, FreshInv, Own
  <1>3. ASSUME NEW x \in Statements, NEW c \in Contexts, Execute(x, c)
        PROVE  Own(s)' \cap durable' = {}
    <2>1. tx = s /\ used' = used \cup {x} /\ scopeOf' = [scopeOf EXCEPT ![x] = tx] /\ x \notin used
      BY <1>3 DEF Execute
    <2>2. durable' = durable
      <3>1. CASE Live(s)
        <4>1. serverTx = s
          BY <3>1 DEF IInv, ScopesInv, NestInv, LiveInv
        <4> QED
          BY <1>3, <4>1 DEF Execute, Effect
      <3>2. CASE ~Live(s)
        BY <1>3, <2>1, <3>2 DEF Execute, Refused, rawExecutor
      <3> QED
        BY <3>1, <3>2
    <2>3. Own(s)' \subseteq Own(s) \cup {x} /\ x \notin durable
      BY <2>1 DEF Own, IInv, TypeOK, ScopesInv, BaseInv, TxInv
    <2> QED
      BY <2>1, <2>2, <2>3 DEF EnlistmentTotal
  <1>4. CASE \E t \in Scopes : Commit(t)
    BY <1>4 DEF Commit, Done
  <1>5. CASE \E t \in Scopes : Rollback(t)
    BY <1>5 DEF Rollback, Done
  <1>6. CASE Close
    BY <1>6 DEF Close
  <1>7. CASE \E t \in Scopes : DriverRollsBack(t) \/ NilTransaction(t)
    BY <1>1, <1>7 DEF DriverRollsBack, NilTransaction
  <1>8. CASE OpenStep \/ CloseRows \/ \E c \in Contexts : Open(c) \/ Query(c) \/ EndContext(c)
    <2>1. UNCHANGED <<txVars, used, scopeOf>>
      BY <1>8 DEF OpenStep, CreateConnection, pinConnection, PinFails, waitBeforeRetry, CloseRows, Open, Query,
                  EndContext
    <2> QED
      BY <1>1, <2>1 DEF txVars
  <1>9. CASE UNCHANGED vars
    BY <1>1, <1>9 DEF vars, txVars
  <1> QED
    BY <1>2, <1>3, <1>4, <1>5, <1>6, <1>7, <1>8, <1>9 DEF Next, OpenStep

\* With an engine that refuses a nested BEGIN no statement executed under a scope is in the database
\* before the scope ends.
THEOREM AlwaysEnlisted == ASSUME RefusesNested PROVE Spec => []EnlistmentTotal
  <1>1. Init => EnlistmentTotal
    BY DEF Init, EnlistmentTotal
  <1>2. IInv /\ EnlistmentTotal /\ [Next]_vars => EnlistmentTotal'
    BY EnlistedStep
  <1> QED
    BY <1>1, <1>2, Invariance, PTL DEF Spec

-----------------------------------------------------------------------------
(***************************************************************************)
(* The refinement of AtomicUnits.                                          *)
(***************************************************************************)
\* Nothing the abstract specification sees.
SameUnits == durable' = durable /\ tx' = tx /\ serverTx' = serverTx /\ pending' = pending

\* Every step is a step of AtomicUnits or changes nothing there.
LEMMA UnitStep ==
    ASSUME RefusesNested, IInv, [Next]_vars
    PROVE  Units!Next \/ SameUnits
  <1> USE SessionAssumption
  <1>i. /\ TypeOK /\ LiveInv
        /\ tx # NoTx => tx \in Scopes /\ phase = "open" /\ driver[tx] # "unused"
        /\ serverTx = NoTx => pending = {}
    BY DEF IInv, ScopesInv, BaseInv, NestInv, TxInv, TypeOK
  <1>1. ASSUME NEW c \in Contexts, Open(c) \/ Query(c) \/ EndContext(c)
        PROVE  SameUnits
    BY <1>1 DEF SameUnits, Open, Query, EndContext, txVars
  <1>2. ASSUME CreateConnection \/ pinConnection \/ waitBeforeRetry \/ CloseRows \/ UNCHANGED vars
        PROVE  SameUnits
    BY <1>2 DEF SameUnits, CreateConnection, pinConnection, waitBeforeRetry, CloseRows, vars, txVars
  <1>3. ASSUME NEW failure \in {"transient", "permanent", "canceled"}, PinFails(failure)
        PROVE  SameUnits
    BY <1>3 DEF SameUnits, PinFails, txVars
  <1>4. ASSUME NEW s \in Scopes, NilTransaction(s)
        PROVE  SameUnits
    BY <1>4 DEF SameUnits, NilTransaction
  <1>5. ASSUME NEW s \in Scopes, NEW c \in Contexts, Begin(s, c)
        PROVE  Units!Begin(s)
    BY <1>5 DEF Begin, BeginTx, Units!Begin
  <1>6. ASSUME NEW s \in Scopes, DriverRollsBack(s)
        PROVE  Units!Lose
    <2>1. serverTx = s
      BY <1>6, <1>i DEF DriverRollsBack, LiveInv
    <2> QED
      BY <1>6, <2>1 DEF DriverRollsBack, Undone, Units!Lose
  <1>7. ASSUME NEW s \in Scopes, Rollback(s)
        PROVE  Units!Lose \/ Units!Drop
    <2>1. CASE Live(tx) /\ Undone
      <3>1. serverTx = tx /\ tx # NoTx
        BY <1>7, <1>i, <2>1 DEF Rollback, LiveInv
      <3> QED
        BY <1>7, <2>1, <3>1 DEF Rollback, Done, Undone, Units!Lose
    <2>2. CASE UNCHANGED <<serverTx, pending>>
      BY <1>7, <2>2 DEF Rollback, Done, Units!Drop
    <2> QED
      BY <1>7, <2>1, <2>2 DEF Rollback
  <1>8. ASSUME Close
        PROVE  Units!Lose \/ Units!Drop \/ SameUnits
    <2>1. tx' = NoTx /\ serverTx' = NoTx /\ pending' = {} /\ durable' = durable
      BY <1>8 DEF Close, Undone
    <2> QED
      BY <1>i, <2>1 DEF SameUnits, Units!Lose, Units!Drop
  <1>9. ASSUME NEW s \in Scopes, Commit(s)
        PROVE  Units!Keep \/ Units!Lose \/ Units!Drop
    <2>1. tx' = NoTx /\ tx # NoTx /\ tx \in Scopes
      BY <1>9, <1>i DEF Commit, Done
    <2>2. CASE ~Claimed
      <3>1. serverTx = tx
        BY <1>i, <2>1, <2>2 DEF Claimed, LiveInv
      <3>2. \/ serverTx' = NoTx /\ pending' = {} /\ durable' \in {durable, durable \cup pending}
            \/ UNCHANGED <<serverTx, pending, durable>>
        BY <1>9, <2>2 DEF Commit, Undone
      <3> QED
        BY <2>1, <3>1, <3>2 DEF Units!Keep, Units!Lose, Units!Drop
    <2>3. CASE Claimed
      BY <1>9, <2>1, <2>3 DEF Commit, Units!Drop
    <2> QED
      BY <2>2, <2>3
  <1>10. ASSUME NEW x \in Statements, NEW c \in Contexts, Execute(x, c)
         PROVE  Units!Run(x) \/ Units!Alone(x) \/ SameUnits
    <2>1. tx' = tx /\ serverTx' = serverTx
      BY <1>10 DEF Execute
    <2>2. CASE UNCHANGED <<pending, durable>>
      BY <2>1, <2>2 DEF SameUnits
    <2>3. CASE ~Refused(c) /\ Effect(x)
      <3>1. tx = NoTx \/ (tx \in Scopes /\ Live(tx) /\ serverTx = tx)
        BY <1>i, <2>3 DEF Refused, rawExecutor, LiveInv
      <3> QED
        BY <2>1, <2>3, <3>1 DEF Effect, Units!Run, Units!Alone
    <2> QED
      BY <1>10, <2>2, <2>3 DEF Execute
  <1> QED
    BY <1>1, <1>2, <1>3, <1>4, <1>5, <1>6, <1>7, <1>8, <1>9, <1>10 DEF Next, Units!Next

\* With an engine that refuses a nested BEGIN the statements of a scope reach the database as one unit,
\* kept whole by the scope's own Commit or lost whole.
THEOREM ImplementsUnits == ASSUME RefusesNested PROVE Spec => RefinesUnits
  <1>1. Init => Units!Init
    BY DEF Init, Units!Init
  <1>2. IInv /\ [Next]_vars => [Units!Next]_<<durable, tx, serverTx, pending>>
    BY UnitStep DEF SameUnits
  <1> QED
    BY <1>1, <1>2, Invariance, PTL DEF Spec, RefinesUnits, Units!Spec

=============================================================================
