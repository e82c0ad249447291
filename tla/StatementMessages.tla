-------------------------- MODULE StatementMessages --------------------------
(***************************************************************************)
(* How a planned message becomes round trips.  PostgreSQL pipelines the    *)
(* statements up to one Sync (postgres/batch.go), SQL Server gets one text *)
(* with the parameters renamed apart (sqlserver/batch.go); what neither    *)
(* can carry goes on its own, between them.  A single statement on         *)
(* PostgreSQL runs a plan the connection cached and is retried once when   *)
(* the schema changed under it (postgres/driver.go).                       *)
(*                                                                         *)
(* The server is external: it works through what was sent while the client *)
(* reads, and leaves its answers on a stream only the reader empties.  A   *)
(* cancelled or timed-out statement is one the server rejects.             *)
(***************************************************************************)
EXTENDS Integers, Sequences, FiniteSets, SequencesExt

CONSTANTS
    Messages,          \* dialect -> the messages the session forms
    Singles,           \* dialect -> the statements it runs outside a message
    Policies,          \* the CachedPlanPolicy values
    MaxCalls,          \* bound: calls on the connection
    MaxFaults,         \* bound: statements the server does not execute, or answers with no usable scalar
    MaxSchemaChanges   \* bound: schema changes by somebody else

\* A statement is its text, the placeholders in it and what its result is read from.
IsStatement(s) ==
    /\ s.placeholders \in Seq(ToSet(s.placeholders))
    /\ s.result \in {"none", "key", "count", "driver"}

ASSUME MessagesAssumption ==
    /\ DOMAIN Messages \subseteq {"postgres", "sqlserver"} /\ DOMAIN Singles = DOMAIN Messages
    /\ \A d \in DOMAIN Messages :
          /\ \A m \in Messages[d] : m \in Seq(ToSet(m)) /\ \A i \in DOMAIN m : IsStatement(m[i])
          /\ \A s \in Singles[d] : IsStatement(s)
    /\ Policies \subseteq {"retryOnce", "surface"}
    /\ MaxCalls \in Nat /\ MaxFaults \in Nat /\ MaxSchemaChanges \in Nat

VARIABLES
    dialect, policy,
    call,       \* the number of the call in progress, its statements and where it runs
    phase,      \* "idle", "loop", "reading", "draining", "prepare", "execute"
    start,      \* the first statement that has not been sent
    at,         \* the statement whose result is read next
    results,    \* per statement, whose answer was taken for its result
    error,      \* the first error of the call: "none", "rejected", "unusable", "stale"
    outcome,    \* of the last call: "none", "ok" or the error
    attempt,    \* the runs of a single statement
    wire,       \* what the server has not worked through
    stream,     \* the answers nobody has read
    skipping,   \* PostgreSQL drops what it gets up to the Sync
    ran,        \* the statements of the call that took effect, with the values they saw
    plan,       \* per SQL text, the schema it was prepared against on this connection; 0 is not cached
    schema, faults,
    disturbed   \* what happened since the call began: "fault", "schema"

clientVars == <<call, phase, start, at, results, error, outcome, attempt>>
serverVars == <<wire, stream, skipping, ran, faults>>
fixed == <<dialect, policy>>
vars == <<fixed, clientVars, serverVars, plan, schema, disturbed>>

Statement(i) == call.statements[i]

Last_ == Len(call.statements)

\* Every argument of a call is its own value.
Value(i, name) == <<call.number, i, name>>

-----------------------------------------------------------------------------
(***************************************************************************)
(* What is sent together                                                   *)
(***************************************************************************)
\* Several statements in one text: something real after a semicolon.
hasMultipleStatements(text) ==
    \E i, j \in DOMAIN text : i < j /\ text[i] = "semicolon" /\ text[j] = "word"

\* pgx cannot prepare several statements; SQL Server's driver cannot tell a count from its neighbours'.
needsItsOwnMessage(s) ==
    s.result = "driver" /\ (dialect = "postgres" => hasMultipleStatements(s.text))

returnsScalar(s) == s.result \in {"key", "count"}

\* The statements from start that go out together.
End == CHOOSE e \in start..(Last_ + 1) :
          /\ e = Last_ + 1 \/ needsItsOwnMessage(Statement(e))
          /\ \A i \in start..(e - 1) : ~needsItsOwnMessage(Statement(i))

\* PostgreSQL answers every statement, SQL Server the ones with a scalar.
Answered(i) == dialect = "postgres" \/ returnsScalar(Statement(i))

NextAnswered(from) == CHOOSE i \in from..End : /\ i = End \/ Answered(i)
                                               /\ \A j \in from..(i - 1) : ~Answered(j)

-----------------------------------------------------------------------------
(***************************************************************************)
(* Parameters                                                              *)
(***************************************************************************)
\* The place of a name's first appearance.
First(spans, k) == CHOOSE j \in DOMAIN spans : spans[j] = spans[k] /\ \A i \in 1..(j - 1) : spans[i] # spans[k]

\* A name's $n: how many names have appeared by then.
Ordinal(spans, k) == Cardinality({spans[i] : i \in 1..First(spans, k)})

\* The names in the order of their first appearance, and per occurrence its $n.
rewritePlaceholders(s) ==
    LET spans == s.placeholders
    IN  [names |-> [n \in 1..Cardinality(ToSet(spans)) |-> spans[CHOOSE k \in DOMAIN spans : Ordinal(spans, k) = n]],
         ordinals |-> [k \in DOMAIN spans |-> Ordinal(spans, k)]]

\* The values in $n order.
arrange(names, i) == [n \in DOMAIN names |-> Value(i, names[n])]

SeenByPipeline(i) ==
    LET r == rewritePlaceholders(Statement(i))
        values == arrange(r.names, i)
    IN  [k \in DOMAIN r.ordinals |-> values[r.ordinals[k]]]

\* The index is the statement's place in its text.
renameApart(i, name) == <<i - start, name>>

\* The named arguments of the whole text; a name that is declared twice is refused by the server.
joinMessage ==
    UNION {{[name |-> renameApart(i, n), value |-> Value(i, n)] : n \in ToSet(Statement(i).placeholders)} : i \in start..(End - 1)}

Declared(args) == \A a, b \in args : a.name = b.name => a = b

SeenInText(args, i) ==
    [k \in DOMAIN Statement(i).placeholders |->
        (CHOOSE a \in args : a.name = renameApart(i, Statement(i).placeholders[k])).value]

-----------------------------------------------------------------------------
(***************************************************************************)
(* The calls: a planned message, always in a transaction, or one statement *)
(***************************************************************************)
Calls(statements, inTx, explicit) ==
    /\ phase = "idle" /\ call.number < MaxCalls
    /\ call' = [number |-> call.number + 1, statements |-> statements, inTx |-> inTx, explicit |-> explicit]
    /\ start' = 1 /\ results' = [i \in DOMAIN statements |-> 0] /\ error' = "none" /\ attempt' = 1
    /\ ran' = <<>> /\ disturbed' = {}
    /\ UNCHANGED <<fixed, at, outcome, wire, stream, skipping, faults, plan, schema>>

SendMessage(statements) == Calls(statements, TRUE, FALSE) /\ phase' = "loop"

\* An immediate statement, or one the caller prepared.
ExecContext(s, inTx, explicit) == Calls(<<s>>, inTx, explicit) /\ phase' = "prepare"

\* Mutant of Sending: the loop goes on after a segment that failed.
SendingOn == phase = "loop" /\ start <= Last_

Sending == phase = "loop" /\ start <= Last_ /\ error = "none"

\* The loop of SendMessage is through, or a segment failed.
Finish ==
    /\ phase = "loop" /\ ~Sending
    /\ phase' = "idle" /\ outcome' = IF error = "none" THEN "ok" ELSE error
    /\ UNCHANGED <<fixed, call, start, at, results, error, attempt, serverVars, plan, schema, disturbed>>

\* A text is prepared once per connection and kept; an error drops it.
Cached(indexes) ==
    LET texts == {Statement(i).sql : i \in indexes}
    IN  [sql \in DOMAIN plan |-> IF plan[sql] = 0 /\ sql \in texts THEN schema ELSE plan[sql]]

Invalidated(indexes) ==
    LET texts == {Statement(i).sql : i \in indexes} IN [sql \in DOMAIN plan |-> IF sql \in texts THEN 0 ELSE plan[sql]]

Sync == [of |-> 0, sees |-> <<>>]

Item(k, sees) == [of |-> start + k - 1, sees |-> sees]

sendPipeline ==
    /\ Sending /\ dialect = "postgres" /\ End > start
    /\ phase' = "reading" /\ at' = start
    /\ plan' = Cached(start..(End - 1))
    /\ wire' = [k \in 1..(End - start) |-> Item(k, SeenByPipeline(start + k - 1))] \o <<Sync>>
    /\ UNCHANGED <<fixed, call, start, results, error, outcome, attempt, stream, skipping, ran, faults, schema, disturbed>>

\* One text with one list of arguments, refused whole when a name is declared twice; without a scalar
\* to read only its error matters.
sendText ==
    LET args == joinMessage
    IN  /\ Sending /\ dialect = "sqlserver" /\ End > start
        /\ at' = NextAnswered(start)
        /\ phase' = IF at' = End THEN "draining" ELSE "reading"
        /\ wire' = (IF Declared(args) THEN [k \in 1..(End - start) |-> Item(k, SeenInText(args, start + k - 1))] ELSE <<>>)
                   \o <<Sync>>
        /\ stream' = IF Declared(args) THEN <<>> ELSE <<[kind |-> "rejected", of |-> 0]>>
        /\ UNCHANGED <<fixed, call, start, results, error, outcome, attempt, skipping, ran, faults, plan, schema, disturbed>>

\* A statement that cannot share a message runs on the session's executor.
sendAlone ==
    /\ Sending /\ End = start
    /\ phase' = "prepare" /\ attempt' = 1
    /\ UNCHANGED <<fixed, call, start, at, results, error, outcome, serverVars, plan, schema, disturbed>>

-----------------------------------------------------------------------------
(***************************************************************************)
(* Reading the answers                                                     *)
(***************************************************************************)
\* Mutant of readResult: after an error the reader asks for the next statement's result.
readOn ==
    LET answer == Head(stream)
    IN  /\ phase = "reading" /\ stream # <<>> /\ answer.kind # "end"
        /\ stream' = Tail(stream)
        /\ results' = [results EXCEPT ![at] = answer.of] /\ at' = NextAnswered(at + 1)
        /\ error' = IF answer.kind = "result" THEN error ELSE answer.kind
        /\ phase' = IF at' = End THEN "draining" ELSE "reading"
        /\ UNCHANGED <<fixed, call, start, outcome, attempt, wire, skipping, ran, faults, plan, schema, disturbed>>

\* The next statement's result, in statement order; an error, no row, no column, something that is no
\* integer, or no result at all ends the reading.
readResult ==
    LET answer == Head(stream)
    IN  /\ phase = "reading" /\ stream # <<>>
        /\ \/ /\ answer.kind = "result"
              /\ stream' = Tail(stream)
              /\ results' = [results EXCEPT ![at] = answer.of] /\ at' = NextAnswered(at + 1)
              /\ error' = error
              /\ phase' = IF at' = End THEN "draining" ELSE "reading"
           \/ /\ answer.kind # "result"
              /\ stream' = IF answer.kind = "end" THEN stream ELSE Tail(stream)
              /\ error' = IF answer.kind = "end" THEN "rejected" ELSE answer.kind
              /\ phase' = "draining"
              /\ UNCHANGED <<results, at>>
        /\ UNCHANGED <<fixed, call, start, outcome, attempt, wire, skipping, ran, faults, plan, schema, disturbed>>

\* Mutant of Drain: what the rest of the response says is not looked at.
DrainUnread ==
    /\ phase = "draining" /\ stream # <<>>
    /\ stream' = Tail(stream)
    /\ IF Head(stream).kind = "end" THEN phase' = "loop" /\ start' = End ELSE UNCHANGED <<phase, start>>
    /\ UNCHANGED <<fixed, call, at, results, error, outcome, attempt, wire, skipping, ran, faults, plan, schema, disturbed>>

\* Mutant of Drain: the reader leaves at the first error.
DrainNothing ==
    /\ phase = "draining" /\ stream # <<>>
    /\ stream' = Tail(stream)
    /\ IF Head(stream).kind = "end" \/ error # "none" THEN phase' = "loop" /\ start' = End ELSE UNCHANGED <<phase, start>>
    /\ UNCHANGED <<fixed, call, at, results, error, outcome, attempt, wire, skipping, ran, faults, plan, schema, disturbed>>

\* pending.Close, the last loop of readScalars, rows.Close: the response is read to its end.  The driver
\* drops its plans for an error of the server, before or behind a result the reader could not use.
Drain ==
    LET answer == Head(stream)
    IN  /\ phase = "draining" /\ stream # <<>>
        /\ stream' = Tail(stream)
        /\ error' = IF error = "none" /\ answer.kind \notin {"result", "end"} THEN answer.kind ELSE error
        /\ IF answer.kind = "end"
           THEN /\ phase' = "loop" /\ start' = End
                /\ plan' \in CASE error = "none" -> {plan}
                              [] error = "unusable" -> {plan, Invalidated(start..(End - 1))}
                              [] OTHER -> {Invalidated(start..(End - 1))}
           ELSE UNCHANGED <<phase, start, plan>>
        /\ UNCHANGED <<fixed, call, at, results, outcome, attempt, wire, skipping, ran, faults, schema, disturbed>>

-----------------------------------------------------------------------------
(***************************************************************************)
(* One statement on its own                                                *)
(***************************************************************************)
Prepare ==
    /\ phase = "prepare"
    /\ phase' = "execute"
    /\ plan' = IF dialect = "postgres" THEN Cached({start}) ELSE plan
    /\ UNCHANGED <<fixed, call, start, at, results, error, outcome, attempt, serverVars, schema, disturbed>>

Stale(i) == dialect = "postgres" /\ plan[Statement(i).sql] # schema

\* Mutant of retriesCachedPlan: the error always surfaces.
retriesNever == FALSE

retriesCachedPlan == policy = "retryOnce" /\ ~call.inTx /\ ~call.explicit /\ attempt = 1

\* Back in the loop with the statement's result.
Executed(kind) ==
    /\ phase' = "loop" /\ start' = start + 1 /\ error' = kind
    /\ results' = IF kind = "none" THEN [results EXCEPT ![start] = start] ELSE results

Sees(i) == [k \in DOMAIN Statement(i).placeholders |-> Value(i, Statement(i).placeholders[k])]

Execute ==
    /\ phase = "execute"
    /\ \/ /\ Stale(start)
          /\ plan' = Invalidated({start})
          /\ IF retriesCachedPlan
             THEN phase' = "prepare" /\ attempt' = 2 /\ UNCHANGED <<start, error, results>>
             ELSE Executed("stale") /\ UNCHANGED attempt
          /\ UNCHANGED <<ran, faults, disturbed>>
       \/ /\ ~Stale(start)
          /\ ran' = Append(ran, [of |-> start, sees |-> Sees(start)])
          /\ Executed("none")
          /\ UNCHANGED <<plan, attempt, faults, disturbed>>
       \/ /\ ~Stale(start) /\ faults < MaxFaults
          /\ faults' = faults + 1 /\ disturbed' = disturbed \cup {"fault"}
          /\ plan' = Invalidated({start})
          /\ Executed("rejected")
          /\ UNCHANGED <<ran, attempt>>
    /\ UNCHANGED <<fixed, call, at, outcome, wire, stream, skipping, schema>>

-----------------------------------------------------------------------------
(***************************************************************************)
(* The server                                                              *)
(***************************************************************************)
Answer(kind, of) == <<[kind |-> kind, of |-> of]>>

Works(item, kind) ==
    /\ ran' = Append(ran, item)
    /\ stream' = IF Answered(item.of) THEN stream \o Answer(kind, item.of) ELSE stream

Faulty == faults < MaxFaults /\ faults' = faults + 1 /\ disturbed' = disturbed \cup {"fault"}

\* A statement that runs and whose scalar is missing or not an integer: no error to the server.
Unusable(item) == returnsScalar(Statement(item.of)) /\ Faulty /\ Works(item, "unusable")

\* PostgreSQL executes in order, answers each statement, and after an error drops everything up to the Sync.
PipelineServer ==
    LET item == Head(wire)
    IN  /\ dialect = "postgres" /\ wire # <<>>
        /\ wire' = Tail(wire)
        /\ \/ /\ item = Sync
              /\ stream' = stream \o Answer("end", 0) /\ skipping' = FALSE
              /\ UNCHANGED <<ran, faults, disturbed>>
           \/ /\ item # Sync /\ skipping
              /\ UNCHANGED <<stream, skipping, ran, faults, disturbed>>
           \/ /\ item # Sync /\ ~skipping /\ Stale(item.of)
              /\ stream' = stream \o Answer("stale", 0) /\ skipping' = TRUE
              /\ UNCHANGED <<ran, faults, disturbed>>
           \/ /\ item # Sync /\ ~skipping /\ ~Stale(item.of)
              /\ Works(item, "result")
              /\ UNCHANGED <<skipping, faults, disturbed>>
           \/ /\ item # Sync /\ ~skipping /\ ~Stale(item.of)
              /\ Unusable(item)
              /\ UNCHANGED skipping
           \/ /\ item # Sync /\ ~skipping /\ ~Stale(item.of) /\ Faulty
              /\ stream' = stream \o Answer("rejected", 0) /\ skipping' = TRUE
              /\ UNCHANGED ran
        /\ UNCHANGED <<fixed, clientVars, plan, schema>>

\* SQL Server goes on after a statement that failed, whose select still answers with something else's
\* number, unless the error ends the batch.
TextServer ==
    LET item == Head(wire)
    IN  /\ dialect = "sqlserver" /\ wire # <<>>
        /\ \/ /\ item = Sync
              /\ wire' = Tail(wire) /\ stream' = stream \o Answer("end", 0)
              /\ UNCHANGED <<ran, faults, disturbed>>
           \/ /\ item # Sync
              /\ wire' = Tail(wire) /\ Works(item, "result")
              /\ UNCHANGED <<faults, disturbed>>
           \/ item # Sync /\ wire' = Tail(wire) /\ Unusable(item)
           \/ /\ item # Sync /\ Faulty
              /\ wire' = Tail(wire)
              /\ stream' = stream \o Answer("rejected", 0)
                           \o (IF Answered(item.of) THEN Answer("result", 0) ELSE <<>>)
              /\ UNCHANGED ran
           \/ /\ item # Sync /\ Faulty
              /\ wire' = <<Sync>> /\ stream' = stream \o Answer("rejected", 0)
              /\ UNCHANGED ran
        /\ UNCHANGED <<fixed, clientVars, skipping, plan, schema>>

\* Another session alters the table.
ChangeSchema ==
    /\ schema <= MaxSchemaChanges
    /\ schema' = schema + 1 /\ disturbed' = disturbed \cup {"schema"}
    /\ UNCHANGED <<fixed, clientVars, serverVars, plan>>

-----------------------------------------------------------------------------
Texts(d) == {s.sql : s \in Singles[d] \cup UNION {ToSet(m) : m \in Messages[d]}}

Init ==
    /\ dialect \in DOMAIN Messages /\ policy \in Policies
    /\ call = [number |-> 0, statements |-> <<>>, inTx |-> FALSE, explicit |-> FALSE]
    /\ phase = "idle" /\ start = 1 /\ at = 1 /\ results = <<>> /\ error = "none" /\ outcome = "none" /\ attempt = 1
    /\ wire = <<>> /\ stream = <<>> /\ skipping = FALSE /\ ran = <<>>
    /\ plan = [sql \in Texts(dialect) |-> 0]
    /\ schema = 1 /\ faults = 0 /\ disturbed = {}

ClientStep == Finish \/ sendPipeline \/ sendText \/ sendAlone \/ readResult \/ Drain \/ Prepare \/ Execute

ServerStep == PipelineServer \/ TextServer

Next ==
    \/ \E m \in Messages[dialect] : SendMessage(m)
    \/ \E s \in Singles[dialect], inTx, explicit \in BOOLEAN : ExecContext(s, inTx, explicit)
    \/ Finish \/ sendPipeline \/ sendText \/ sendAlone \/ readResult \/ Drain \/ Prepare \/ Execute
    \/ PipelineServer \/ TextServer
    \/ ChangeSchema

Spec == Init /\ [][Next]_vars

\* The caller runs on, and the server works through what it was sent.
FairSpec == Spec /\ WF_vars(ClientStep) /\ WF_vars(ServerStep)

-----------------------------------------------------------------------------
(***************************************************************************)
(* The inductive invariant behind the safety properties                    *)
(***************************************************************************)
\* What the client may put on the wire: the Sync and the call's statements with their own values.
Items == {Sync} \cup {[of |-> i, sees |-> Sees(i)] : i \in 1..Last_}

\* What the server may leave on the stream.
Answers == [kind: {"result", "rejected", "unusable", "stale", "end"}, of: Nat]

CallOK ==
    /\ dialect \in DOMAIN Messages /\ policy \in Policies
    /\ call \in [number: Nat, statements: {call.statements}, inTx: BOOLEAN, explicit: BOOLEAN]
    /\ call.statements \in Seq(ToSet(call.statements))
    /\ \A i \in 1..Last_ : IsStatement(Statement(i)) /\ Statement(i).sql \in Texts(dialect)

ClientOK ==
    /\ phase \in {"idle", "loop", "reading", "draining", "prepare", "execute"}
    /\ start \in 1..(Last_ + 1) /\ at \in Nat /\ results \in [1..Last_ -> Nat] /\ attempt \in {1, 2}
    /\ error \in {"none", "rejected", "unusable", "stale"} /\ outcome \in {"none", "ok", "rejected", "unusable", "stale"}

ServerOK ==
    /\ wire \in Seq(Items) /\ ran \in Seq(Items \ {Sync}) /\ skipping \in BOOLEAN
    /\ stream \in Seq(Answers)

PlanOK == plan \in [Texts(dialect) -> Nat] /\ schema \in Nat /\ faults \in Nat /\ disturbed \subseteq {"fault", "schema"}

TypeOK == CallOK /\ ClientOK /\ ServerOK /\ PlanOK

\* A message is out.
Sent == phase \in {"reading", "draining"}

\* A message is answered by one end, and the end is what is read last.
ResponseInv ==
    IF ~Sent THEN wire = <<>> /\ stream = <<>> /\ ~skipping
    ELSE /\ start < End /\ call.inTx
         /\ \/ /\ wire # <<>> /\ wire[Len(wire)] = Sync
               /\ \A i \in DOMAIN stream : stream[i].kind # "end"
            \/ /\ wire = <<>> /\ ~skipping /\ stream # <<>> /\ stream[Len(stream)].kind = "end"
               /\ \A i \in 1..(Len(stream) - 1) : stream[i].kind # "end"

\* The wire holds the last statements of the message, in order.
WireInv ==
    Sent => \A i \in 1..(Len(wire) - 1) : /\ wire[i].of = End - Len(wire) + i
                                          /\ wire[i].of >= start

\* The first statement the server has not come to.
Reached == IF ~Sent THEN start ELSE IF wire = <<>> THEN End ELSE End + 1 - Len(wire)

\* The client knows of an error, or will.
Failing == error # "none" \/ \E i \in DOMAIN stream : stream[i].kind \in {"rejected", "unusable", "stale"}

\* Everything before that place has run, in order.
RanAll == Len(ran) = Reached - 1 /\ \A i \in DOMAIN ran : ran[i].of = i

\* It has until an error, and on PostgreSQL, which runs nothing between an error and the Sync, until it
\* skips.
RanInv ==
    /\ \A i \in DOMAIN ran : ran[i].of < Reached
    /\ ~Failing => RanAll
    /\ Sent /\ dialect = "postgres" /\ wire # <<>> => (skipping => Failing) /\ (~skipping => RanAll)
    /\ dialect = "sqlserver" => ~skipping

\* The answers up to i are results.
Clean(i) == \A j \in 1..i : stream[j].kind = "result"

\* While results are read, the answers up to the first error are those of the statements that are
\* still to be read, in order and without a gap, and the server owes no answer before them.
StreamInv ==
    phase = "reading" =>
        /\ error = "none" /\ at \in start..(End - 1) /\ Answered(at)
        /\ \A i \in Reached..(at - 1) : ~Answered(i)
        /\ \A i \in DOMAIN stream : Clean(i) =>
              /\ stream[i].of \in at..(Reached - 1) /\ Answered(stream[i].of)
              /\ \A j \in 1..(i - 1) : stream[j].of < stream[i].of
              /\ \A a \in at..stream[i].of : Answered(a) => \E j \in 1..i : stream[j].of = a
        /\ ~Failing => \A a \in at..(Reached - 1) : Answered(a) => \E i \in DOMAIN stream : stream[i].kind = "result" /\ stream[i].of = a

\* Until an error every result that was read is its statement's own.
ReadInv ==
    error = "none" =>
        /\ \A i \in 1..(start - 1) : Statement(i).result # "none" => results[i] = i
        /\ phase = "reading" => \A i \in start..(at - 1) : Answered(i) => results[i] = i
        /\ phase = "draining" => \A i \in start..(End - 1) : Answered(i) => results[i] = i

\* Outside a transaction there are only single statements.
SingleInv == ~call.inTx => Last_ <= 1 /\ (phase = "loop" => start > Last_)

\* A stale plan may surface.
Excused == "schema" \in disturbed \/ call.inTx \/ call.explicit \/ policy = "surface"

\* Every error has its cause, and a retry runs a plan made after the call began.
CauseInv ==
    /\ error \in {"rejected", "unusable"} => "fault" \in disturbed
    /\ \A i \in DOMAIN stream : stream[i].kind \in {"rejected", "unusable"} => "fault" \in disturbed
    /\ error = "stale" => Excused
    /\ phase \in {"prepare", "execute"} => start <= Last_ /\ error = "none"
    /\ attempt = 2 /\ ~Excused /\ dialect = "postgres" =>
          /\ phase = "prepare" => plan[Statement(start).sql] = 0
          /\ phase = "execute" => plan[Statement(start).sql] = schema

-----------------------------------------------------------------------------
(***************************************************************************)
(* Properties                                                              *)
(***************************************************************************)
\* The contract of core.StatementBatcher: a call that returns no error has run every statement once, in
\* order, each with the values bound to its own placeholders, and every result that is read is the
\* statement's own, whatever was skipped, rejected or left running by earlier calls on the connection.
ResultsAttributed ==
    phase = "idle" /\ outcome = "ok" =>
        /\ ran = [i \in 1..Last_ |-> [of |-> i, sees |-> Sees(i)]]
        /\ \A i \in 1..Last_ : Statement(i).result # "none" => results[i] = i

\* No answer outlives its message: between two segments and after every return, with or without an
\* error, nothing is left to execute or to read, so the session's next statement reads its own answer
\* (pending.Close, rows.Close).
NothingUnread == phase \notin {"reading", "draining"} => wire = <<>> /\ stream = <<>> /\ ~skipping

\* Statements never overtake each other, and on PostgreSQL nothing after a statement that was refused
\* runs, although later segments go out on their own (SendMessage's early returns).
RanInOrder ==
    \A i, j \in DOMAIN ran : /\ i < j => ran[i].of < ran[j].of
                             /\ dialect = "postgres" => ran[i].of = i

\* A call fails only because the server refused a statement, answered it with no usable scalar, or the
\* schema changed; and a schema change that was over before an immediate statement outside a
\* transaction began never surfaces (readResult, retriesCachedPlan, renameApart).
FailuresExplained ==
    phase = "idle" /\ outcome \notin {"none", "ok"} =>
        /\ outcome \in {"rejected", "unusable"} => "fault" \in disturbed
        /\ outcome = "stale" => \/ "schema" \in disturbed
                               \/ call.inTx \/ call.explicit \/ policy = "surface"

\* Every call returns: a reader never waits for an answer the server will not send.
CallsReturn == phase # "idle" ~> phase = "idle"

=============================================================================
