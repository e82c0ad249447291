----------------------- MODULE StatementMessages_proofs -----------------------
(***************************************************************************)
(* What StatementMessages promises, for every set of messages and single   *)
(* statements, both dialects and every number of faults and schema         *)
(* changes: results are attributed to their own statements, nothing is     *)
(* left unread, statements run in order and every failure has its cause.   *)
(***************************************************************************)
EXTENDS StatementMessages, FiniteSetTheorems, WellFoundedInduction, NaturalsInduction, TLAPS

-----------------------------------------------------------------------------
(***************************************************************************)
(* Sequences                                                               *)
(***************************************************************************)
LEMMA Appended ==
    ASSUME NEW S, NEW s \in Seq(S), NEW e \in S
    PROVE  /\ Append(s, e) \in Seq(S) /\ Len(Append(s, e)) = Len(s) + 1 /\ Append(s, e)[Len(s) + 1] = e
           /\ \A i \in 1..Len(s) : Append(s, e)[i] = s[i]
  OBVIOUS

\* Length and elements of a concatenation.
LEMMA Concatenated ==
    ASSUME NEW S, NEW s \in Seq(S), NEW t \in Seq(S)
    PROVE  /\ s \o t \in Seq(S) /\ Len(s \o t) = Len(s) + Len(t)
           /\ \A i \in 1..Len(s) : (s \o t)[i] = s[i]
           /\ \A i \in 1..Len(t) : (s \o t)[Len(s) + i] = t[i]
  OBVIOUS

\* A sequence with a length is not empty.
LEMMA NonEmpty ==
    ASSUME NEW S, NEW s \in Seq(S), Len(s) # 0
    PROVE  s # <<>>
  OBVIOUS

\* Head and tail of a sequence that is not empty.
LEMMA TailIs ==
    ASSUME NEW S, NEW s \in Seq(S), s # <<>>
    PROVE  /\ Len(s) \in Nat /\ Len(s) >= 1 /\ Head(s) = s[1] /\ s[1] \in S
           /\ Tail(s) \in Seq(S) /\ Len(Tail(s)) = Len(s) - 1
           /\ \A i \in 1..(Len(s) - 1) : Tail(s)[i] = s[i + 1]
           /\ Len(s) # 1 => Tail(s) # <<>>
  <1> DEFINE t == Tail(s)
  <1>1. /\ Len(s) \in Nat /\ Len(s) >= 1 /\ Head(s) = s[1] /\ s[1] \in S
        /\ Tail(s) \in Seq(S) /\ Len(Tail(s)) = Len(s) - 1
        /\ \A i \in 1..(Len(s) - 1) : Tail(s)[i] = s[i + 1]
    OBVIOUS
  <1>2. t \in Seq(S) /\ Len(t) = Len(s) - 1
    BY <1>1
  <1> HIDE DEF t
  <1>3. Len(s) # 1 => Len(t) # 0
    BY <1>1, <1>2
  <1>4. Len(s) # 1 => t # <<>>
    BY <1>2, <1>3, NonEmpty
  <1> QED
    BY <1>1, <1>4 DEF t

-----------------------------------------------------------------------------
(***************************************************************************)
(* What goes out together, and what is answered next                       *)
(***************************************************************************)
\* A non-empty set of naturals has a least member.
LEMMA Least ==
    ASSUME NEW S, S \subseteq Nat, S # {}
    PROVE  \E x \in S : \A y \in S : x <= y
  <1>1. PICK x \in S : \A y \in S : ~ (<<y, x>> \in OpToRel(<, Nat))
    BY NatLessThanWellFounded, WFMin
  <1>2. x \in Nat /\ \A y \in S : y \in Nat /\ ~ (y < x)
    BY <1>1 DEF OpToRel
  <1>3. \A y \in S : x <= y
    BY <1>2
  <1> QED
    BY <1>3

\* The first place from m up to n + 1 that is n + 1 or in S.
LEMMA FirstPlace ==
    ASSUME NEW m \in Nat, NEW n \in Nat, m <= n, NEW S
    PROVE  \E e \in m..n : (e = n \/ e \in S) /\ \A i \in m..(e - 1) : i \notin S
  <1> DEFINE T == {e \in m..n : e = n \/ e \in S}
  <1>1. T \subseteq Nat /\ n \in T
    OBVIOUS
  <1>2. PICK e \in T : \A y \in T : e <= y
    BY <1>1, Least
  <1>3. ASSUME NEW i \in m..(e - 1), i \in S
        PROVE  FALSE
    <2>1. i \in T
      BY <1>2, <1>3
    <2> QED
      BY <1>2, <2>1
  <1> QED
    BY <1>2, <1>3

\* A message ends at the first statement that goes on its own.
LEMMA EndIs ==
    ASSUME Last_ \in Nat, start \in 1..(Last_ + 1)
    PROVE  /\ End \in start..(Last_ + 1)
           /\ End = Last_ + 1 \/ needsItsOwnMessage(Statement(End))
           /\ \A i \in start..(End - 1) : ~needsItsOwnMessage(Statement(i))
  <1> DEFINE S == {i \in start..(Last_ + 1) : needsItsOwnMessage(Statement(i))}
  <1>0. start \in Nat /\ Last_ + 1 \in Nat /\ start <= Last_ + 1
    OBVIOUS
  <1> HIDE DEF S
  <1>1. \E e \in start..(Last_ + 1) : (e = Last_ + 1 \/ e \in S) /\ \A i \in start..(e - 1) : i \notin S
    BY <1>0, FirstPlace
  <1>2. \E e \in start..(Last_ + 1) : /\ e = Last_ + 1 \/ needsItsOwnMessage(Statement(e))
                                      /\ \A i \in start..(e - 1) : ~needsItsOwnMessage(Statement(i))
    BY <1>0, <1>1 DEF S
  <1> QED
    BY <1>2 DEF End

\* The next statement with an answer, or the end of the segment.
LEMMA NextIs ==
    ASSUME End \in Nat, NEW from \in Nat, from <= End
    PROVE  /\ NextAnswered(from) \in from..End
           /\ NextAnswered(from) = End \/ Answered(NextAnswered(from))
           /\ \A j \in from..(NextAnswered(from) - 1) : ~Answered(j)
  <1> DEFINE S == {i \in from..End : Answered(i)}
  <1>1. \E e \in from..End : (e = End \/ e \in S) /\ \A i \in from..(e - 1) : i \notin S
    BY FirstPlace
  <1>2. \E i \in from..End : (i = End \/ Answered(i)) /\ \A j \in from..(i - 1) : ~Answered(j)
    BY <1>1
  <1> QED
    BY <1>2 DEF NextAnswered

-----------------------------------------------------------------------------
(***************************************************************************)
(* Every statement sees its own values                                     *)
(***************************************************************************)
\* First is the place of a name's first appearance.
LEMMA FirstIs ==
    ASSUME NEW spans, spans \in Seq(ToSet(spans)), NEW k \in DOMAIN spans
    PROVE  /\ First(spans, k) \in DOMAIN spans /\ spans[First(spans, k)] = spans[k]
           /\ \A i \in 1..(First(spans, k) - 1) : spans[i] # spans[k]
  <1> DEFINE S == {j \in DOMAIN spans : spans[j] = spans[k]}
  <1>1. DOMAIN spans = 1..Len(spans) /\ Len(spans) \in Nat
    OBVIOUS
  <1>2. S \subseteq Nat /\ k \in S
    BY <1>1
  <1>3. PICK j \in S : \A y \in S : j <= y
    BY <1>2, Least
  <1>4. ASSUME NEW i \in 1..(j - 1), spans[i] = spans[k]
        PROVE  FALSE
    <2>1. i \in DOMAIN spans /\ ~(j <= i)
      BY <1>1, <1>3
    <2> QED
      BY <1>3, <1>4, <2>1
  <1>5. \E j_1 \in DOMAIN spans : spans[j_1] = spans[k] /\ \A i \in 1..(j_1 - 1) : spans[i] # spans[k]
    BY <1>3, <1>4
  <1> QED
    BY <1>5 DEF First

\* The members of a sequence are finitely many.
LEMMA FiniteRange ==
    ASSUME NEW spans, spans \in Seq(ToSet(spans))
    PROVE  IsFiniteSet(ToSet(spans))
  <1>1. DOMAIN spans = 1..Len(spans) /\ Len(spans) \in Nat
    OBVIOUS
  <1>2. IsFiniteSet(1..Len(spans))
    BY <1>1, FS_Interval
  <1>3. spans \in Surjection(1..Len(spans), ToSet(spans))
    <2>1. spans \in [1..Len(spans) -> ToSet(spans)]
      BY <1>1
    <2>2. \A t \in ToSet(spans) : \E i \in 1..Len(spans) : spans[i] = t
      BY <1>1 DEF ToSet
    <2> QED
      BY <2>1, <2>2 DEF Surjection
  <1> QED
    BY <1>2, <1>3, FS_Surjection

\* Two places have the same $n exactly when they hold the same name.
LEMMA OrdinalIs ==
    ASSUME NEW spans, spans \in Seq(ToSet(spans))
    PROVE  /\ \A k \in DOMAIN spans : Ordinal(spans, k) \in 1..Cardinality(ToSet(spans))
           /\ \A k, l \in DOMAIN spans : Ordinal(spans, k) = Ordinal(spans, l) => spans[k] = spans[l]
  <1> DEFINE Names(k) == {spans[i] : i \in 1..First(spans, k)}
  <1>1. DOMAIN spans = 1..Len(spans) /\ Len(spans) \in Nat /\ IsFiniteSet(ToSet(spans))
    BY FiniteRange
  <1>2. \A k \in DOMAIN spans :
           /\ First(spans, k) \in DOMAIN spans /\ spans[First(spans, k)] = spans[k]
           /\ \A i \in 1..(First(spans, k) - 1) : spans[i] # spans[k]
    BY FirstIs
  <1>3. \A k \in DOMAIN spans : Names(k) \subseteq ToSet(spans) /\ spans[k] \in Names(k)
    <2>1. \A k \in DOMAIN spans : First(spans, k) \in 1..Len(spans)
      BY <1>1, <1>2
    <2>2. \A k \in DOMAIN spans : \A i \in 1..First(spans, k) : spans[i] \in ToSet(spans)
      BY <1>1, <2>1 DEF ToSet
    <2> QED
      BY <1>2, <2>1, <2>2
  <1>4. \A k \in DOMAIN spans : IsFiniteSet(Names(k)) /\ Cardinality(Names(k)) <= Cardinality(ToSet(spans))
    BY <1>1, <1>3, FS_Subset
  <1>5. \A k \in DOMAIN spans : Cardinality(Names(k)) \in Nat /\ Cardinality(Names(k)) # 0
    BY <1>3, <1>4, FS_CardinalityType, FS_EmptySet
  <1>6. Cardinality(ToSet(spans)) \in Nat
    BY <1>1, FS_CardinalityType
  <1>7. \A k \in DOMAIN spans : Ordinal(spans, k) = Cardinality(Names(k))
    BY DEF Ordinal
  <1>8. ASSUME NEW k \in DOMAIN spans, NEW l \in DOMAIN spans, First(spans, k) < First(spans, l)
        PROVE  Ordinal(spans, k) # Ordinal(spans, l)
    <2>1. Names(k) \subseteq Names(l)
      BY <1>1, <1>2, <1>8
    <2>2. spans[l] \notin Names(k)
      BY <1>1, <1>2, <1>8
    <2>3. Names(k) # Names(l)
      BY <1>3, <2>2
    <2> HIDE DEF Names
    <2> QED
      BY <1>4, <1>7, <2>1, <2>3, FS_Subset
  <1>9. ASSUME NEW k \in DOMAIN spans, NEW l \in DOMAIN spans, Ordinal(spans, k) = Ordinal(spans, l)
        PROVE  spans[k] = spans[l]
    <2>1. First(spans, k) \in Nat /\ First(spans, l) \in Nat
      BY <1>1, <1>2
    <2>2. First(spans, k) = First(spans, l)
      BY <1>8, <1>9, <2>1
    <2> QED
      BY <1>2, <2>2
  <1> HIDE DEF Names
  <1>10. \A k \in DOMAIN spans : Ordinal(spans, k) \in 1..Cardinality(ToSet(spans))
    BY <1>4, <1>5, <1>6, <1>7
  <1> QED
    BY <1>9, <1>10

\* On PostgreSQL a statement of the pipeline sees the values bound to its own placeholders.
LEMMA PipelineSees ==
    ASSUME NEW i, IsStatement(Statement(i))
    PROVE  SeenByPipeline(i) = Sees(i)
  <1> DEFINE spans == Statement(i).placeholders
             chosen(n) == CHOOSE k \in DOMAIN spans : Ordinal(spans, k) = n
             names == [n \in 1..Cardinality(ToSet(spans)) |-> spans[chosen(n)]]
  <1>1. /\ \A k \in DOMAIN spans : Ordinal(spans, k) \in 1..Cardinality(ToSet(spans))
        /\ \A k, l \in DOMAIN spans : Ordinal(spans, k) = Ordinal(spans, l) => spans[k] = spans[l]
    BY OrdinalIs DEF IsStatement
  <1>2. \A k \in DOMAIN spans : chosen(Ordinal(spans, k)) \in DOMAIN spans
                                /\ Ordinal(spans, chosen(Ordinal(spans, k))) = Ordinal(spans, k)
    OBVIOUS
  <1>3. \A k \in DOMAIN spans : spans[chosen(Ordinal(spans, k))] = spans[k]
    BY <1>1, <1>2
  <1>4. /\ rewritePlaceholders(Statement(i)).names = names
        /\ rewritePlaceholders(Statement(i)).ordinals = [k \in DOMAIN spans |-> Ordinal(spans, k)]
    BY DEF rewritePlaceholders
  <1>5. SeenByPipeline(i) = [k \in DOMAIN spans |-> arrange(names, i)[Ordinal(spans, k)]]
    BY <1>4 DEF SeenByPipeline
  <1>6. \A k \in DOMAIN spans : arrange(names, i)[Ordinal(spans, k)] = Value(i, spans[chosen(Ordinal(spans, k))])
    BY <1>1 DEF arrange
  <1> HIDE DEF chosen, names
  <1>7. SeenByPipeline(i) = [k \in DOMAIN spans |-> Value(i, spans[k])]
    BY <1>3, <1>5, <1>6
  <1> QED
    BY <1>7 DEF Sees

\* On SQL Server no name is declared twice, and a statement of the text sees its own values too.
LEMMA TextSees ==
    ASSUME start \in Nat, End \in Nat
    PROVE  /\ Declared(joinMessage)
           /\ \A i \in start..(End - 1) : SeenInText(joinMessage, i) = Sees(i)
  <1>1. ASSUME NEW a \in joinMessage
        PROVE  \E i \in start..(End - 1) : \E n \in ToSet(Statement(i).placeholders) :
                   a = [name |-> renameApart(i, n), value |-> Value(i, n)]
    BY DEF joinMessage
  <1>2. ASSUME NEW i \in start..(End - 1), NEW j \in start..(End - 1), NEW n, NEW m, renameApart(i, n) = renameApart(j, m)
        PROVE  i = j /\ n = m
    <2>1. i - start = j - start /\ n = m
      BY <1>2 DEF renameApart
    <2> QED
      BY <2>1
  <1>3. ASSUME NEW a \in joinMessage, NEW b \in joinMessage, a.name = b.name
        PROVE  a = b
    <2>1. PICK i \in start..(End - 1) : \E n \in ToSet(Statement(i).placeholders) :
                   a = [name |-> renameApart(i, n), value |-> Value(i, n)]
      BY <1>1
    <2>2. PICK n \in ToSet(Statement(i).placeholders) : a = [name |-> renameApart(i, n), value |-> Value(i, n)]
      BY <2>1
    <2>3. PICK j \in start..(End - 1) : \E m \in ToSet(Statement(j).placeholders) :
                   b = [name |-> renameApart(j, m), value |-> Value(j, m)]
      BY <1>1
    <2>4. PICK m \in ToSet(Statement(j).placeholders) : b = [name |-> renameApart(j, m), value |-> Value(j, m)]
      BY <2>3
    <2>5. i = j /\ n = m
      BY <1>2, <1>3, <2>2, <2>4
    <2> QED
      BY <2>2, <2>4, <2>5
  <1>4. ASSUME NEW i \in start..(End - 1), NEW k \in DOMAIN Statement(i).placeholders
        PROVE  (CHOOSE a \in joinMessage : a.name = renameApart(i, Statement(i).placeholders[k])).value
                  = Value(i, Statement(i).placeholders[k])
    <2> DEFINE n == Statement(i).placeholders[k]
               own == [name |-> renameApart(i, n), value |-> Value(i, n)]
               chosen == CHOOSE a \in joinMessage : a.name = renameApart(i, n)
    <2>1. own \in joinMessage /\ own.name = renameApart(i, n)
      BY DEF joinMessage, ToSet
    <2>2. chosen = own
      BY <1>3, <2>1
    <2>3. own.value = Value(i, n)
      OBVIOUS
    <2> HIDE DEF chosen, own
    <2>4. chosen.value = Value(i, n)
      BY <2>2, <2>3
    <2> QED
      BY <2>4 DEF chosen
  <1> QED
    BY <1>3, <1>4 DEF Declared, SeenInText, Sees

-----------------------------------------------------------------------------
(***************************************************************************)
(* The inductive invariant, and what stays as it is while a call runs      *)
(***************************************************************************)
IInv ==
    /\ TypeOK /\ ResponseInv /\ WireInv /\ RanInv /\ StreamInv /\ ReadInv /\ SingleInv /\ CauseInv
    /\ RanInOrder /\ ResultsAttributed /\ FailuresExplained

\* The message that starts at start lies within the call.
LEMMA Segment ==
    ASSUME TypeOK
    PROVE  /\ Last_ \in Nat /\ start \in Nat /\ start >= 1 /\ start <= Last_ + 1
           /\ End \in Nat /\ start <= End /\ End <= Last_ + 1
           /\ \A i \in start..(End - 1) : ~needsItsOwnMessage(Statement(i))
  <1>1. Last_ \in Nat /\ start \in 1..(Last_ + 1)
    BY DEF TypeOK, CallOK, ClientOK, Last_
  <1>2. /\ End \in start..(Last_ + 1)
        /\ \A i \in start..(End - 1) : ~needsItsOwnMessage(Statement(i))
    BY <1>1, EndIs
  <1> QED
    BY <1>1, <1>2

\* What depends on the dialect and the call alone.
LEMMA CallFrame ==
    ASSUME UNCHANGED <<dialect, call>>
    PROVE  /\ Last_' = Last_ /\ Items' = Items /\ Texts(dialect)' = Texts(dialect)
           /\ \A i : Statement(i)' = Statement(i) /\ Sees(i)' = Sees(i) /\ (Answered(i)' <=> Answered(i))
  <1>1. Last_' = Last_ /\ Texts(dialect)' = Texts(dialect)
    BY DEF Last_, Texts
  <1>2. \A i : Statement(i)' = Statement(i)
    BY DEF Statement
  <1>3. \A i : Sees(i)' = Sees(i)
    BY <1>2 DEF Sees, Value, Statement
  <1>4. \A i : Answered(i)' <=> Answered(i)
    BY <1>2 DEF Answered, returnsScalar
  <1>5. Items' = Items
    BY <1>1, <1>3 DEF Items, Sync
  <1> QED
    BY <1>1, <1>2, <1>3, <1>4, <1>5

\* The end of a segment depends on the dialect, the call and its start.
LEMMA SegmentFrame ==
    ASSUME UNCHANGED <<dialect, call, start>>
    PROVE  End' = End
  BY DEF End, Last_, Statement, needsItsOwnMessage

\* The call stays well typed while it is the same call.
LEMMA CallOKFrame ==
    ASSUME CallOK, UNCHANGED <<fixed, call>>
    PROVE  CallOK'
  <1>1. Last_' = Last_ /\ Texts(dialect)' = Texts(dialect) /\ \A i : Statement(i)' = Statement(i)
    BY CallFrame DEF fixed
  <1>2. \A i : IsStatement(Statement(i))' <=> IsStatement(Statement(i))
    BY <1>1 DEF IsStatement
  <1>3. dialect' \in DOMAIN Messages /\ policy' \in Policies
    BY DEF CallOK, fixed
  <1>4. call' \in [number: Nat, statements: {call'.statements}, inTx: BOOLEAN, explicit: BOOLEAN]
    BY DEF CallOK
  <1>5. call'.statements \in Seq(ToSet(call'.statements))
    BY DEF CallOK
  <1>6. \A i \in 1..Last_' : IsStatement(Statement(i))' /\ Statement(i)'.sql \in Texts(dialect)'
    BY <1>1, <1>2 DEF CallOK
  <1> QED
    BY <1>3, <1>4, <1>5, <1>6 DEF CallOK, ToSet

\* Nothing happens on the connection while no message is out.
LEMMA Quiet ==
    ASSUME IInv, UNCHANGED <<fixed, call, wire, stream, skipping>>, ~Sent, ~Sent'
    PROVE  /\ ResponseInv' /\ WireInv' /\ StreamInv' /\ wire = <<>> /\ stream = <<>> /\ ~skipping
           /\ Reached = start /\ Reached' = start'
           /\ (Failing <=> error # "none") /\ (Failing' <=> error' # "none")
  <1>1. wire = <<>> /\ stream = <<>> /\ ~skipping
    BY DEF IInv, ResponseInv
  <1> QED
    BY <1>1 DEF ResponseInv, WireInv, StreamInv, Reached, Failing, Sent

\* The properties of a call that has returned say nothing while one runs.
LEMMA Running ==
    ASSUME phase' # "idle"
    PROVE  ResultsAttributed' /\ FailuresExplained'
  BY DEF ResultsAttributed, FailuresExplained

\* The invariant holds on an idle connection.
LEMMA InitInv == Init => IInv
  <1> SUFFICES ASSUME Init
               PROVE  IInv
    OBVIOUS
  <1>1. Last_ = 0 /\ ~Sent /\ Reached = 1 /\ ~Failing
    BY DEF Init, Last_, Sent, Reached, Failing
  <1>2. TypeOK
    <2>1. CallOK
      BY <1>1 DEF Init, CallOK, ToSet
    <2>2. ClientOK
      BY <1>1 DEF Init, ClientOK
    <2>3. ServerOK
      <3>1. wire \in Seq(Items) /\ ran \in Seq(Items \ {Sync}) /\ stream \in Seq(Answers)
        BY DEF Init
      <3> QED
        BY <3>1 DEF Init, ServerOK
    <2>4. PlanOK
      BY DEF Init, PlanOK
    <2> QED
      BY <2>1, <2>2, <2>3, <2>4 DEF TypeOK
  <1>3. ResponseInv /\ WireInv /\ StreamInv /\ ReadInv
    BY <1>1 DEF Init, ResponseInv, WireInv, StreamInv, ReadInv
  <1>4. RanInv /\ RanInOrder
    BY <1>1 DEF Init, RanInv, RanAll, RanInOrder
  <1>5. SingleInv /\ CauseInv
    BY <1>1 DEF Init, SingleInv, CauseInv
  <1>6. ResultsAttributed /\ FailuresExplained
    BY DEF Init, ResultsAttributed, FailuresExplained
  <1> QED
    BY <1>2, <1>3, <1>4, <1>5, <1>6 DEF IInv

-----------------------------------------------------------------------------
(***************************************************************************)
(* A call begins and ends                                                  *)
(***************************************************************************)
LEMMA CallsInv ==
    ASSUME IInv, NEW statements, NEW inTx \in BOOLEAN, NEW explicit \in BOOLEAN,
           Calls(statements, inTx, explicit), phase' \in {"loop", "prepare"},
           phase' = "prepare" => Len(statements) = 1, inTx \/ phase' = "prepare",
           statements \in Seq(ToSet(statements)),
           \A i \in 1..Len(statements) : IsStatement(statements[i]) /\ statements[i].sql \in Texts(dialect)
    PROVE  IInv'
  <1>1. ~Sent /\ wire = <<>> /\ stream = <<>> /\ ~skipping
    BY DEF IInv, ResponseInv, Calls, Sent
  <1>2. /\ Last_' = Len(statements) /\ Last_' \in Nat /\ ~Sent' /\ Reached' = 1 /\ ~Failing'
        /\ \A i : Statement(i)' = statements[i]
    BY <1>1 DEF Calls, Last_, Sent, Reached, Failing, Statement
  <1>3. CallOK'
    <2>1. call' \in [number: Nat, statements: {call'.statements}, inTx: BOOLEAN, explicit: BOOLEAN]
      <3>1. call.number + 1 \in Nat
        BY DEF IInv, TypeOK, CallOK
      <3> QED
        BY <3>1 DEF Calls
    <2>2. dialect' \in DOMAIN Messages /\ policy' \in Policies /\ Texts(dialect)' = Texts(dialect)
      BY DEF IInv, TypeOK, CallOK, Calls, fixed, Texts
    <2>3. call'.statements \in Seq(ToSet(call'.statements))
      BY DEF Calls
    <2>4. \A i \in 1..Last_' : IsStatement(Statement(i))' /\ Statement(i)'.sql \in Texts(dialect)'
      BY <1>2, <2>2 DEF IsStatement
    <2> QED
      BY <2>1, <2>2, <2>3, <2>4 DEF CallOK, ToSet
  <1>4. ClientOK'
    BY <1>2 DEF IInv, TypeOK, ClientOK, Calls
  <1>5. ServerOK'
    <2>1. wire' \in Seq(Items') /\ ran' \in Seq(Items' \ {Sync'}) /\ stream' \in Seq(Answers') /\ skipping' = FALSE
      BY <1>1 DEF IInv, TypeOK, ServerOK, Calls
    <2> QED
      BY <2>1 DEF ServerOK
  <1>6. PlanOK'
    BY DEF IInv, TypeOK, PlanOK, Calls, fixed, Texts
  <1>7. ResponseInv' /\ WireInv' /\ StreamInv' /\ RanInOrder' /\ ResultsAttributed' /\ FailuresExplained'
    BY <1>1, <1>2, Running DEF Calls, ResponseInv, WireInv, StreamInv, RanInOrder
  <1>8. RanInv'
    BY <1>1, <1>2 DEF Calls, RanInv, RanAll
  <1>9. ReadInv'
    BY <1>2 DEF Calls, ReadInv
  <1>10. SingleInv' /\ CauseInv'
    BY <1>1, <1>2 DEF Calls, SingleInv, CauseInv
  <1> QED
    BY <1>3, <1>4, <1>5, <1>6, <1>7, <1>8, <1>9, <1>10 DEF IInv, TypeOK

\* A batch is handed to the client.
LEMMA SendMessageInv ==
    ASSUME IInv, NEW m \in Messages[dialect], SendMessage(m)
    PROVE  IInv'
  <1>1. dialect \in DOMAIN Messages
    BY DEF IInv, TypeOK, CallOK
  <1>2. m \in Seq(ToSet(m)) /\ \A i \in DOMAIN m : IsStatement(m[i])
    BY <1>1, MessagesAssumption
  <1>3. \A i \in 1..Len(m) : IsStatement(m[i]) /\ m[i].sql \in Texts(dialect)
    <2>1. \A i \in 1..Len(m) : i \in DOMAIN m /\ m[i] \in ToSet(m)
      BY <1>2
    <2> QED
      BY <1>2, <2>1 DEF Texts
  <1> QED
    BY <1>2, <1>3, CallsInv DEF SendMessage

\* A single statement is handed to the client.
LEMMA ExecContextInv ==
    ASSUME IInv, NEW s \in Singles[dialect], NEW inTx \in BOOLEAN, NEW explicit \in BOOLEAN, ExecContext(s, inTx, explicit)
    PROVE  IInv'
  <1>1. dialect \in DOMAIN Messages
    BY DEF IInv, TypeOK, CallOK
  <1>2. IsStatement(s) /\ s.sql \in Texts(dialect)
    BY <1>1, MessagesAssumption DEF Texts
  <1>3. <<s>> \in Seq(ToSet(<<s>>)) /\ Len(<<s>>) = 1 /\ <<s>>[1] = s
    BY DEF ToSet
  <1>4. \A i \in 1..Len(<<s>>) : IsStatement(<<s>>[i]) /\ <<s>>[i].sql \in Texts(dialect)
    BY <1>2, <1>3
  <1> QED
    BY <1>3, <1>4, CallsInv DEF ExecContext

\* The call returns.
LEMMA FinishInv ==
    ASSUME IInv, Finish
    PROVE  IInv'
  <1>1. /\ Last_' = Last_ /\ Items' = Items /\ Texts(dialect)' = Texts(dialect)
        /\ \A i : Statement(i)' = Statement(i) /\ Sees(i)' = Sees(i)
    BY CallFrame DEF Finish, fixed
  <1>2. Last_ \in Nat /\ start \in Nat /\ start <= Last_ + 1
    BY Segment DEF IInv
  <1>3. UNCHANGED <<fixed, call, wire, stream, skipping>> /\ ~Sent /\ ~Sent'
    BY DEF Finish, serverVars, Sent
  <1>4. /\ ResponseInv' /\ WireInv' /\ StreamInv' /\ stream = <<>> /\ ~skipping
        /\ Reached = start /\ Reached' = start' /\ (Failing <=> error # "none") /\ (Failing' <=> error' # "none")
    BY <1>3, Quiet
  <1>5. CallOK' /\ ClientOK' /\ ServerOK' /\ PlanOK'
    <2>1. CallOK'
      BY <1>3, CallOKFrame DEF IInv, TypeOK
    <2>2. ClientOK'
      BY <1>1 DEF IInv, TypeOK, ClientOK, Finish
    <2>3. ServerOK'
      BY <1>1 DEF IInv, TypeOK, ServerOK, Finish, serverVars, Sync, Answers
    <2>4. PlanOK'
      BY <1>1 DEF IInv, TypeOK, PlanOK, Finish, serverVars
    <2> QED
      BY <2>1, <2>2, <2>3, <2>4
  <1>6. RanInv' /\ RanInOrder'
    BY <1>4 DEF IInv, RanInv, RanAll, RanInOrder, Finish, serverVars, fixed, Sent
  <1>7. ReadInv' /\ CauseInv' /\ SingleInv'
    BY <1>1, <1>4 DEF IInv, ReadInv, CauseInv, SingleInv, Finish, serverVars, fixed, Excused
  <1>8. ASSUME outcome' = "ok"
        PROVE  /\ ran' = [i \in 1..Last_' |-> [of |-> i, sees |-> Sees(i)']]
               /\ \A i \in 1..Last_' : Statement(i)'.result # "none" => results'[i] = i
    <2>1. error = "none"
      BY <1>8 DEF Finish, IInv, TypeOK, ClientOK
    <2>2. start = Last_ + 1
      BY <1>2, <2>1 DEF Finish, Sending
    <2>3. Len(ran) = Last_ /\ \A i \in DOMAIN ran : ran[i].of = i
      BY <1>2, <1>4, <2>1, <2>2 DEF IInv, RanInv, RanAll
    <2>4. ran \in Seq(Items \ {Sync})
      BY DEF IInv, TypeOK, ServerOK
    <2>5. ASSUME NEW i \in 1..Last_
          PROVE  ran[i] = [of |-> i, sees |-> Sees(i)]
      <3>1. ran[i] \in Items \ {Sync} /\ ran[i].of = i
        BY <1>2, <2>3, <2>4
      <3>2. PICK j \in 1..Last_ : ran[i] = [of |-> j, sees |-> Sees(j)]
        BY <3>1 DEF Items
      <3> QED
        BY <3>1, <3>2
    <2>6. ran = [i \in 1..Last_ |-> [of |-> i, sees |-> Sees(i)]]
      BY <1>2, <2>3, <2>4, <2>5
    <2>7. \A i \in 1..Last_ : Statement(i).result # "none" => results[i] = i
      BY <1>2, <2>1, <2>2 DEF IInv, ReadInv
    <2> QED
      BY <1>1, <2>6, <2>7 DEF Finish, serverVars
  <1>9. ResultsAttributed'
    BY <1>8 DEF ResultsAttributed
  <1>10. FailuresExplained'
    BY DEF FailuresExplained, IInv, CauseInv, Excused, Finish, fixed
  <1> QED
    BY <1>4, <1>5, <1>6, <1>7, <1>9, <1>10 DEF IInv, TypeOK

-----------------------------------------------------------------------------
(***************************************************************************)
(* One statement on its own                                                *)
(***************************************************************************)
\* What is cached, and what is dropped, are schemas of the same texts.
LEMMA PlanTypes ==
    ASSUME PlanOK, NEW indexes
    PROVE  Cached(indexes) \in [Texts(dialect) -> Nat] /\ Invalidated(indexes) \in [Texts(dialect) -> Nat]
  BY DEF PlanOK, Cached, Invalidated

\* A statement that needs its own message is sent by itself.
LEMMA SendAloneInv ==
    ASSUME IInv, sendAlone
    PROVE  IInv'
  <1>1. /\ Last_' = Last_ /\ Items' = Items /\ Texts(dialect)' = Texts(dialect)
        /\ \A i : Statement(i)' = Statement(i) /\ Sees(i)' = Sees(i)
    BY CallFrame DEF sendAlone, fixed
  <1>2. UNCHANGED <<fixed, call, wire, stream, skipping>> /\ ~Sent /\ ~Sent'
    BY DEF sendAlone, Sending, serverVars, Sent
  <1>3. /\ ResponseInv' /\ WireInv' /\ StreamInv' /\ stream = <<>> /\ ~skipping
        /\ Reached = start /\ Reached' = start' /\ (Failing <=> error # "none") /\ (Failing' <=> error' # "none")
    BY <1>2, Quiet
  <1>4. CallOK'
    BY <1>2, CallOKFrame DEF IInv, TypeOK
  <1>5. ClientOK'
    BY <1>1 DEF IInv, TypeOK, ClientOK, sendAlone
  <1>6. ServerOK'
    BY <1>1 DEF IInv, TypeOK, ServerOK, sendAlone, serverVars, Sync, Answers
  <1>7. PlanOK'
    BY <1>1 DEF IInv, TypeOK, PlanOK, sendAlone, serverVars
  <1>8. RanInv' /\ RanInOrder'
    BY <1>3 DEF IInv, RanInv, RanAll, RanInOrder, sendAlone, serverVars, fixed, Sent
  <1>9. ReadInv' /\ CauseInv' /\ SingleInv'
    BY <1>1, <1>3 DEF IInv, ReadInv, CauseInv, SingleInv, sendAlone, Sending, serverVars, fixed, Excused
  <1>10. ResultsAttributed' /\ FailuresExplained'
    BY Running DEF sendAlone
  <1> QED
    BY <1>3, <1>4, <1>5, <1>6, <1>7, <1>8, <1>9, <1>10 DEF IInv, TypeOK

\* A statement is prepared.
LEMMA PrepareInv ==
    ASSUME IInv, Prepare
    PROVE  IInv'
  <1>1. /\ Last_' = Last_ /\ Items' = Items /\ Texts(dialect)' = Texts(dialect)
        /\ \A i : Statement(i)' = Statement(i) /\ Sees(i)' = Sees(i)
    BY CallFrame DEF Prepare, fixed
  <1>2. UNCHANGED <<fixed, call, wire, stream, skipping>> /\ ~Sent /\ ~Sent'
    BY DEF Prepare, serverVars, Sent
  <1>3. /\ ResponseInv' /\ WireInv' /\ StreamInv' /\ stream = <<>> /\ ~skipping
        /\ Reached = start /\ Reached' = start' /\ (Failing <=> error # "none") /\ (Failing' <=> error' # "none")
    BY <1>2, Quiet
  <1>4. CallOK'
    BY <1>2, CallOKFrame DEF IInv, TypeOK
  <1>5. ClientOK'
    BY <1>1 DEF IInv, TypeOK, ClientOK, Prepare
  <1>6. ServerOK'
    BY <1>1 DEF IInv, TypeOK, ServerOK, Prepare, serverVars, Sync, Answers
  <1>7. PlanOK'
    BY <1>1, PlanTypes DEF IInv, TypeOK, PlanOK, Prepare, serverVars
  <1>8. RanInv' /\ RanInOrder'
    BY <1>3 DEF IInv, RanInv, RanAll, RanInOrder, Prepare, serverVars, fixed, Sent
  <1>9. ReadInv' /\ SingleInv'
    BY <1>1, <1>3 DEF IInv, ReadInv, SingleInv, Prepare
  <1>10. Statement(start).sql \in Texts(dialect)
    <2>1. start \in 1..Last_
      BY Segment DEF IInv, CauseInv, Prepare
    <2> QED
      BY <2>1 DEF IInv, TypeOK, CallOK
  <1>11. dialect = "postgres" /\ plan[Statement(start).sql] = 0 => plan'[Statement(start).sql] = schema
    BY <1>10 DEF IInv, TypeOK, PlanOK, Prepare, Cached
  <1>12. CauseInv'
    BY <1>1, <1>3, <1>11 DEF IInv, CauseInv, Prepare, serverVars, fixed, Excused
  <1>13. ResultsAttributed' /\ FailuresExplained'
    BY Running DEF Prepare
  <1> QED
    BY <1>3, <1>4, <1>5, <1>6, <1>7, <1>8, <1>9, <1>12, <1>13 DEF IInv, TypeOK

\* A prepared statement runs, or its stale plan is dropped and it is prepared again.
LEMMA ExecuteInv ==
    ASSUME IInv, Execute
    PROVE  IInv'
  <1>1. /\ Last_' = Last_ /\ Items' = Items /\ Texts(dialect)' = Texts(dialect)
        /\ \A i : Statement(i)' = Statement(i) /\ Sees(i)' = Sees(i)
    BY CallFrame DEF Execute, fixed
  <1>2. UNCHANGED <<fixed, call, wire, stream, skipping>> /\ ~Sent /\ ~Sent'
    BY DEF Execute, Executed, Sent
  <1>3. /\ ResponseInv' /\ WireInv' /\ StreamInv' /\ stream = <<>> /\ ~skipping
        /\ Reached = start /\ Reached' = start' /\ (Failing <=> error # "none") /\ (Failing' <=> error' # "none")
    BY <1>2, Quiet
  <1>4. start \in 1..Last_ /\ Last_ \in Nat /\ error = "none"
    BY Segment DEF IInv, CauseInv, Execute
  <1>5. Statement(start).sql \in Texts(dialect)
    BY <1>4 DEF IInv, TypeOK, CallOK
  <1>6. /\ ran \in Seq(Items \ {Sync}) /\ Len(ran) = start - 1
        /\ \A i \in DOMAIN ran : ran[i].of = i
    BY <1>3, <1>4 DEF IInv, TypeOK, ServerOK, RanInv, RanAll
  <1>7. \/ ran' = ran /\ (start' = start \/ error' # "none")
        \/ ran' = Append(ran, [of |-> start, sees |-> Sees(start)]) /\ start' = start + 1
    BY DEF Execute, Executed
  <1>8. start' \in {start, start + 1}
    BY DEF Execute, Executed
  <1>9. CallOK'
    BY <1>2, CallOKFrame DEF IInv, TypeOK
  <1>10. ClientOK'
    <2>1. phase' \in {"prepare", "loop"} /\ error' \in {"none", "rejected", "unusable", "stale"} /\ attempt' \in {1, 2}
      BY DEF IInv, TypeOK, ClientOK, Execute, Executed
    <2>2. results' \in [1..Last_ -> Nat]
      BY <1>4 DEF IInv, TypeOK, ClientOK, Execute, Executed
    <2>3. start' \in 1..(Last_ + 1) /\ at' \in Nat
      BY <1>4, <1>8 DEF IInv, TypeOK, ClientOK, Execute
    <2>4. outcome' = outcome
      BY DEF Execute
    <2> QED
      BY <1>1, <2>1, <2>2, <2>3, <2>4 DEF IInv, TypeOK, ClientOK
  <1>11. [of |-> start, sees |-> Sees(start)] \in Items \ {Sync}
    BY <1>4 DEF Items, Sync
  <1>12. ServerOK'
    <2>1. ran' \in Seq(Items \ {Sync})
      BY <1>6, <1>7, <1>11
    <2> QED
      BY <1>1, <1>2, <2>1 DEF IInv, TypeOK, ServerOK, Sync, Answers
  <1>13. PlanOK'
    <2>1. plan' \in [Texts(dialect) -> Nat]
      BY PlanTypes DEF IInv, TypeOK, PlanOK, Execute
    <2>2. faults' \in Nat
      BY DEF IInv, TypeOK, PlanOK, Execute
    <2>3. disturbed' \subseteq {"fault", "schema"}
      BY DEF IInv, TypeOK, PlanOK, Execute
    <2>4. schema' = schema
      BY DEF Execute
    <2> QED
      BY <1>1, <2>1, <2>2, <2>3, <2>4 DEF IInv, TypeOK, PlanOK
  <1>14. \A i \in DOMAIN ran' : ran'[i].of = i
    <2>1. CASE ran' = ran
      BY <1>6, <2>1
    <2>2. CASE ran' = Append(ran, [of |-> start, sees |-> Sees(start)])
      <3>1. /\ ran' \in Seq(Items \ {Sync}) /\ Len(ran') = start
            /\ ran'[start] = [of |-> start, sees |-> Sees(start)]
            /\ \A i \in 1..(start - 1) : ran'[i] = ran[i]
        BY <1>4, <1>6, <1>11, <2>2, Appended
      <3> QED
        BY <1>4, <1>6, <3>1
    <2> QED
      BY <1>7, <2>1, <2>2
  <1>15. Len(ran') = start' - 1 \/ (error' # "none" /\ ran' = ran)
    BY <1>4, <1>6, <1>7
  <1>16. \A i \in DOMAIN ran' : ran'[i].of < start'
    BY <1>4, <1>6, <1>7, <1>8, <1>14
  <1>17. RanInv'
    BY <1>2, <1>3, <1>14, <1>15, <1>16 DEF RanInv, RanAll
  <1>18. RanInOrder'
    <2>1. DOMAIN ran' \subseteq Nat
      BY <1>6, <1>7
    <2> QED
      BY <1>14, <2>1 DEF RanInOrder
  <1>19. ReadInv'
    <2>1. \/ start' = start /\ results' = results
          \/ error' # "none"
          \/ start' = start + 1 /\ results' = [results EXCEPT ![start] = start]
      BY DEF Execute, Executed
    <2>2. error' = "none" => \A i \in 1..(start' - 1) : Statement(i).result # "none" => results'[i] = i
      BY <1>4, <2>1 DEF IInv, ReadInv, TypeOK, ClientOK
    <2>3. phase' \notin {"reading", "draining"}
      BY <1>2 DEF Sent
    <2> QED
      BY <1>1, <2>2, <2>3 DEF ReadInv
  <1>20. CauseInv'
    <2>1. error' \in {"rejected", "unusable"} => "fault" \in disturbed'
      BY <1>4 DEF Execute, Executed
    <2>2. Excused => Excused'
      BY <1>2 DEF Excused, Execute, fixed
    <2>3. error' = "stale" => Excused
      BY <1>4, MessagesAssumption DEF IInv, CauseInv, TypeOK, CallOK, ClientOK, Execute, Executed, Stale, Excused, retriesCachedPlan
    <2>4. phase' # "execute"
      BY DEF Execute, Executed
    <2>5. phase' = "prepare" => plan'[Statement(start).sql] = 0 /\ start' = start /\ error' = error
      BY <1>5 DEF IInv, TypeOK, PlanOK, Execute, Executed, Invalidated
    <2> QED
      BY <1>1, <1>2, <1>3, <1>4, <2>1, <2>2, <2>3, <2>4, <2>5 DEF CauseInv
  <1>21. ResultsAttributed' /\ FailuresExplained'
    BY Running DEF Execute, Executed
  <1>22. SingleInv'
    BY <1>1, <1>4 DEF IInv, SingleInv, Execute, Executed
  <1> QED
    BY <1>22, <1>3, <1>9, <1>10, <1>12, <1>13, <1>17, <1>18, <1>19, <1>20, <1>21 DEF IInv, TypeOK

-----------------------------------------------------------------------------
(***************************************************************************)
(* A message goes out                                                      *)
(***************************************************************************)
\* What is on the wire once a message is out: its statements with their own values, in order, and the Sync.
LEMMA Messaged ==
    ASSUME IInv, End > start,
           wire' = [k \in 1..(End - start) |-> Item(k, Sees(start + k - 1))] \o <<Sync>>
    PROVE  /\ wire' \in Seq(Items) /\ Len(wire') = End - start + 1 /\ wire'[Len(wire')] = Sync
           /\ \A i \in 1..(End - start) : wire'[i].of = start + i - 1
  <1> DEFINE items == [k \in 1..(End - start) |-> Item(k, Sees(start + k - 1))]
  <1>1. Last_ \in Nat /\ start \in Nat /\ start >= 1 /\ End \in Nat /\ End <= Last_ + 1
    BY Segment DEF IInv
  <1>2. \A k \in 1..(End - start) : Item(k, Sees(start + k - 1)) \in Items
    <2>1. ASSUME NEW k \in 1..(End - start)
          PROVE  start + k - 1 \in 1..Last_
      BY <1>1
    <2> QED
      BY <2>1 DEF Item, Items
  <1>3. End - start \in Nat
    BY <1>1
  <1>4. items \in Seq(Items) /\ Len(items) = End - start
    BY <1>2, <1>3
  <1>5. <<Sync>> \in Seq(Items) /\ Len(<<Sync>>) = 1 /\ <<Sync>>[1] = Sync
    BY DEF Items
  <1>6. wire' = items \o <<Sync>>
    OBVIOUS
  <1>7. \A i \in 1..(End - start) : items[i].of = start + i - 1
    BY DEF Item
  <1> HIDE DEF items
  <1>8. /\ items \o <<Sync>> \in Seq(Items) /\ Len(items \o <<Sync>>) = Len(items) + 1
        /\ \A i \in 1..Len(items) : (items \o <<Sync>>)[i] = items[i]
        /\ (items \o <<Sync>>)[Len(items) + 1] = Sync
    BY <1>4, <1>5, Concatenated
  <1> QED
    BY <1>3, <1>4, <1>6, <1>7, <1>8

\* A segment is put on the wire: the statements in order and a Sync, nothing answered yet.
LEMMA SendsInv ==
    ASSUME IInv, Sending, End > start,
           UNCHANGED <<fixed, call, start, results, error, outcome, attempt, ran, skipping, schema, faults, disturbed>>,
           wire' \in Seq(Items), Len(wire') = End - start + 1, wire'[Len(wire')] = Sync,
           \A i \in 1..(End - start) : wire'[i].of = start + i - 1,
           stream' = <<>>,
           plan' \in [Texts(dialect) -> Nat],
           at' \in start..End, \A i \in start..(at' - 1) : ~Answered(i),
           \/ phase' = "draining" /\ at' = End
           \/ phase' = "reading" /\ at' < End /\ Answered(at')
    PROVE  IInv'
  <1>1. /\ Last_' = Last_ /\ Items' = Items /\ Texts(dialect)' = Texts(dialect)
        /\ \A i : Statement(i)' = Statement(i) /\ Sees(i)' = Sees(i) /\ (Answered(i)' <=> Answered(i))
    BY CallFrame DEF fixed
  <1>2. End' = End
    BY SegmentFrame DEF fixed
  <1>3. Last_ \in Nat /\ start \in Nat /\ start >= 1 /\ start <= Last_ /\ End \in Nat /\ End <= Last_ + 1
    BY Segment DEF IInv, Sending
  <1>4. ~Sent /\ Sent' /\ error = "none" /\ error' = "none"
    BY DEF Sent, Sending
  <1>5. wire = <<>> /\ stream = <<>> /\ ~skipping
    BY <1>4 DEF IInv, ResponseInv
  <1>6. Len(wire') = End - start + 1 /\ wire'[Len(wire')] = Sync'
    BY DEF Sync
  <1>7. wire' # <<>>
    BY <1>3, <1>6
  <1>8. Reached = start /\ Reached' = start /\ ~Failing /\ ~Failing'
    BY <1>2, <1>3, <1>4, <1>5, <1>6, <1>7 DEF Reached, Failing
  <1>9. CallOK'
    BY CallOKFrame DEF IInv, TypeOK
  <1>10. ClientOK'
    <2>1. at' \in Nat
      BY <1>3
    <2> QED
      BY <1>1, <2>1 DEF IInv, TypeOK, ClientOK
  <1>11. ServerOK'
    <2>1. stream' \in Seq(Answers')
      OBVIOUS
    <2> QED
      BY <1>1, <1>6, <2>1 DEF IInv, TypeOK, ServerOK, Sync, Answers
  <1>12. PlanOK'
    BY <1>1 DEF IInv, TypeOK, PlanOK
  <1>13. ResponseInv'
    <2>1. call'.inTx
      BY <1>3 DEF IInv, SingleInv, Sending
    <2>2. start' < End'
      BY <1>2
    <2> QED
      BY <1>4, <1>6, <1>7, <2>1, <2>2 DEF ResponseInv
  <1>14. WireInv'
    <2>1. ASSUME NEW i \in 1..(Len(wire') - 1)
          PROVE  wire'[i].of = End' - Len(wire') + i /\ wire'[i].of >= start'
      <3>1. i \in 1..(End - start)
        BY <1>3, <1>6
      <3> QED
        BY <1>2, <1>3, <1>6, <3>1
    <2> QED
      BY <2>1 DEF WireInv
  <1>15. RanInv' /\ RanInOrder'
    BY <1>5, <1>8 DEF IInv, RanInv, RanAll, RanInOrder, fixed
  <1>16. StreamInv'
    <2>0. Answered(at)' <=> Answered(at')
      BY <1>1 DEF Answered, returnsScalar, Statement, fixed
    <2>1. phase' = "reading" => at' \in start'..(End' - 1) /\ Answered(at)'
      BY <1>2, <1>3, <2>0
    <2>2. \A i \in Reached'..(at' - 1) : ~Answered(i)'
      BY <1>1, <1>8
    <2>3. DOMAIN stream' = {}
      OBVIOUS
    <2>4. \A a \in at'..(Reached' - 1) : FALSE
      BY <1>3, <1>8
    <2> QED
      BY <1>4, <2>1, <2>2, <2>3, <2>4 DEF StreamInv
  <1>17. ReadInv'
    <2>1. \A i \in 1..(start' - 1) : Statement(i)'.result # "none" => results'[i] = i
      BY <1>1, <1>4 DEF IInv, ReadInv
    <2>2. phase' = "reading" => \A i \in start'..(at' - 1) : ~Answered(i)'
      BY <1>1
    <2>3. phase' = "draining" => \A i \in start'..(End' - 1) : ~Answered(i)'
      BY <1>1, <1>2
    <2> QED
      BY <2>1, <2>2, <2>3 DEF ReadInv
  <1>18. SingleInv' /\ CauseInv'
    BY <1>1, <1>4, <1>5 DEF IInv, SingleInv, CauseInv
  <1>19. ResultsAttributed' /\ FailuresExplained'
    BY Running
  <1> QED
    BY <1>9, <1>10, <1>11, <1>12, <1>13, <1>14, <1>15, <1>16, <1>17, <1>18, <1>19 DEF IInv, TypeOK

\* PostgreSQL: the segment is sent as a pipeline.
LEMMA SendPipelineInv ==
    ASSUME IInv, sendPipeline
    PROVE  IInv'
  <1>1. Last_ \in Nat /\ start \in Nat /\ start >= 1 /\ End \in Nat /\ End <= Last_ + 1 /\ start < End
    BY Segment DEF IInv, sendPipeline
  <1>2. \A k \in 1..(End - start) : SeenByPipeline(start + k - 1) = Sees(start + k - 1)
    <2>1. \A k \in 1..(End - start) : start + k - 1 \in 1..Last_
      BY <1>1
    <2>2. \A k \in 1..(End - start) : IsStatement(Statement(start + k - 1))
      BY <2>1 DEF IInv, TypeOK, CallOK
    <2> QED
      BY <2>2, PipelineSees
  <1>3. /\ wire' \in Seq(Items) /\ Len(wire') = End - start + 1 /\ wire'[Len(wire')] = Sync
        /\ \A i \in 1..(End - start) : wire'[i].of = start + i - 1
    <2>1. wire' = [k \in 1..(End - start) |-> Item(k, Sees(start + k - 1))] \o <<Sync>>
      BY <1>2 DEF sendPipeline
    <2> QED
      BY <1>1, <2>1, Messaged
  <1>4. stream' = <<>>
    BY DEF IInv, ResponseInv, Sent, sendPipeline, Sending
  <1>5. plan' \in [Texts(dialect) -> Nat]
    BY PlanTypes DEF sendPipeline, IInv, TypeOK
  <1>6. at' \in start..End /\ at' < End /\ \A i \in start..(at' - 1) : ~Answered(i)
    BY <1>1 DEF sendPipeline
  <1>7. Answered(at')
    BY DEF sendPipeline, Answered
  <1>8. UNCHANGED <<fixed, call, start, results, error, outcome, attempt, ran, skipping, schema, faults, disturbed>>
    BY DEF sendPipeline
  <1>9. Sending /\ End > start /\ phase' = "reading"
    BY DEF sendPipeline
  <1> QED
    BY <1>3, <1>4, <1>5, <1>6, <1>7, <1>8, <1>9, SendsInv

\* SQL Server: the segment is sent as one text.
LEMMA SendTextInv ==
    ASSUME IInv, sendText
    PROVE  IInv'
  <1>1. Last_ \in Nat /\ start \in Nat /\ start >= 1 /\ End \in Nat /\ End <= Last_ + 1 /\ start < End
    BY Segment DEF IInv, sendText
  <1>2. Declared(joinMessage) /\ \A i \in start..(End - 1) : SeenInText(joinMessage, i) = Sees(i)
    BY <1>1, TextSees
  <1>3. \A k \in 1..(End - start) : SeenInText(joinMessage, start + k - 1) = Sees(start + k - 1)
    <2>1. \A k \in 1..(End - start) : start + k - 1 \in start..(End - 1)
      BY <1>1
    <2> QED
      BY <1>2, <2>1
  <1>4. /\ wire' \in Seq(Items) /\ Len(wire') = End - start + 1 /\ wire'[Len(wire')] = Sync
        /\ \A i \in 1..(End - start) : wire'[i].of = start + i - 1
    <2>1. wire' = [k \in 1..(End - start) |-> Item(k, Sees(start + k - 1))] \o <<Sync>>
      BY <1>2, <1>3 DEF sendText
    <2> QED
      BY <1>1, <2>1, Messaged
  <1>5. stream' = <<>>
    BY <1>2 DEF sendText
  <1>6. plan' \in [Texts(dialect) -> Nat]
    BY DEF sendText, IInv, TypeOK, PlanOK
  <1>7. /\ at' \in start..End
        /\ at' = End \/ Answered(at')
        /\ \A i \in start..(at' - 1) : ~Answered(i)
    BY <1>1, NextIs DEF sendText
  <1>8. \/ phase' = "draining" /\ at' = End
        \/ phase' = "reading" /\ at' < End /\ Answered(at')
    BY <1>1, <1>7 DEF sendText
  <1>9. UNCHANGED <<fixed, call, start, results, error, outcome, attempt, ran, skipping, schema, faults, disturbed>>
    BY DEF sendText
  <1>10. Sending /\ End > start
    BY DEF sendText
  <1> QED
    BY <1>4, <1>5, <1>6, <1>7, <1>8, <1>9, <1>10, SendsInv

-----------------------------------------------------------------------------
(***************************************************************************)
(* Answers are read                                                        *)
(***************************************************************************)
\* The place the server has come to is in the message.
LEMMA ReachedIs ==
    ASSUME IInv, Sent
    PROVE  /\ Reached \in start..End /\ start \in Nat /\ start >= 1 /\ End \in Nat /\ Last_ \in Nat /\ End <= Last_ + 1
           /\ Len(wire) \in Nat /\ Len(wire) <= End - start + 1
  <1>1. start \in Nat /\ start >= 1 /\ End \in Nat /\ start <= End /\ Last_ \in Nat /\ End <= Last_ + 1
    BY Segment DEF IInv
  <1>2. Len(wire) \in Nat /\ (wire # <<>> => Len(wire) >= 1)
    BY DEF IInv, TypeOK, ServerOK
  <1>3. Len(wire) <= End - start + 1
    <2>1. CASE Len(wire) > 1
      <3>1. 1 \in 1..(Len(wire) - 1)
        BY <1>2, <2>1
      <3>2. wire[1].of = End - Len(wire) + 1 /\ wire[1].of >= start
        BY <3>1 DEF IInv, WireInv
      <3> QED
        BY <1>1, <1>2, <3>2
    <2>2. CASE ~(Len(wire) > 1)
      BY <1>1, <1>2, <2>2
    <2> QED
      BY <2>1, <2>2
  <1>4. wire = <<>> => Reached = End
    BY DEF Reached
  <1>5. wire # <<>> => Reached = End + 1 - Len(wire)
    BY DEF Reached
  <1> QED
    BY <1>1, <1>2, <1>3, <1>4, <1>5

\* The reader takes an answer that is not the end of the response.
LEMMA TakeInv ==
    ASSUME IInv, Sent, Sent', stream # <<>>, stream[1].kind # "end", stream' = Tail(stream),
           UNCHANGED <<fixed, call, start, wire, skipping, ran>>,
           Failing' <=> Failing
    PROVE  /\ ResponseInv' /\ WireInv' /\ RanInv' /\ RanInOrder' /\ ServerOK' /\ CallOK'
           /\ stream' \in Seq(Answers) /\ Len(stream) \in Nat /\ Len(stream) >= 1 /\ Len(stream') = Len(stream) - 1
           /\ \A i \in DOMAIN stream' : i + 1 \in DOMAIN stream /\ stream'[i] = stream[i + 1]
           /\ Reached' = Reached
  <1>1. /\ Last_' = Last_ /\ Items' = Items
        /\ \A i : Statement(i)' = Statement(i) /\ Sees(i)' = Sees(i) /\ (Answered(i)' <=> Answered(i))
    BY CallFrame DEF fixed
  <1>2. End' = End
    BY SegmentFrame DEF fixed
  <1>3. stream \in Seq(Answers)
    BY DEF IInv, TypeOK, ServerOK
  <1>4. /\ stream' \in Seq(Answers) /\ Len(stream) \in Nat /\ Len(stream) >= 1 /\ Len(stream') = Len(stream) - 1
        /\ \A i \in 1..(Len(stream) - 1) : stream'[i] = stream[i + 1]
    BY <1>3, TailIs
  <1>5. \A i \in DOMAIN stream' : i + 1 \in DOMAIN stream /\ stream'[i] = stream[i + 1]
    BY <1>3, <1>4
  <1>6. Reached' = Reached
    BY <1>2 DEF Reached, Sent
  <1>7. ServerOK'
    BY <1>1, <1>4 DEF IInv, TypeOK, ServerOK, Sync, Answers
  <1>8. CallOK'
    BY CallOKFrame DEF IInv, TypeOK
  <1>9. WireInv'
    BY <1>2 DEF IInv, WireInv
  <1>10. RanInv' /\ RanInOrder'
    BY <1>6 DEF IInv, RanInv, RanAll, RanInOrder, fixed
  <1>11. ResponseInv'
    <2>1. start' < End' /\ call'.inTx
      BY <1>2 DEF IInv, ResponseInv
    <2>2. CASE wire # <<>>
      <3>1. wire[Len(wire)] = Sync /\ \A i \in DOMAIN stream : stream[i].kind # "end"
        BY <2>2 DEF IInv, ResponseInv
      <3>2. \A i \in DOMAIN stream' : stream'[i].kind # "end"
        BY <1>5, <3>1
      <3> QED
        BY <2>1, <2>2, <3>1, <3>2 DEF ResponseInv, Sync
    <2>3. CASE wire = <<>>
      <3>1. /\ ~skipping /\ stream[Len(stream)].kind = "end"
            /\ \A i \in 1..(Len(stream) - 1) : stream[i].kind # "end"
        BY <2>3 DEF IInv, ResponseInv
      <3>2. Len(stream) # 1
        BY <3>1
      <3>3. stream' # <<>> /\ stream'[Len(stream')].kind = "end"
        <4>1. Len(stream') \in 1..(Len(stream) - 1) /\ Len(stream') + 1 = Len(stream)
          BY <1>4, <3>2
        <4>2. stream'[Len(stream')] = stream[Len(stream)]
          BY <1>4, <4>1
        <4>3. stream' # <<>>
          BY <1>3, <3>2, TailIs
        <4> QED
          BY <3>1, <4>2, <4>3
      <3>4. \A i \in 1..(Len(stream') - 1) : stream'[i].kind # "end"
        BY <1>4, <3>1
      <3> QED
        BY <2>1, <2>3, <3>1, <3>3, <3>4 DEF ResponseInv
    <2> QED
      BY <2>2, <2>3
  <1> QED
    BY <1>4, <1>5, <1>6, <1>7, <1>8, <1>9, <1>10, <1>11

\* The answer the reader finds is that of the statement it asks for, an error, and never the end.
LEMMA HeadIs ==
    ASSUME IInv, phase = "reading", stream # <<>>
    PROVE  /\ stream[1].kind # "end"
           /\ stream[1].kind = "result" => stream[1].of = at /\ at <= Reached - 1
  <1>1. Sent /\ error = "none" /\ at \in start..(End - 1) /\ Answered(at)
    BY DEF Sent, IInv, StreamInv
  <1>2. Reached \in start..End /\ start \in Nat /\ End \in Nat
    BY <1>1, ReachedIs
  <1>3. Len(stream) \in Nat /\ Len(stream) >= 1 /\ DOMAIN stream = 1..Len(stream) /\ stream \in Seq(Answers)
    BY DEF IInv, TypeOK, ServerOK
  <1>4. ASSUME stream[1].kind = "end"
        PROVE  FALSE
    <2>1. wire = <<>> /\ \A i \in 1..(Len(stream) - 1) : stream[i].kind # "end"
      BY <1>1, <1>3, <1>4 DEF IInv, ResponseInv
    <2>2. Len(stream) = 1
      BY <1>3, <1>4, <2>1
    <2>3. Reached = End
      BY <1>1, <2>1 DEF Reached
    <2>4. ~Failing
      BY <1>1, <1>3, <1>4, <2>2 DEF Failing
    <2>5. at \in at..(Reached - 1)
      BY <1>1, <1>2, <2>3
    <2>6. \E i \in DOMAIN stream : stream[i].kind = "result"
      BY <1>1, <2>4, <2>5 DEF IInv, StreamInv
    <2> QED
      BY <1>3, <1>4, <2>2, <2>6
  <1>5. ASSUME stream[1].kind = "result"
        PROVE  stream[1].of = at /\ at <= Reached - 1
    <2>1. Clean(1)
      BY <1>5 DEF Clean
    <2>2. 1 \in DOMAIN stream
      BY <1>3
    <2>3. /\ stream[1].of \in at..(Reached - 1)
          /\ \A a \in at..stream[1].of : Answered(a) => \E j \in 1..1 : stream[j].of = a
      BY <2>1, <2>2 DEF IInv, StreamInv
    <2>4. at \in at..stream[1].of
      BY <1>1, <1>2, <2>3
    <2>5. \E j \in 1..1 : stream[j].of = at
      BY <1>1, <2>3, <2>4
    <2> QED
      BY <1>1, <1>2, <2>3, <2>5
  <1> QED
    BY <1>4, <1>5

\* The head of the stream is an answer.
LEMMA FirstAnswer ==
    ASSUME IInv, stream # <<>>
    PROVE  Head(stream) = stream[1] /\ stream[1].kind \in {"result", "rejected", "unusable", "stale", "end"}
  <1>1. stream \in Seq(Answers)
    BY DEF IInv, TypeOK, ServerOK
  <1>2. Head(stream) = stream[1] /\ stream[1] \in Answers
    BY <1>1, TailIs
  <1> QED
    BY <1>2 DEF Answers

\* A result is taken for the statement the client is at.
LEMMA ReadResultInv ==
    ASSUME IInv, readResult, Head(stream).kind = "result"
    PROVE  IInv'
  <1>1. /\ Last_' = Last_ /\ Texts(dialect)' = Texts(dialect)
        /\ \A i : Statement(i)' = Statement(i) /\ Sees(i)' = Sees(i) /\ (Answered(i)' <=> Answered(i))
    BY CallFrame DEF readResult, fixed
  <1>2. End' = End
    BY SegmentFrame DEF readResult, fixed
  <1>3. phase = "reading" /\ stream # <<>> /\ Head(stream) = stream[1] /\ stream[1].kind = "result"
    BY FirstAnswer DEF readResult
  <1>4. stream[1].of = at /\ at <= Reached - 1
    BY <1>3, HeadIs
  <1>5. Sent /\ error = "none" /\ at \in start..(End - 1) /\ Answered(at)
    BY <1>3 DEF Sent, IInv, StreamInv
  <1>6. Reached \in start..End /\ start \in Nat /\ start >= 1 /\ End \in Nat /\ Last_ \in Nat /\ End <= Last_ + 1
    BY <1>5, ReachedIs
  <1>7. /\ stream' = Tail(stream) /\ results' = [results EXCEPT ![at] = at] /\ at' = NextAnswered(at + 1)
        /\ error' = "none" /\ (at' = End => phase' = "draining") /\ (at' # End => phase' = "reading")
    BY <1>3, <1>4, <1>5 DEF readResult
  <1>8. /\ at' \in (at + 1)..End
        /\ at' = End \/ Answered(at')
        /\ \A j \in (at + 1)..(at' - 1) : ~Answered(j)
    <2>1. at + 1 \in Nat /\ at + 1 <= End
      BY <1>5, <1>6
    <2> QED
      BY <1>6, <1>7, <2>1, NextIs
  <1>9. UNCHANGED <<fixed, call, start, outcome, attempt, wire, skipping, ran, faults, plan, schema, disturbed>> /\ Sent'
    BY <1>7 DEF readResult, Sent
  <1>10. stream \in Seq(Answers) /\ Len(stream) \in Nat /\ Len(stream) >= 1 /\ DOMAIN stream = 1..Len(stream)
    BY <1>3 DEF IInv, TypeOK, ServerOK
  <1>11. /\ Len(stream') = Len(stream) - 1 /\ DOMAIN stream' = 1..Len(stream')
         /\ \A i \in 1..(Len(stream) - 1) : stream'[i] = stream[i + 1]
    BY <1>3, <1>7, <1>10, TailIs
  <1>12. Failing' <=> Failing
    <2>1. \A i \in DOMAIN stream : stream[i].kind \in {"rejected", "unusable", "stale"} => i # 1 /\ i - 1 \in DOMAIN stream' /\ stream'[i - 1] = stream[i]
      BY <1>3, <1>10, <1>11
    <2>2. \A i \in DOMAIN stream' : i + 1 \in DOMAIN stream /\ stream'[i] = stream[i + 1]
      BY <1>10, <1>11
    <2> QED
      BY <1>5, <1>7, <2>1, <2>2 DEF Failing
  <1>13. /\ ResponseInv' /\ WireInv' /\ RanInv' /\ RanInOrder' /\ ServerOK' /\ CallOK'
         /\ \A i \in DOMAIN stream' : i + 1 \in DOMAIN stream /\ stream'[i] = stream[i + 1]
         /\ Reached' = Reached
    BY <1>3, <1>5, <1>7, <1>9, <1>12, TakeInv
  <1>14. ClientOK'
    <2>1. results' \in [1..Last_ -> Nat]
      BY <1>5, <1>6, <1>7 DEF IInv, TypeOK, ClientOK
    <2>2. at' \in Nat /\ start' \in 1..(Last_ + 1)
      BY <1>5, <1>6, <1>8, <1>9
    <2>3. phase' \in {"reading", "draining"}
      BY <1>7
    <2> QED
      BY <1>1, <1>7, <1>9, <2>1, <2>2, <2>3 DEF IInv, TypeOK, ClientOK
  <1>15. PlanOK'
    BY <1>1, <1>9 DEF IInv, TypeOK, PlanOK
  <1>16. StreamInv'
    <2> SUFFICES ASSUME phase' = "reading"
                 PROVE  StreamInv'
      BY DEF StreamInv
    <2>1. at' < End /\ Answered(at')
      BY <1>6, <1>7, <1>8
    <2>2. at' \in start'..(End' - 1)
      BY <1>2, <1>5, <1>6, <1>8, <1>9, <2>1
    <2>3. Answered(at)'
      BY <1>9, <2>1 DEF Answered, returnsScalar, Statement, fixed
    <2>4. ASSUME NEW i \in Reached'..(at' - 1)
          PROVE  ~Answered(i)'
      <3>1. PICK next \in Nat : next = at'
        BY <1>5, <1>6, <1>8
      <3>2. i \in Reached..(next - 1)
        BY <1>13, <3>1
      <3>3. at \in Nat /\ Reached \in Nat /\ at + 1 <= Reached
        BY <1>4, <1>5, <1>6
      <3>4. i \in (at + 1)..(next - 1)
        BY <3>2, <3>3
      <3>5. ~Answered(i)
        BY <1>8, <3>1, <3>4
      <3> QED
        BY <1>1, <3>5
    <2>5. ASSUME NEW i \in DOMAIN stream', Clean(i)'
          PROVE  /\ stream'[i].of \in at'..(Reached' - 1) /\ Answered(stream'[i].of)
                 /\ \A j \in 1..(i - 1) : stream'[j].of < stream'[i].of
                 /\ \A a \in at'..stream'[i].of : Answered(a) => \E j \in 1..i : stream'[j].of = a
      <3>1. i \in Nat /\ i >= 1 /\ i + 1 \in DOMAIN stream /\ stream'[i] = stream[i + 1]
        BY <1>10, <1>11, <1>13
      <3>2. Clean(i + 1)
        <4>1. ASSUME NEW j \in 1..(i + 1)
              PROVE  stream[j].kind = "result"
          <5>1. CASE j = 1
            BY <1>3, <5>1
          <5>2. CASE j # 1
            <6>1. j - 1 \in 1..i /\ j - 1 \in DOMAIN stream' /\ (j - 1) + 1 = j
              BY <1>10, <1>11, <2>5, <3>1, <5>2
            <6>2. stream'[j - 1] = stream[j]
              BY <1>13, <6>1
            <6> QED
              BY <2>5, <6>1, <6>2 DEF Clean
          <5> QED
            BY <5>1, <5>2
        <4> QED
          BY <4>1 DEF Clean
      <3>3. /\ stream[i + 1].of \in at..(Reached - 1) /\ Answered(stream[i + 1].of)
            /\ \A j \in 1..(i + 1 - 1) : stream[j].of < stream[i + 1].of
            /\ \A a \in at..stream[i + 1].of : Answered(a) => \E j \in 1..(i + 1) : stream[j].of = a
        BY <1>3, <3>1, <3>2 DEF IInv, StreamInv
      <3>4. at < stream[i + 1].of
        <4>1. 1 \in 1..(i + 1 - 1)
          BY <3>1
        <4> QED
          BY <1>4, <3>3, <4>1
      <3>5. stream'[i].of \in at'..(Reached' - 1) /\ Answered(stream'[i].of)
        <4>1. stream[i + 1].of \notin (at + 1)..(at' - 1)
          BY <1>8, <3>3
        <4> QED
          BY <1>5, <1>6, <1>8, <1>13, <3>1, <3>3, <3>4, <4>1
      <3>6. \A j \in 1..(i - 1) : stream'[j].of < stream'[i].of
        <4>1. \A j \in 1..(i - 1) : j + 1 \in 1..(i + 1 - 1) /\ j \in 1..(Len(stream) - 1)
          BY <1>10, <3>1
        <4> QED
          BY <1>11, <3>1, <3>3, <4>1
      <3>7. ASSUME NEW a \in at'..stream'[i].of, Answered(a)
            PROVE  \E j \in 1..i : stream'[j].of = a
        <4>1. a \in at..stream[i + 1].of /\ a # at
          BY <1>5, <1>6, <1>8, <3>1, <3>3
        <4>2. PICK j \in 1..(i + 1) : stream[j].of = a
          BY <3>3, <3>7, <4>1
        <4>3. j # 1
          BY <1>4, <4>1, <4>2
        <4>4. j - 1 \in 1..i /\ j - 1 \in 1..(Len(stream) - 1) /\ (j - 1) + 1 = j
          BY <1>10, <3>1, <4>3
        <4>5. stream'[j - 1] = stream[j]
          BY <1>11, <4>4
        <4> QED
          BY <4>2, <4>4, <4>5
      <3> QED
        BY <3>5, <3>6, <3>7
    <2>6. ASSUME ~Failing', NEW a \in at'..(Reached' - 1), Answered(a)
          PROVE  \E i \in DOMAIN stream' : stream'[i].kind = "result" /\ stream'[i].of = a
      <3>1. a \in at..(Reached - 1) /\ a # at
        BY <1>5, <1>6, <1>8, <1>13
      <3>2. PICK i \in DOMAIN stream : stream[i].kind = "result" /\ stream[i].of = a
        BY <1>3, <1>12, <2>6, <3>1 DEF IInv, StreamInv
      <3>3. i # 1
        BY <1>4, <3>1, <3>2
      <3>4. i - 1 \in DOMAIN stream' /\ i - 1 \in 1..(Len(stream) - 1) /\ (i - 1) + 1 = i
        BY <1>10, <1>11, <3>3
      <3>5. stream'[i - 1] = stream[i]
        BY <1>11, <3>4
      <3> QED
        BY <3>2, <3>4, <3>5
    <2>7. \A a : Answered(a)' <=> Answered(a)
      BY <1>1
    <2>8. \A i \in DOMAIN stream' : Clean(i)' =>
             /\ stream'[i].of \in at'..(Reached' - 1) /\ Answered(stream[i].of)'
             /\ \A j \in 1..(i - 1) : stream'[j].of < stream'[i].of
             /\ \A a \in at'..stream'[i].of : Answered(a)' => \E j \in 1..i : stream'[j].of = a
      <3>1. \A i : Answered(stream[i].of)' <=> Answered(stream'[i].of)
        BY <1>9 DEF Answered, returnsScalar, Statement, fixed
      <3> QED
        BY <2>5, <2>7, <3>1
    <2> QED
      BY <1>7, <2>2, <2>3, <2>4, <2>6, <2>7, <2>8 DEF StreamInv
  <1>17. ReadInv'
    <2>1. \A i \in 1..(start' - 1) : Statement(i)'.result # "none" => results'[i] = i
      BY <1>1, <1>5, <1>6, <1>7, <1>9 DEF IInv, ReadInv, TypeOK, ClientOK
    <2>2. \A i \in start..(at' - 1) : Answered(i) => results'[i] = i
      <3>1. at \in Nat /\ at' \in Nat /\ at' <= End
        BY <1>5, <1>6, <1>8
      <3>2. PICK next \in Nat : next = at'
        BY <3>1
      <3>3. at \in Nat /\ next <= End /\ \A j \in (at + 1)..(next - 1) : ~Answered(j)
        BY <1>8, <3>1, <3>2
      <3>4. ASSUME NEW i \in start..(next - 1), Answered(i)
            PROVE  results'[i] = i
        <4>1. i <= at /\ i \in 1..Last_
          <5>1. ASSUME at < i
                PROVE  FALSE
            <6>1. i \in (at + 1)..(next - 1)
              BY <1>6, <3>3, <5>1
            <6> QED
              BY <3>3, <3>4, <6>1
          <5>2. i <= at
            BY <1>6, <3>3, <5>1
          <5> QED
            BY <1>6, <3>3, <5>2
        <4>2. CASE i = at
          BY <1>7, <4>1, <4>2 DEF IInv, TypeOK, ClientOK
        <4>3. CASE i # at
          <5>1. i \in start..(at - 1)
            BY <1>6, <3>3, <4>1, <4>3
          <5>2. results[i] = i
            BY <1>3, <1>5, <3>4, <5>1 DEF IInv, ReadInv
          <5> QED
            BY <1>7, <4>1, <4>3, <5>2 DEF IInv, TypeOK, ClientOK
        <4> QED
          BY <4>2, <4>3
      <3> QED
        BY <3>2, <3>4
    <2>3. phase' = "draining" => at' = End
      BY <1>7
    <2> QED
      BY <1>1, <1>2, <1>7, <1>9, <2>1, <2>2, <2>3 DEF ReadInv
  <1>18. SingleInv' /\ CauseInv'
    <2>1. \A i \in DOMAIN stream' : stream'[i].kind \in {"rejected", "unusable"} => "fault" \in disturbed
      BY <1>13 DEF IInv, CauseInv
    <2> QED
      BY <1>1, <1>7, <1>9, <2>1 DEF IInv, SingleInv, CauseInv, ResponseInv, Sent
  <1>19. ResultsAttributed' /\ FailuresExplained'
    BY <1>7, Running
  <1> QED
    BY <1>13, <1>14, <1>15, <1>16, <1>17, <1>18, <1>19 DEF IInv, TypeOK

\* An error is passed on to the caller, and the rest of the response is read for nothing.
LEMMA ReadErrorInv ==
    ASSUME IInv, readResult, Head(stream).kind # "result"
    PROVE  IInv'
  <1>1. /\ Last_' = Last_ /\ Texts(dialect)' = Texts(dialect)
        /\ \A i : Statement(i)' = Statement(i) /\ (Answered(i)' <=> Answered(i))
    BY CallFrame DEF readResult, fixed
  <1>2. /\ phase = "reading" /\ stream # <<>> /\ Head(stream) = stream[1] /\ stream[1].kind # "result"
        /\ stream[1].kind \in {"result", "rejected", "unusable", "stale", "end"}
    BY FirstAnswer DEF readResult
  <1>3. stream[1].kind # "end"
    BY <1>2, HeadIs
  <1>4. stream' = Tail(stream) /\ error' = stream[1].kind /\ error' \in {"rejected", "unusable", "stale"} /\ phase' = "draining"
    BY <1>2, <1>3 DEF readResult
  <1>5. /\ UNCHANGED <<fixed, call, start, outcome, attempt, wire, skipping, ran, faults, plan, schema, disturbed>>
        /\ UNCHANGED <<results, at>> /\ Sent /\ Sent'
    BY <1>2, <1>4 DEF readResult, Sent
  <1>6. 1 \in DOMAIN stream
    BY <1>2 DEF IInv, TypeOK, ServerOK
  <1>7. Failing /\ Failing'
    BY <1>4, <1>6 DEF Failing
  <1>8. /\ ResponseInv' /\ WireInv' /\ RanInv' /\ RanInOrder' /\ ServerOK' /\ CallOK'
        /\ \A i \in DOMAIN stream' : i + 1 \in DOMAIN stream /\ stream'[i] = stream[i + 1]
    BY <1>2, <1>3, <1>4, <1>5, <1>7, TakeInv
  <1>9. ClientOK'
    BY <1>1, <1>4, <1>5 DEF IInv, TypeOK, ClientOK
  <1>10. PlanOK'
    BY <1>1, <1>5 DEF IInv, TypeOK, PlanOK
  <1>11. StreamInv' /\ ReadInv'
    BY <1>4 DEF StreamInv, ReadInv
  <1>12. SingleInv' /\ CauseInv'
    <2>1. \A i \in DOMAIN stream' : stream'[i].kind \in {"rejected", "unusable"} => "fault" \in disturbed
      BY <1>8 DEF IInv, CauseInv
    <2>2. error' \in {"rejected", "unusable"} => "fault" \in disturbed
      BY <1>4, <1>6 DEF IInv, CauseInv
    <2>3. Excused'
      BY <1>5 DEF IInv, ResponseInv, Excused
    <2> QED
      BY <1>1, <1>4, <1>5, <2>1, <2>2, <2>3 DEF IInv, SingleInv, CauseInv
  <1>13. ResultsAttributed' /\ FailuresExplained'
    BY <1>4, Running
  <1> QED
    BY <1>8, <1>9, <1>10, <1>11, <1>12, <1>13 DEF IInv, TypeOK

\* An answer is read and dropped.
LEMMA DrainOneInv ==
    ASSUME IInv, Drain, Head(stream).kind # "end"
    PROVE  IInv'
  <1>1. /\ Last_' = Last_ /\ Texts(dialect)' = Texts(dialect)
        /\ \A i : Statement(i)' = Statement(i) /\ (Answered(i)' <=> Answered(i))
    BY CallFrame DEF Drain, fixed
  <1>2. End' = End
    BY SegmentFrame DEF Drain, fixed
  <1>3. /\ phase = "draining" /\ stream # <<>> /\ Head(stream) = stream[1] /\ stream[1].kind # "end"
        /\ stream[1].kind \in {"result", "rejected", "unusable", "stale", "end"}
    BY FirstAnswer DEF Drain
  <1>4. /\ stream' = Tail(stream) /\ phase' = "draining"
        /\ error' = IF error = "none" /\ stream[1].kind # "result" THEN stream[1].kind ELSE error
    BY <1>3 DEF Drain
  <1>5. /\ UNCHANGED <<fixed, call, start, outcome, attempt, wire, skipping, ran, faults, plan, schema, disturbed>>
        /\ UNCHANGED <<results, at>> /\ Sent /\ Sent'
    BY <1>3, <1>4 DEF Drain, Sent
  <1>6. stream \in Seq(Answers) /\ Len(stream) \in Nat /\ Len(stream) >= 1 /\ DOMAIN stream = 1..Len(stream)
    BY <1>3 DEF IInv, TypeOK, ServerOK
  <1>7. /\ Len(stream') = Len(stream) - 1 /\ DOMAIN stream' = 1..Len(stream')
        /\ \A i \in 1..(Len(stream) - 1) : stream'[i] = stream[i + 1]
    BY <1>3, <1>4, <1>6, TailIs
  <1>8. Failing' <=> Failing
    <2>1. \A i \in DOMAIN stream : i = 1 \/ (i - 1 \in DOMAIN stream' /\ stream'[i - 1] = stream[i])
      BY <1>6, <1>7
    <2>2. \A i \in DOMAIN stream' : i + 1 \in DOMAIN stream /\ stream'[i] = stream[i + 1]
      BY <1>6, <1>7
    <2>3. 1 \in DOMAIN stream
      BY <1>6
    <2> QED
      BY <1>3, <1>4, <2>1, <2>2, <2>3 DEF Failing
  <1>9. /\ ResponseInv' /\ WireInv' /\ RanInv' /\ RanInOrder' /\ ServerOK' /\ CallOK'
        /\ \A i \in DOMAIN stream' : i + 1 \in DOMAIN stream /\ stream'[i] = stream[i + 1]
    BY <1>3, <1>4, <1>5, <1>8, TakeInv
  <1>10. ClientOK'
    BY <1>1, <1>3, <1>4, <1>5 DEF IInv, TypeOK, ClientOK
  <1>11. PlanOK'
    BY <1>1, <1>5 DEF IInv, TypeOK, PlanOK
  <1>12. StreamInv' /\ ReadInv'
    BY <1>1, <1>2, <1>3, <1>4, <1>5 DEF IInv, StreamInv, ReadInv
  <1>13. SingleInv' /\ CauseInv'
    <2>1. \A i \in DOMAIN stream' : stream'[i].kind \in {"rejected", "unusable"} => "fault" \in disturbed
      BY <1>9 DEF IInv, CauseInv
    <2>2. error' \in {"rejected", "unusable"} => "fault" \in disturbed
      BY <1>4, <1>6 DEF IInv, CauseInv
    <2>3. Excused'
      BY <1>5 DEF IInv, ResponseInv, Excused
    <2> QED
      BY <1>1, <1>4, <1>5, <2>1, <2>2, <2>3 DEF IInv, SingleInv, CauseInv
  <1>14. ResultsAttributed' /\ FailuresExplained'
    BY <1>4, Running
  <1> QED
    BY <1>9, <1>10, <1>11, <1>12, <1>13, <1>14 DEF IInv, TypeOK

\* A statement of a message that has a result is answered.
LEMMA ResultsAnswered ==
    ASSUME TypeOK, NEW i \in start..(End - 1), Statement(i).result # "none"
    PROVE  Answered(i)
  <1>1. /\ Last_ \in Nat /\ start \in Nat /\ start >= 1 /\ End \in Nat /\ End <= Last_ + 1
        /\ ~needsItsOwnMessage(Statement(i))
    BY Segment
  <1>2. i \in 1..Last_
    BY <1>1
  <1>3. Statement(i).result \in {"none", "key", "count", "driver"}
    BY <1>2 DEF TypeOK, CallOK, IsStatement
  <1> QED
    BY <1>1, <1>3 DEF Answered, returnsScalar, needsItsOwnMessage

\* The end of the response closes the message.
LEMMA DrainEndInv ==
    ASSUME IInv, Drain, Head(stream).kind = "end"
    PROVE  IInv'
  <1>1. /\ Last_' = Last_ /\ Items' = Items /\ Texts(dialect)' = Texts(dialect)
        /\ \A i : Statement(i)' = Statement(i) /\ (Answered(i)' <=> Answered(i))
    BY CallFrame DEF Drain, fixed
  <1>2. /\ phase = "draining" /\ stream # <<>> /\ Head(stream) = stream[1] /\ stream[1].kind = "end" /\ Sent
    BY FirstAnswer DEF Drain, Sent
  <1>3. stream \in Seq(Answers) /\ Len(stream) \in Nat /\ Len(stream) >= 1 /\ DOMAIN stream = 1..Len(stream)
    BY <1>2 DEF IInv, TypeOK, ServerOK
  <1>4. wire = <<>> /\ ~skipping /\ \A i \in 1..(Len(stream) - 1) : stream[i].kind # "end"
    BY <1>2, <1>3 DEF IInv, ResponseInv
  <1>5. Len(stream) = 1
    BY <1>2, <1>3, <1>4
  <1>6. stream' = <<>>
    BY <1>3, <1>5 DEF Drain
  <1>7. phase' = "loop" /\ start' = End /\ error' = error /\ ~Sent'
    BY <1>2 DEF Drain, Sent
  <1>8. UNCHANGED <<fixed, call, at, results, outcome, attempt, wire, skipping, ran, faults, schema, disturbed>>
    BY DEF Drain
  <1>9. Reached = End /\ Reached' = End
    BY <1>2, <1>4, <1>7 DEF Reached
  <1>10. Failing' <=> Failing
    BY <1>2, <1>3, <1>5, <1>6, <1>7 DEF Failing
  <1>11. /\ Last_ \in Nat /\ start \in Nat /\ start >= 1 /\ End \in Nat /\ End <= Last_ + 1 /\ start < End /\ call.inTx
    <2>1. start < End /\ call.inTx
      BY <1>2 DEF IInv, ResponseInv
    <2> QED
      BY <2>1, Segment DEF IInv
  <1>12. CallOK'
    BY <1>8, CallOKFrame DEF IInv, TypeOK
  <1>13. ClientOK'
    BY <1>1, <1>7, <1>8, <1>11 DEF IInv, TypeOK, ClientOK
  <1>14. ServerOK'
    BY <1>1, <1>6, <1>8 DEF IInv, TypeOK, ServerOK, Sync, Answers
  <1>15. PlanOK'
    <2>1. plan' \in [Texts(dialect) -> Nat]
      BY PlanTypes DEF Drain, IInv, TypeOK, PlanOK
    <2> QED
      BY <1>1, <1>8, <2>1 DEF IInv, TypeOK, PlanOK
  <1>16. ResponseInv' /\ WireInv' /\ StreamInv'
    BY <1>4, <1>6, <1>7, <1>8 DEF ResponseInv, WireInv, StreamInv
  <1>17. RanInv' /\ RanInOrder'
    BY <1>7, <1>8, <1>9, <1>10 DEF IInv, RanInv, RanAll, RanInOrder, fixed
  <1>18. ReadInv'
    <2>1. ASSUME error = "none", NEW i \in 1..(End - 1), Statement(i).result # "none"
          PROVE  results[i] = i
      <3>1. CASE i < start
        <4>1. i \in 1..(start - 1)
          BY <1>11, <3>1
        <4> QED
          BY <2>1, <4>1 DEF IInv, ReadInv
      <3>2. CASE i >= start
        <4>1. i \in start..(End - 1)
          BY <1>11, <3>2
        <4>2. Answered(i)
          BY <2>1, <4>1, ResultsAnswered DEF IInv
        <4> QED
          BY <1>2, <2>1, <4>1, <4>2 DEF IInv, ReadInv
      <3> QED
        BY <1>11, <3>1, <3>2
    <2> QED
      BY <1>1, <1>7, <1>8, <2>1 DEF ReadInv
  <1>19. SingleInv' /\ CauseInv'
    <2>1. Excused'
      BY <1>8, <1>11 DEF Excused
    <2> QED
      BY <1>6, <1>7, <1>8, <1>11, <2>1 DEF IInv, SingleInv, CauseInv
  <1>20. ResultsAttributed' /\ FailuresExplained'
    BY <1>7, Running
  <1> QED
    BY <1>12, <1>13, <1>14, <1>15, <1>16, <1>17, <1>18, <1>19, <1>20 DEF IInv, TypeOK

-----------------------------------------------------------------------------
(***************************************************************************)
(* The server works                                                        *)
(***************************************************************************)
\* What the server takes from the wire is the Sync, and then the last thing, or the statement it has come to.
LEMMA HeadItem ==
    ASSUME IInv, wire # <<>>
    PROVE  /\ Sent /\ wire \in Seq(Items) /\ Len(wire) \in Nat /\ Len(wire) >= 1 /\ Head(wire) = wire[1] /\ wire[1] \in Items
           /\ wire[Len(wire)] = Sync /\ Reached = End + 1 - Len(wire) /\ Reached \in start..End
           /\ start \in Nat /\ start >= 1 /\ End \in Nat
           /\ \A i \in DOMAIN stream : stream[i].kind # "end"
           /\ wire[1] = Sync => Len(wire) = 1 /\ Reached = End
           /\ wire[1] # Sync => Len(wire) > 1 /\ wire[1].of = Reached /\ Reached < End
  <1>1. Sent /\ wire[Len(wire)] = Sync /\ \A i \in DOMAIN stream : stream[i].kind # "end"
    BY DEF IInv, ResponseInv
  <1>2. wire \in Seq(Items)
    BY DEF IInv, TypeOK, ServerOK
  <1>3. Len(wire) \in Nat /\ Len(wire) >= 1 /\ Head(wire) = wire[1] /\ wire[1] \in Items
    BY <1>2, TailIs
  <1>4. Reached \in start..End /\ start \in Nat /\ start >= 1 /\ End \in Nat
    BY <1>1, ReachedIs
  <1>5. Reached = End + 1 - Len(wire)
    BY <1>1 DEF Reached
  <1>6. ASSUME Len(wire) > 1
        PROVE  wire[1].of = Reached /\ wire[1] # Sync
    <2>1. 1 \in 1..(Len(wire) - 1)
      BY <1>3, <1>6
    <2>2. wire[1].of = End - Len(wire) + 1 /\ wire[1].of >= start
      BY <1>1, <2>1 DEF IInv, WireInv
    <2>3. wire[1].of = Reached /\ wire[1].of # 0
      BY <1>3, <1>4, <1>5, <2>2
    <2> QED
      BY <2>3 DEF Sync
  <1>7. wire[1] # Sync => Len(wire) > 1 /\ Reached < End
    BY <1>1, <1>3, <1>4, <1>5
  <1>8. ASSUME wire[1] = Sync
        PROVE  Len(wire) = 1 /\ Reached = End
    <2>1. ~(Len(wire) > 1)
      BY <1>6, <1>8
    <2>2. PICK n \in Nat : n = Len(wire)
      BY <1>3
    <2>3. n >= 1 /\ ~(n > 1) /\ Reached = End + 1 - n
      BY <1>3, <1>5, <2>1, <2>2
    <2>4. n = 1 /\ Reached = End
      BY <1>4, <2>3
    <2> QED
      BY <2>2, <2>4
  <1> QED
    BY <1>1, <1>2, <1>3, <1>4, <1>5, <1>6, <1>7, <1>8

\* The server goes on to the next statement.
LEMMA Consumed ==
    ASSUME IInv, wire # <<>>, wire[1] # Sync, UNCHANGED <<fixed, call, start, phase>>, wire' = Tail(wire)
    PROVE  wire' \in Seq(Items) /\ wire' # <<>> /\ wire'[Len(wire')] = Sync /\ WireInv' /\ Reached' = Reached + 1
  <1>1. End' = End
    BY SegmentFrame DEF fixed
  <1>2. /\ Sent /\ wire \in Seq(Items) /\ Len(wire) \in Nat /\ Len(wire) > 1 /\ wire[Len(wire)] = Sync
        /\ Reached = End + 1 - Len(wire) /\ start \in Nat /\ End \in Nat
    BY HeadItem
  <1>3. PICK rest : rest = Tail(wire)
    OBVIOUS
  <1>4. /\ rest \in Seq(Items) /\ Len(rest) = Len(wire) - 1 /\ rest # <<>>
        /\ \A i \in 1..(Len(wire) - 1) : rest[i] = wire[i + 1]
    BY <1>2, <1>3, TailIs
  <1>5. rest[Len(rest)] = Sync
    <2>1. Len(rest) \in 1..(Len(wire) - 1) /\ Len(rest) + 1 = Len(wire)
      BY <1>2, <1>4
    <2> QED
      BY <1>2, <1>4, <2>1
  <1>6. ASSUME NEW i \in 1..(Len(rest) - 1)
        PROVE  rest[i].of = End - Len(rest) + i /\ rest[i].of >= start
    <2>1. i + 1 \in 1..(Len(wire) - 1) /\ i \in 1..(Len(wire) - 1)
      BY <1>2, <1>4
    <2>2. wire[i + 1].of = End - Len(wire) + (i + 1) /\ wire[i + 1].of >= start
      BY <1>2, <2>1 DEF IInv, WireInv
    <2>3. End - Len(wire) + (i + 1) = End - Len(rest) + i
      BY <1>2, <1>4
    <2> QED
      BY <1>4, <2>1, <2>2, <2>3
  <1>7. wire' = rest
    BY <1>3
  <1>8. WireInv'
    BY <1>1, <1>6, <1>7 DEF WireInv
  <1>9. Reached' = End + 1 - Len(rest)
    BY <1>1, <1>2, <1>4, <1>7 DEF Reached, Sent
  <1>10. End + 1 - Len(rest) = Reached + 1
    BY <1>2, <1>4
  <1> QED
    BY <1>4, <1>5, <1>7, <1>8, <1>9, <1>10

\* A step of the server leaves the client as it is.
LEMMA ServerFrame ==
    ASSUME IInv, Sent, UNCHANGED <<fixed, clientVars, plan, schema>>,
           \/ UNCHANGED <<faults, disturbed>>
           \/ Faulty,
           \A i \in DOMAIN stream' : stream'[i].kind \in {"rejected", "unusable"} => "fault" \in disturbed'
    PROVE  /\ CallOK' /\ ClientOK' /\ PlanOK' /\ ReadInv' /\ SingleInv' /\ CauseInv'
           /\ ResultsAttributed' /\ FailuresExplained'
           /\ Last_' = Last_ /\ Items' = Items /\ End' = End /\ \A i : Answered(i)' <=> Answered(i)
  <1>1. /\ Last_' = Last_ /\ Items' = Items /\ Texts(dialect)' = Texts(dialect)
        /\ \A i : Statement(i)' = Statement(i) /\ (Answered(i)' <=> Answered(i))
    BY CallFrame DEF fixed, clientVars
  <1>2. End' = End
    BY SegmentFrame DEF fixed, clientVars
  <1>3. CallOK'
    BY CallOKFrame DEF IInv, TypeOK, clientVars
  <1>4. ClientOK'
    BY <1>1 DEF IInv, TypeOK, ClientOK, clientVars
  <1>5. PlanOK'
    <2>1. faults' \in Nat
      BY DEF IInv, TypeOK, PlanOK, Faulty
    <2>2. disturbed' \subseteq {"fault", "schema"}
      BY DEF IInv, TypeOK, PlanOK, Faulty
    <2> QED
      BY <1>1, <2>1, <2>2 DEF IInv, TypeOK, PlanOK
  <1>6. ReadInv'
    BY <1>1, <1>2 DEF IInv, ReadInv, clientVars
  <1>7. SingleInv'
    BY <1>1 DEF IInv, SingleInv, clientVars
  <1>8. CauseInv'
    <2>1. disturbed \subseteq disturbed'
      BY DEF Faulty
    <2>2. Excused'
      BY DEF IInv, ResponseInv, Excused, clientVars
    <2>3. phase' \in {"reading", "draining"}
      BY DEF Sent, clientVars
    <2> QED
      BY <2>1, <2>2, <2>3 DEF IInv, CauseInv, clientVars
  <1>9. ResultsAttributed' /\ FailuresExplained'
    BY Running DEF Sent, clientVars
  <1> QED
    BY <1>1, <1>2, <1>3, <1>4, <1>5, <1>6, <1>7, <1>8, <1>9

\* The stream grows at its end.
LEMMA Grows ==
    ASSUME IInv, NEW t \in Seq(Answers), stream' = stream \o t
    PROVE  /\ stream \in Seq(Answers) /\ Len(stream) \in Nat /\ DOMAIN stream = 1..Len(stream) /\ Len(t) \in Nat
           /\ stream' \in Seq(Answers) /\ DOMAIN stream' = 1..(Len(stream) + Len(t)) /\ Len(stream') = Len(stream) + Len(t)
           /\ \A i \in 1..Len(stream) : i \in DOMAIN stream' /\ stream'[i] = stream[i]
           /\ \A i \in 1..Len(t) : stream'[Len(stream) + i] = t[i]
           /\ \A i \in DOMAIN stream' : i \in DOMAIN stream \/ \E j \in 1..Len(t) : i = Len(stream) + j
           /\ \A i \in DOMAIN stream : Clean(i)' => Clean(i)
  <1>1. stream \in Seq(Answers) /\ Len(stream) \in Nat /\ DOMAIN stream = 1..Len(stream) /\ Len(t) \in Nat
    BY DEF IInv, TypeOK, ServerOK
  <1>2. PICK grown : grown = stream \o t
    OBVIOUS
  <1>3. /\ grown \in Seq(Answers) /\ Len(grown) = Len(stream) + Len(t)
        /\ \A i \in 1..Len(stream) : grown[i] = stream[i]
        /\ \A i \in 1..Len(t) : grown[Len(stream) + i] = t[i]
    BY <1>1, <1>2, Concatenated
  <1>4. DOMAIN grown = 1..(Len(stream) + Len(t))
    BY <1>1, <1>3
  <1>5. ASSUME NEW i \in DOMAIN grown
        PROVE  i \in DOMAIN stream \/ \E j \in 1..Len(t) : i = Len(stream) + j
    <2>1. i \in 1..Len(stream) \/ i - Len(stream) \in 1..Len(t)
      BY <1>1, <1>4
    <2>2. i \in Int /\ i = Len(stream) + (i - Len(stream))
      BY <1>1, <1>4
    <2> QED
      BY <1>1, <2>1, <2>2
  <1>6. \A i \in 1..Len(stream) : i \in DOMAIN grown
    BY <1>1, <1>4
  <1>7. ASSUME NEW i \in 1..Len(stream), \A j \in 1..i : grown[j].kind = "result"
        PROVE  \A j \in 1..i : stream[j].kind = "result"
    <2>1. \A j \in 1..i : j \in 1..Len(stream)
      BY <1>1
    <2> QED
      BY <1>3, <1>7, <2>1
  <1>8. stream' = grown
    BY <1>2
  <1>9. \A i \in DOMAIN stream : Clean(i)' => Clean(i)
    BY <1>1, <1>7, <1>8 DEF Clean
  <1> QED
    BY <1>1, <1>3, <1>4, <1>5, <1>6, <1>8, <1>9

\* An error the client has not read is not lost.
LEMMA StillFailing ==
    ASSUME IInv, NEW t \in Seq(Answers), stream' = stream \o t, UNCHANGED error
    PROVE  /\ Failing => Failing'
           /\ (\A i \in 1..Len(t) : t[i].kind \notin {"rejected", "unusable", "stale"}) => (Failing' => Failing)
           /\ (\E i \in 1..Len(t) : t[i].kind \in {"rejected", "unusable", "stale"}) => Failing'
  <1>1. /\ DOMAIN stream = 1..Len(stream)
        /\ \A i \in 1..Len(stream) : i \in DOMAIN stream' /\ stream'[i] = stream[i]
        /\ \A i \in 1..Len(t) : stream'[Len(stream) + i] = t[i]
        /\ \A i \in DOMAIN stream' : i \in DOMAIN stream \/ \E j \in 1..Len(t) : i = Len(stream) + j
    BY Grows
  <1>2. \A i \in 1..Len(t) : Len(stream) + i \in DOMAIN stream'
    BY Grows
  <1> QED
    BY <1>1, <1>2 DEF Failing

\* Nothing but a result is added to what the reader may take for one.
LEMMA StreamStops ==
    ASSUME IInv, Sent, UNCHANGED <<fixed, clientVars>>, NEW t \in Seq(Answers), stream' = stream \o t,
           t = <<>> \/ t[1].kind # "result",
           Reached' \in Nat, Reached' >= Reached,
           Failing' \/ \A a \in Reached..(Reached' - 1) : ~Answered(a)
    PROVE  StreamInv'
  <1> SUFFICES ASSUME phase = "reading"
               PROVE  StreamInv'
    BY DEF StreamInv, clientVars
  <1>1. \A i : Answered(i)' <=> Answered(i)
    BY CallFrame DEF fixed, clientVars
  <1>2. End' = End
    BY SegmentFrame DEF fixed, clientVars
  <1>3. /\ stream \in Seq(Answers) /\ Len(stream) \in Nat /\ DOMAIN stream = 1..Len(stream) /\ Len(t) \in Nat
        /\ \A i \in 1..Len(stream) : i \in DOMAIN stream' /\ stream'[i] = stream[i]
        /\ \A i \in 1..Len(t) : stream'[Len(stream) + i] = t[i]
        /\ \A i \in DOMAIN stream' : i \in DOMAIN stream \/ \E j \in 1..Len(t) : i = Len(stream) + j
        /\ \A i \in DOMAIN stream : Clean(i)' => Clean(i)
    BY Grows
  <1>4. PICK r \in Nat : r = Reached'
    OBVIOUS
  <1>5. r >= Reached /\ Reached \in Nat /\ (Failing' \/ \A a \in Reached..(r - 1) : ~Answered(a))
    <2>1. Reached \in start..End /\ start \in Nat /\ End \in Nat
      BY ReachedIs
    <2>2. r >= Reached /\ Reached \in Nat
      BY <1>4, <2>1
    <2>3. Failing' \/ \A a \in Reached..(r - 1) : ~Answered(a)
      BY <1>4, Zenon
    <2> QED
      BY <2>2, <2>3
  <1>6. error = "none" /\ at \in start..(End - 1) /\ Answered(at) /\ at \in Nat
    BY DEF IInv, StreamInv, TypeOK, ClientOK
  <1>7. \A i \in r..(at - 1) : ~Answered(i)
    <2>1. \A i \in r..(at - 1) : i \in Reached..(at - 1)
      BY <1>5, <1>6
    <2> QED
      BY <2>1 DEF IInv, StreamInv
  <1>8. ASSUME NEW i \in DOMAIN stream', Clean(i)'
        PROVE  i \in DOMAIN stream
    <2>1. ASSUME NEW j \in 1..Len(t), i = Len(stream) + j
          PROVE  FALSE
      <3>1. 1 \in 1..Len(t) /\ t # <<>>
        BY <1>3
      <3>2. stream'[Len(stream) + 1].kind # "result"
        BY <1>3, <3>1
      <3>3. Len(stream) + 1 \in 1..i
        BY <1>3, <2>1
      <3> QED
        BY <1>8, <3>2, <3>3 DEF Clean
    <2> QED
      BY <1>3, <2>1
  <1>9. ASSUME NEW i \in DOMAIN stream', Clean(i)'
        PROVE  /\ stream'[i].of \in at..(r - 1) /\ Answered(stream'[i].of)
               /\ \A j \in 1..(i - 1) : stream'[j].of < stream'[i].of
               /\ \A a \in at..stream'[i].of : Answered(a) => \E j \in 1..i : stream'[j].of = a
    <2>1. i \in DOMAIN stream /\ Clean(i)
      BY <1>3, <1>8, <1>9
    <2>2. /\ stream[i].of \in at..(Reached - 1) /\ Answered(stream[i].of)
          /\ \A j \in 1..(i - 1) : stream[j].of < stream[i].of
          /\ \A a \in at..stream[i].of : Answered(a) => \E j \in 1..i : stream[j].of = a
      BY <2>1 DEF IInv, StreamInv
    <2>3. \A j \in 1..i : stream'[j] = stream[j]
      BY <1>3, <2>1
    <2>4. i \in 1..i /\ \A j \in 1..(i - 1) : j \in 1..i
      BY <1>3, <2>1
    <2>5. stream[i].of \in at..(r - 1)
      BY <1>5, <1>6, <2>2
    <2> QED
      BY <2>2, <2>3, <2>4, <2>5
  <1>10. ASSUME ~Failing', NEW a \in at..(r - 1), Answered(a)
         PROVE  \E i \in DOMAIN stream' : stream'[i].kind = "result" /\ stream'[i].of = a
    <2>1. ~Failing
      BY <1>10, StillFailing DEF clientVars
    <2>2. a \in at..(Reached - 1)
      <3>1. ASSUME a >= Reached
            PROVE  FALSE
        <4>1. a \in Reached..(r - 1)
          BY <1>5, <1>6, <1>10, <3>1
        <4> QED
          BY <1>5, <1>10, <4>1
      <3> QED
        BY <1>5, <1>6, <1>10, <3>1
    <2>3. PICK i \in DOMAIN stream : stream[i].kind = "result" /\ stream[i].of = a
      BY <1>10, <2>1, <2>2 DEF IInv, StreamInv
    <2> QED
      BY <1>3, <2>3
  <1>11. Answered(at)' <=> Answered(at)
    BY DEF Answered, returnsScalar, Statement, fixed, clientVars
  <1>12. \A i : Answered(stream[i].of)' <=> Answered(stream'[i].of)
    BY DEF Answered, returnsScalar, Statement, fixed, clientVars
  <1>13. UNCHANGED <<phase, at, start, error>>
    BY DEF clientVars
  <1>14. error' = "none" /\ at' \in start'..(End' - 1) /\ Answered(at)'
    BY <1>2, <1>6, <1>11, <1>13
  <1>15. \A i \in Reached'..(at' - 1) : ~Answered(i)'
    BY <1>1, <1>4, <1>7, <1>13
  <1>16. \A i \in DOMAIN stream' : Clean(i)' =>
            /\ stream'[i].of \in at'..(Reached' - 1) /\ Answered(stream[i].of)'
            /\ \A j \in 1..(i - 1) : stream'[j].of < stream'[i].of
            /\ \A a \in at'..stream'[i].of : Answered(a)' => \E j \in 1..i : stream'[j].of = a
    BY <1>1, <1>4, <1>9, <1>12, <1>13
  <1>17. ~Failing' => \A a \in at'..(Reached' - 1) : Answered(a)' => \E i \in DOMAIN stream' : stream'[i].kind = "result" /\ stream'[i].of = a
    BY <1>1, <1>4, <1>10, <1>13
  <1> QED
    BY <1>14, <1>15, <1>16, <1>17 DEF StreamInv

\* The answer of a statement that worked joins the ones that are still to be read.
LEMMA StreamAnswer ==
    ASSUME IInv, wire # <<>>, wire[1] # Sync, UNCHANGED <<fixed, clientVars>>, Answered(Reached),
           NEW t \in Seq(Answers), Len(t) = 1, t[1] = [kind |-> "result", of |-> Reached], stream' = stream \o t,
           Reached' = Reached + 1
    PROVE  StreamInv'
  <1> SUFFICES ASSUME phase = "reading"
               PROVE  StreamInv'
    BY DEF StreamInv, clientVars
  <1>1. \A i : Answered(i)' <=> Answered(i)
    BY CallFrame DEF fixed, clientVars
  <1>2. End' = End
    BY SegmentFrame DEF fixed, clientVars
  <1>3. PICK n \in Nat : n = Len(stream)
    BY Grows
  <1>4. /\ DOMAIN stream = 1..n /\ DOMAIN stream' = 1..(n + 1)
        /\ \A i \in 1..n : stream'[i] = stream[i]
        /\ stream'[n + 1] = [kind |-> "result", of |-> Reached]
        /\ \A i \in DOMAIN stream : Clean(i)' => Clean(i)
    <2>1. 1 \in 1..Len(t)
      OBVIOUS
    <2>2. /\ DOMAIN stream = 1..Len(stream) /\ DOMAIN stream' = 1..(Len(stream) + Len(t))
          /\ \A i \in 1..Len(stream) : i \in DOMAIN stream' /\ stream'[i] = stream[i]
          /\ \A i \in 1..Len(t) : stream'[Len(stream) + i] = t[i]
          /\ \A i \in DOMAIN stream : Clean(i)' => Clean(i)
      BY Grows
    <2> QED
      BY <1>3, <2>1, <2>2
  <1>5. PICK r \in Nat : r = Reached
    BY HeadItem
  <1>6. error = "none" /\ at \in start..(End - 1) /\ Answered(at) /\ at \in Nat
    BY DEF IInv, StreamInv, TypeOK, ClientOK
  <1>7. r >= at
    <2>1. ASSUME r < at
          PROVE  FALSE
      <3>1. r \in r..(at - 1)
        BY <1>6, <2>1
      <3> QED
        BY <1>5, <3>1 DEF IInv, StreamInv
    <2> QED
      BY <1>6, <2>1
  <1>8. ASSUME NEW i \in 1..n, Clean(i)
        PROVE  /\ stream[i].of \in at..(r - 1) /\ Answered(stream[i].of)
               /\ \A j \in 1..(i - 1) : stream[j].of < stream[i].of
               /\ \A a \in at..stream[i].of : Answered(a) => \E j \in 1..i : stream[j].of = a
    BY <1>4, <1>5, <1>8 DEF IInv, StreamInv
  <1>9. ~Failing => \A a \in at..(r - 1) : Answered(a) => \E i \in 1..n : stream[i].kind = "result" /\ stream[i].of = a
    BY <1>4, <1>5 DEF IInv, StreamInv
  <1>10. ASSUME NEW i \in 1..n, Clean(i)'
         PROVE  /\ stream'[i].of \in at..r /\ Answered(stream'[i].of)
                /\ \A j \in 1..(i - 1) : stream'[j].of < stream'[i].of
                /\ \A a \in at..stream'[i].of : Answered(a) => \E j \in 1..i : stream'[j].of = a
    <2>1. Clean(i)
      BY <1>4, <1>10
    <2>2. \A j \in 1..i : stream'[j] = stream[j]
      BY <1>4
    <2>3. i \in 1..i /\ \A j \in 1..(i - 1) : j \in 1..i
      OBVIOUS
    <2>4. /\ stream[i].of \in at..(r - 1) /\ Answered(stream[i].of)
          /\ \A j \in 1..(i - 1) : stream[j].of < stream[i].of
          /\ \A a \in at..stream[i].of : Answered(a) => \E j \in 1..i : stream[j].of = a
      BY <1>8, <2>1
    <2>5. stream[i].of \in at..r
      BY <1>6, <2>4
    <2>6. stream'[i].of \in at..r /\ Answered(stream'[i].of)
      BY <2>2, <2>3, <2>4, <2>5
    <2>7. \A j \in 1..(i - 1) : stream'[j].of < stream'[i].of
      BY <2>2, <2>3, <2>4
    <2>8. \A a \in at..stream'[i].of : Answered(a) => \E j \in 1..i : stream'[j].of = a
      BY <2>2, <2>3, <2>4
    <2> QED
      BY <2>6, <2>7, <2>8
  <1>11. ASSUME Clean(n + 1)'
         PROVE  /\ stream'[n + 1].of \in at..r /\ Answered(stream'[n + 1].of)
                /\ \A j \in 1..n : stream'[j].of < stream'[n + 1].of
                /\ \A a \in at..stream'[n + 1].of : Answered(a) => \E j \in 1..(n + 1) : stream'[j].of = a
    <2>1. stream'[n + 1].of = r
      BY <1>4, <1>5
    <2>2. stream'[n + 1].of \in at..r /\ Answered(stream'[n + 1].of)
      BY <1>5, <1>6, <1>7, <2>1
    <2>3. \A j \in 1..n : stream[j].kind = "result"
      <3>1. \A j \in 1..n : j \in 1..(n + 1)
        OBVIOUS
      <3>2. \A j \in 1..(n + 1) : stream'[j].kind = "result"
        BY <1>11 DEF Clean
      <3> QED
        BY <1>4, <3>1, <3>2
    <2>4. \A j \in 1..n : stream'[j].of < r
      <3>1. ASSUME NEW j \in 1..n
            PROVE  stream[j].of \in at..(r - 1)
        <4>1. \A k \in 1..j : k \in 1..n
          OBVIOUS
        <4>2. Clean(j)
          BY <2>3, <4>1 DEF Clean
        <4> QED
          BY <1>8, <4>2
      <3>2. \A j \in 1..n : stream[j].of < r
        BY <1>6, <3>1
      <3> QED
        BY <1>4, <3>2
    <2>5. ~Failing
      BY <1>4, <1>6, <2>3 DEF Failing
    <2>6. ASSUME NEW a \in at..r, Answered(a)
          PROVE  \E j \in 1..(n + 1) : stream'[j].of = a
      <3>1. CASE a = r
        <4>1. n + 1 \in 1..(n + 1)
          OBVIOUS
        <4> QED
          BY <2>1, <3>1, <4>1
      <3>2. CASE a # r
        <4>1. a \in at..(r - 1)
          BY <1>6, <2>6, <3>2
        <4>2. PICK j \in 1..n : stream[j].of = a
          BY <1>9, <2>5, <2>6, <4>1
        <4>3. j \in 1..(n + 1)
          OBVIOUS
        <4> QED
          BY <1>4, <4>2, <4>3
      <3> QED
        BY <3>1, <3>2
    <2> QED
      BY <2>1, <2>2, <2>4, <2>6
  <1>12. ASSUME ~Failing', NEW a \in at..r, Answered(a)
         PROVE  \E i \in DOMAIN stream' : stream'[i].kind = "result" /\ stream'[i].of = a
    <2>1. ~Failing
      BY <1>12, StillFailing DEF clientVars
    <2>2. CASE a = r
      <3>1. n + 1 \in DOMAIN stream'
        BY <1>4
      <3>2. stream'[n + 1].kind = "result" /\ stream'[n + 1].of = a
        BY <1>4, <1>5, <2>2
      <3> QED
        BY <3>1, <3>2
    <2>3. CASE a # r
      <3>1. a \in at..(r - 1)
        BY <1>6, <1>12, <2>3
      <3>2. PICK i \in 1..n : stream[i].kind = "result" /\ stream[i].of = a
        BY <1>9, <1>12, <2>1, <3>1
      <3>3. i \in DOMAIN stream'
        BY <1>4
      <3> QED
        BY <1>4, <3>2, <3>3
    <2> QED
      BY <2>2, <2>3
  <1>13. \A i \in r..(at - 1) : ~Answered(i)
    BY <1>5 DEF IInv, StreamInv
  <1>14. UNCHANGED <<phase, at, start, error>>
    BY DEF clientVars
  <1>15. Answered(at)' <=> Answered(at)
    BY DEF Answered, returnsScalar, Statement, fixed, clientVars
  <1>16. \A i : Answered(stream[i].of)' <=> Answered(stream'[i].of)
    BY DEF Answered, returnsScalar, Statement, fixed, clientVars
  <1>17. at..((r + 1) - 1) = at..r /\ \A i \in (r + 1)..(at - 1) : i \in r..(at - 1)
    BY <1>6
  <1>18. Reached' = r + 1
    BY <1>5
  <1>19. error' = "none" /\ at' \in start'..(End' - 1) /\ Answered(at)'
    BY <1>2, <1>6, <1>14, <1>15
  <1>20. \A i \in Reached'..(at' - 1) : ~Answered(i)'
    BY <1>1, <1>13, <1>14, <1>17, <1>18
  <1>21. at..((Reached') - 1) = at..r
    BY <1>17, <1>18
  <1>22. ASSUME NEW i \in DOMAIN stream', Clean(i)'
         PROVE  /\ stream'[i].of \in at'..(Reached' - 1) /\ Answered(stream[i].of)'
                /\ \A j \in 1..(i - 1) : stream'[j].of < stream'[i].of
                /\ \A a \in at'..stream'[i].of : Answered(a)' => \E j \in 1..i : stream'[j].of = a
    <2>1. i \in 1..n \/ i = n + 1
      BY <1>4
    <2>2. CASE i \in 1..n
      BY <1>1, <1>10, <1>14, <1>16, <1>21, <1>22, <2>2
    <2>3. CASE i = n + 1
      <3>1. 1..(i - 1) = 1..n
        BY <2>3
      <3> QED
        BY <1>1, <1>11, <1>14, <1>16, <1>21, <1>22, <2>3, <3>1
    <2> QED
      BY <2>1, <2>2, <2>3
  <1>23. ~Failing' => \A a \in at'..(Reached' - 1) : Answered(a)' => \E i \in DOMAIN stream' : stream'[i].kind = "result" /\ stream'[i].of = a
    BY <1>1, <1>12, <1>14, <1>21
  <1> QED
    BY <1>19, <1>20, <1>22, <1>23 DEF StreamInv

\* The causes of what is on the stream stay known.
LEMMA StreamCauses ==
    ASSUME IInv, NEW t \in Seq(Answers), stream' = stream \o t, disturbed \subseteq disturbed',
           \A i \in 1..Len(t) : t[i].kind \in {"rejected", "unusable"} => "fault" \in disturbed'
    PROVE  \A i \in DOMAIN stream' : stream'[i].kind \in {"rejected", "unusable"} => "fault" \in disturbed'
  <1>1. /\ DOMAIN stream = 1..Len(stream)
        /\ \A i \in 1..Len(stream) : stream'[i] = stream[i]
        /\ \A i \in 1..Len(t) : stream'[Len(stream) + i] = t[i]
        /\ \A i \in DOMAIN stream' : i \in DOMAIN stream \/ \E j \in 1..Len(t) : i = Len(stream) + j
    BY Grows
  <1>2. \A i \in DOMAIN stream : stream[i].kind \in {"rejected", "unusable"} => "fault" \in disturbed'
    BY DEF IInv, CauseInv
  <1> QED
    BY <1>1, <1>2

\* The Sync ends the response.
LEMMA SyncInv ==
    ASSUME IInv, wire # <<>>, wire[1] = Sync, wire' = <<>>, skipping' = FALSE,
           NEW t \in Seq(Answers), Len(t) = 1, t[1].kind = "end", stream' = stream \o t,
           UNCHANGED <<fixed, clientVars, plan, schema, ran, faults, disturbed>>
    PROVE  IInv'
  <1>2. \A i \in 1..Len(t) : t[i].kind = "end"
    OBVIOUS
  <1>4. /\ Sent /\ wire \in Seq(Items) /\ Len(wire) = 1 /\ Reached = End /\ End \in Nat
        /\ \A i \in DOMAIN stream : stream[i].kind # "end"
    BY HeadItem
  <1>6. \A i \in DOMAIN stream' : stream'[i].kind \in {"rejected", "unusable"} => "fault" \in disturbed'
    BY <1>2, StreamCauses
  <1>7. /\ CallOK' /\ ClientOK' /\ PlanOK' /\ ReadInv' /\ SingleInv' /\ CauseInv'
        /\ ResultsAttributed' /\ FailuresExplained' /\ Items' = Items /\ End' = End
    BY <1>4, <1>6, ServerFrame
  <1>8. Sent' /\ Reached' = End
    BY <1>4, <1>7 DEF Sent, Reached, clientVars
  <1>9. Failing' <=> Failing
    BY <1>2, StillFailing DEF clientVars
  <1>10. /\ stream' \in Seq(Answers) /\ Len(stream') = Len(stream) + 1 /\ Len(stream) \in Nat
         /\ DOMAIN stream = 1..Len(stream)
         /\ \A i \in 1..Len(stream) : stream'[i] = stream[i]
         /\ stream'[Len(stream) + 1] = t[1]
    <2>1. 1 \in 1..Len(t)
      OBVIOUS
    <2>2. /\ stream' \in Seq(Answers) /\ Len(stream') = Len(stream) + Len(t) /\ Len(stream) \in Nat
          /\ DOMAIN stream = 1..Len(stream)
          /\ \A i \in 1..Len(stream) : stream'[i] = stream[i]
          /\ \A i \in 1..Len(t) : stream'[Len(stream) + i] = t[i]
      BY Grows
    <2> QED
      BY <2>1, <2>2
  <1>11. ServerOK'
    <2>1. wire' \in Seq(Items')
      OBVIOUS
    <2>2. ran' \in Seq(Items' \ {Sync'})
      BY <1>7 DEF IInv, TypeOK, ServerOK, Sync
    <2>3. stream' \in Seq(Answers')
      BY <1>10 DEF Answers
    <2>4. skipping' \in BOOLEAN
      OBVIOUS
    <2> QED
      BY <2>1, <2>2, <2>3, <2>4 DEF ServerOK
  <1>12. ResponseInv'
    <2>1. start' < End' /\ call'.inTx
      BY <1>4, <1>7 DEF IInv, ResponseInv, clientVars
    <2>2. stream' # <<>>
      BY <1>10, NonEmpty
    <2>3. stream'[Len(stream')].kind = "end"
      BY <1>2, <1>10
    <2>4. \A i \in 1..(Len(stream') - 1) : stream'[i].kind # "end"
      <3>1. 1..(Len(stream') - 1) = 1..Len(stream)
        BY <1>10
      <3> QED
        BY <1>4, <1>10, <3>1
    <2> QED
      BY <1>8, <2>1, <2>2, <2>3, <2>4 DEF ResponseInv
  <1>13. WireInv'
    <2>1. \A i \in 1..(Len(wire') - 1) : FALSE
      OBVIOUS
    <2> QED
      BY <2>1 DEF WireInv
  <1>14. RanInv' /\ RanInOrder'
    BY <1>4, <1>8, <1>9 DEF IInv, RanInv, RanAll, RanInOrder, fixed
  <1>15. StreamInv'
    <2>1. \A a \in Reached..(Reached' - 1) : FALSE
      BY <1>4, <1>8
    <2>2. Reached' \in Nat /\ Reached' >= Reached
      BY <1>4, <1>8
    <2> QED
      BY <1>4, <2>1, <2>2, StreamStops
  <1> QED
    BY <1>7, <1>11, <1>12, <1>13, <1>14, <1>15 DEF IInv, TypeOK

\* Where a message goes on, its Sync is still to come.
LEMMA StillOpen ==
    ASSUME IInv, wire # <<>>, UNCHANGED <<fixed, clientVars>>, End' = End,
           NEW t \in Seq(Answers), stream' = stream \o t, \A i \in 1..Len(t) : t[i].kind # "end",
           wire' # <<>>, wire'[Len(wire')] = Sync
    PROVE  ResponseInv'
  <1>1. Sent /\ \A i \in DOMAIN stream : stream[i].kind # "end"
    BY HeadItem
  <1>2. /\ DOMAIN stream = 1..Len(stream)
        /\ \A i \in 1..Len(stream) : stream'[i] = stream[i]
        /\ \A i \in 1..Len(t) : stream'[Len(stream) + i] = t[i]
        /\ \A i \in DOMAIN stream' : i \in DOMAIN stream \/ \E j \in 1..Len(t) : i = Len(stream) + j
    BY Grows
  <1>3. \A i \in DOMAIN stream' : stream'[i].kind # "end"
    BY <1>1, <1>2
  <1>4. start' < End' /\ call'.inTx /\ Sent'
    BY <1>1 DEF IInv, ResponseInv, clientVars, Sent
  <1> QED
    BY <1>3, <1>4 DEF ResponseInv, Sync

\* A statement is refused, or dropped after one that was.
LEMMA NoWorkInv ==
    ASSUME IInv, wire # <<>>, UNCHANGED <<fixed, clientVars, plan, schema, ran>>,
           \/ UNCHANGED <<faults, disturbed>>
           \/ Faulty,
           NEW t \in Seq(Answers), stream' = stream \o t, t = <<>> \/ t[1].kind # "result",
           \A i \in 1..Len(t) : t[i].kind # "end" /\ (t[i].kind \in {"rejected", "unusable"} => "fault" \in disturbed'),
           Failing', skipping' \in BOOLEAN, skipping' <=> dialect = "postgres",
           wire' \in Seq(Items), wire' # <<>>, wire'[Len(wire')] = Sync, WireInv',
           Reached' \in Nat, Reached' >= Reached
    PROVE  IInv'
  <1>1. Sent /\ Reached \in start..End /\ start \in Nat /\ End \in Nat
    BY HeadItem
  <1>2. disturbed \subseteq disturbed'
    BY DEF Faulty
  <1>3. \A i \in DOMAIN stream' : stream'[i].kind \in {"rejected", "unusable"} => "fault" \in disturbed'
    BY <1>2, StreamCauses
  <1>4. /\ CallOK' /\ ClientOK' /\ PlanOK' /\ ReadInv' /\ SingleInv' /\ CauseInv'
        /\ ResultsAttributed' /\ FailuresExplained' /\ Items' = Items /\ End' = End
    BY <1>1, <1>3, ServerFrame
  <1>5. ServerOK'
    <2>1. stream' \in Seq(Answers)
      BY Grows
    <2> QED
      BY <1>4, <2>1 DEF IInv, TypeOK, ServerOK, Sync, Answers
  <1>6. ResponseInv'
    BY <1>4, StillOpen
  <1>7. RanInv'
    <2>1. \A i \in DOMAIN ran : ran[i].of < Reached /\ ran[i].of \in Nat
      <3>1. \A i \in DOMAIN ran : ran[i] \in Items \ {Sync}
        BY DEF IInv, TypeOK, ServerOK
      <3>2. \A x \in Items \ {Sync} : x.of \in Nat
        BY ReachedIs, <1>1 DEF Items
      <3> QED
        BY <3>1, <3>2 DEF IInv, RanInv, RanAll
    <2>2. \A i \in DOMAIN ran : ran[i].of < Reached'
      BY <1>1, <2>1
    <2>3. dialect' = "sqlserver" => ~skipping'
      BY DEF fixed
    <2>4. dialect' = "postgres" => skipping'
      BY DEF fixed
    <2> QED
      BY <2>2, <2>3, <2>4 DEF RanInv, RanAll
  <1>8. RanInOrder'
    BY DEF IInv, RanInOrder, fixed
  <1>9. StreamInv'
    BY <1>1, StreamStops
  <1> QED
    BY <1>4, <1>5, <1>6, <1>7, <1>8, <1>9 DEF IInv, TypeOK

\* A statement takes effect, whatever comes of its scalar.
LEMMA WorksInv ==
    ASSUME IInv, wire # <<>>, wire[1] # Sync, ran' = Append(ran, wire[1]),
           UNCHANGED <<fixed, clientVars, plan, schema, skipping>>,
           NEW kind \in {"result", "unusable"},
           kind = "result" => UNCHANGED <<faults, disturbed>>,
           kind = "unusable" => Faulty /\ Answered(Reached),
           dialect = "postgres" => ~skipping,
           NEW t \in Seq(Answers), stream' = stream \o t,
           Answered(Reached) => Len(t) = 1 /\ t[1] = [kind |-> kind, of |-> Reached],
           ~Answered(Reached) => t = <<>>,
           wire' \in Seq(Items), wire' # <<>>, wire'[Len(wire')] = Sync, WireInv', Reached' = Reached + 1
    PROVE  IInv'
  <1>1. /\ Sent /\ wire[1] \in Items /\ wire[1].of = Reached /\ Reached \in start..End /\ start \in Nat /\ start >= 1 /\ End \in Nat
    BY HeadItem
  <1>2. Reached' = Reached + 1
    OBVIOUS
  <1>3. (UNCHANGED <<faults, disturbed>> \/ Faulty) /\ disturbed \subseteq disturbed' /\ (kind = "unusable" => "fault" \in disturbed')
    <2>1. CASE kind = "result"
      BY <2>1
    <2>2. CASE kind = "unusable"
      BY <2>2 DEF Faulty
    <2> QED
      BY <2>1, <2>2
  <1>4. \A i \in 1..Len(t) : t[i].kind = kind
    OBVIOUS
  <1>5. \A i \in 1..Len(t) : t[i].kind # "end" /\ (t[i].kind \in {"rejected", "unusable"} => "fault" \in disturbed')
    BY <1>3, <1>4
  <1>7. \A i \in DOMAIN stream' : stream'[i].kind \in {"rejected", "unusable"} => "fault" \in disturbed'
    BY <1>3, <1>5, StreamCauses
  <1>8. /\ CallOK' /\ ClientOK' /\ PlanOK' /\ ReadInv' /\ SingleInv' /\ CauseInv'
        /\ ResultsAttributed' /\ FailuresExplained' /\ Items' = Items /\ End' = End
    BY <1>1, <1>3, <1>7, ServerFrame
  <1>9. (Failing => Failing') /\ (kind = "unusable" => Failing')
    <2>1. Failing => Failing'
      BY StillFailing DEF clientVars
    <2>2. ASSUME kind = "unusable"
          PROVE  \E i \in 1..Len(t) : t[i].kind \in {"rejected", "unusable", "stale"}
      <3>1. Len(t) = 1
        BY <2>2, Zenon
      <3>2. 1 \in 1..Len(t)
        BY <3>1
      <3>3. t[1].kind = "unusable"
        BY <1>4, <2>2, <3>2, Zenon
      <3> QED
        BY <3>2, <3>3, Zenon
    <2> QED
      BY <2>1, <2>2, StillFailing DEF clientVars
  <1>10. /\ ran \in Seq(Items \ {Sync}) /\ ran' \in Seq(Items \ {Sync}) /\ Len(ran') = Len(ran) + 1 /\ Len(ran) \in Nat
         /\ ran'[Len(ran) + 1] = wire[1] /\ \A i \in 1..Len(ran) : ran'[i] = ran[i]
    <2>1. ran \in Seq(Items \ {Sync}) /\ wire[1] \in Items \ {Sync}
      BY <1>1 DEF IInv, TypeOK, ServerOK
    <2> QED
      BY <2>1, Appended
  <1>11. ServerOK'
    <2>1. stream' \in Seq(Answers)
      BY Grows
    <2> QED
      BY <1>2, <1>8, <1>10, <2>1 DEF IInv, TypeOK, ServerOK, Sync, Answers
  <1>12. ResponseInv'
    BY <1>5, <1>8, StillOpen
  <1>13. PICK n \in Nat : n = Len(ran)
    BY <1>10
  <1>14. /\ DOMAIN ran = 1..n /\ DOMAIN ran' = 1..(n + 1)
         /\ ran'[n + 1].of = Reached /\ \A i \in 1..n : ran'[i] = ran[i]
    BY <1>1, <1>10, <1>13
  <1>15. Reached \in Nat
    BY <1>1
  <1>16. \A i \in 1..n : ran[i].of < Reached /\ ran[i].of \in Nat
    <2>1. \A i \in 1..n : ran[i] \in Items \ {Sync}
      BY <1>10, <1>13
    <2>2. \A x \in Items \ {Sync} : x.of \in Nat
      BY ReachedIs, <1>1 DEF Items
    <2> QED
      BY <1>14, <2>1, <2>2 DEF IInv, RanInv, RanAll
  <1>17. dialect = "postgres" => RanAll
    BY <1>1 DEF IInv, RanInv
  <1>18. ~Failing \/ dialect = "postgres" => Reached = n + 1 /\ \A i \in 1..n : ran[i].of = i
    <2>1. ~Failing \/ dialect = "postgres" => RanAll
      BY <1>17 DEF IInv, RanInv
    <2>2. RanAll => n = Reached - 1 /\ \A i \in 1..n : ran[i].of = i
      BY <1>13, <1>14 DEF RanAll
    <2> QED
      BY <1>15, <2>1, <2>2
  <1>19. ~Failing \/ dialect = "postgres" => RanAll'
    <2>1. ASSUME ~Failing \/ dialect = "postgres"
          PROVE  Len(ran') = Reached' - 1 /\ \A i \in 1..(n + 1) : ran'[i].of = i
      BY <1>2, <1>10, <1>13, <1>14, <1>15, <1>18, <2>1
    <2> QED
      BY <1>14, <2>1 DEF RanAll
  <1>20. RanInv'
    <2>1. \A i \in DOMAIN ran' : ran'[i].of < Reached'
      <3>1. \A i \in 1..(n + 1) : i \in 1..n \/ i = n + 1
        OBVIOUS
      <3>2. \A i \in 1..(n + 1) : ran'[i].of < Reached + 1
        BY <1>14, <1>15, <1>16, <3>1
      <3> QED
        BY <1>14, <3>2
    <2>2. ~Failing' => RanAll'
      BY <1>9, <1>19
    <2>3. dialect = "postgres" => RanAll' /\ ~skipping'
      BY <1>19
    <2>4. dialect = "sqlserver" => ~skipping'
      BY DEF IInv, RanInv, RanAll
    <2> QED
      BY <2>1, <2>2, <2>3, <2>4 DEF RanInv, fixed
  <1>21. RanInOrder'
    <2>1. ASSUME NEW i \in 1..(n + 1), NEW j \in 1..(n + 1), i < j
          PROVE  ran'[i].of < ran'[j].of
      <3>1. i \in 1..n
        BY <2>1
      <3>2. CASE j = n + 1
        BY <1>14, <1>16, <3>1, <3>2
      <3>3. CASE j # n + 1
        <4>1. j \in 1..n
          BY <3>3
        <4>2. ran[i].of < ran[j].of
          BY <1>14, <2>1, <3>1, <4>1 DEF IInv, RanInOrder
        <4> QED
          BY <1>14, <3>1, <4>1, <4>2
      <3> QED
        BY <3>2, <3>3
    <2>2. dialect = "postgres" => \A i \in 1..(n + 1) : ran'[i].of = i
      BY <1>14, <1>19 DEF RanAll
    <2> QED
      BY <1>14, <2>1, <2>2 DEF RanInOrder, fixed
  <1>22. StreamInv'
    <2>1. CASE Answered(Reached) /\ kind = "result"
      BY <2>1, StreamAnswer
    <2>3. CASE Answered(Reached) /\ kind = "unusable"
      <3>1. Reached' \in Nat /\ Reached' >= Reached
        BY <1>15
      <3>2. t[1].kind # "result"
        BY <2>3
      <3> QED
        BY <1>1, <1>9, <2>3, <3>1, <3>2, StreamStops
    <2>2. CASE ~Answered(Reached)
      <3>1. PICK r \in Nat : r = Reached
        BY <1>15
      <3>2. r + 1 >= r /\ r + 1 \in Nat /\ \A a \in r..((r + 1) - 1) : a = r
        OBVIOUS
      <3>3. Reached' \in Nat /\ Reached' >= Reached /\ \A a \in Reached..(Reached' - 1) : ~Answered(a)
        BY <2>2, <3>1, <3>2
      <3> QED
        BY <1>1, <2>2, <3>3, StreamStops
    <2> QED
      BY <2>1, <2>2, <2>3
  <1> QED
    BY <1>2, <1>8, <1>11, <1>12, <1>20, <1>21, <1>22 DEF IInv, TypeOK

\* The answers the server gives.
LEMMA AnswerIs ==
    ASSUME NEW kind \in {"result", "rejected", "unusable", "stale", "end"}, NEW of \in Nat
    PROVE  /\ Answer(kind, of) \in Seq(Answers) /\ Len(Answer(kind, of)) = 1
           /\ Answer(kind, of)[1] = [kind |-> kind, of |-> of] /\ Answer(kind, of)[1].kind = kind
           /\ \A i \in 1..Len(Answer(kind, of)) : Answer(kind, of)[i].kind = kind
  <1>1. [kind |-> kind, of |-> of] \in Answers
    BY DEF Answers
  <1> QED
    BY <1>1 DEF Answer

\* What a text still answers for the scalar after an error.
LEMMA ScalarIs ==
    /\ Answer("result", 0) \in Seq(Answers) /\ Len(Answer("result", 0)) = 1 /\ Answer("result", 0)[1].kind = "result"
  <1>1. "result" \in {"result", "rejected", "unusable", "stale", "end"} /\ 0 \in Nat
    OBVIOUS
  <1> QED
    BY <1>1, AnswerIs

\* The answer of a statement that failed.
LEMMA ErrorIs ==
    ASSUME NEW kind \in {"rejected", "stale"}
    PROVE  /\ Answer(kind, 0) \in Seq(Answers) /\ Len(Answer(kind, 0)) = 1 /\ Answer(kind, 0)[1].kind = kind
           /\ \A i \in 1..Len(Answer(kind, 0)) : Answer(kind, 0)[i].kind = kind
  <1>1. kind \in {"result", "rejected", "unusable", "stale", "end"}
    OBVIOUS
  <1>2. [kind |-> kind, of |-> 0] \in Answers
    BY <1>1 DEF Answers
  <1> QED
    BY <1>2 DEF Answer

\* What follows a statement the server has taken off the wire.
LEMMA Onwards ==
    ASSUME IInv, wire # <<>>, wire[1] # Sync, UNCHANGED <<fixed, call, start, phase>>, wire' = Tail(wire)
    PROVE  /\ wire' \in Seq(Items) /\ wire' # <<>> /\ wire'[Len(wire')] = Sync /\ WireInv'
           /\ Reached' = Reached + 1 /\ Reached' \in Nat /\ Reached' >= Reached
  <1>1. Reached \in start..End /\ start \in Nat /\ End \in Nat
    BY HeadItem
  <1>2. PICK r \in Nat : r = Reached
    BY <1>1
  <1>3. r + 1 \in Nat /\ r + 1 >= r
    OBVIOUS
  <1>4. wire' \in Seq(Items) /\ wire' # <<>> /\ wire'[Len(wire')] = Sync /\ WireInv' /\ Reached' = Reached + 1
    BY Consumed
  <1> QED
    BY <1>2, <1>3, <1>4

\* The server runs the statement at the head of the wire.
LEMMA WorkStep ==
    ASSUME IInv, wire # <<>>, wire[1] # Sync, NEW kind \in {"result", "unusable"}, Works(wire[1], kind), wire' = Tail(wire),
           UNCHANGED <<fixed, clientVars, plan, schema, skipping>>,
           kind = "result" => UNCHANGED <<faults, disturbed>>,
           kind = "unusable" => Faulty /\ Answered(wire[1].of),
           dialect = "postgres" => ~skipping
    PROVE  IInv'
  <1>1. UNCHANGED <<fixed, call, start, phase>>
    BY DEF clientVars
  <1>2. /\ wire' \in Seq(Items) /\ wire' # <<>> /\ wire'[Len(wire')] = Sync /\ WireInv' /\ Reached' = Reached + 1
    BY <1>1, Onwards
  <1>3. wire[1].of = Reached /\ Reached \in Nat
    <2>1. wire[1].of = Reached /\ Reached \in start..End /\ start \in Nat /\ End \in Nat
      BY HeadItem
    <2> QED
      BY <2>1
  <1>4. ran' = Append(ran, wire[1])
    BY DEF Works
  <1>5. CASE Answered(Reached)
    <2>1. stream' = stream \o Answer(kind, Reached)
      BY <1>3, <1>5 DEF Works
    <2>2. Answer(kind, Reached) \in Seq(Answers) /\ Len(Answer(kind, Reached)) = 1
          /\ Answer(kind, Reached)[1] = [kind |-> kind, of |-> Reached]
      BY <1>3, AnswerIs
    <2> QED
      BY <1>2, <1>4, <1>5, <2>1, <2>2, WorksInv
  <1>6. CASE ~Answered(Reached)
    <2>1. stream' = stream
      BY <1>3, <1>6 DEF Works
    <2>2. stream \in Seq(Answers)
      BY DEF IInv, TypeOK, ServerOK
    <2>3. stream' = stream \o <<>> /\ <<>> \in Seq(Answers)
      BY <2>1, <2>2
    <2> QED
      BY <1>2, <1>3, <1>4, <1>6, <2>3, WorksInv
  <1> QED
    BY <1>5, <1>6

\* A statement that runs and answers with nothing the reader can use.
LEMMA UnusableStep ==
    ASSUME IInv, wire # <<>>, wire[1] # Sync, Unusable(wire[1]), wire' = Tail(wire),
           UNCHANGED <<fixed, clientVars, plan, schema, skipping>>,
           dialect = "postgres" => ~skipping
    PROVE  IInv'
  <1>1. Faulty /\ Answered(wire[1].of) /\ Works(wire[1], "unusable")
    BY DEF Unusable, Answered
  <1> QED
    BY <1>1, WorkStep

\* The server comes to the Sync and ends its response.
LEMMA SyncStep ==
    ASSUME IInv, wire # <<>>, wire[1] = Sync, wire' = Tail(wire), stream' = stream \o Answer("end", 0), ~skipping',
           skipping' \in BOOLEAN, UNCHANGED <<fixed, clientVars, plan, schema, ran, faults, disturbed>>
    PROVE  IInv'
  <1>1. wire' = <<>>
    <2>1. wire \in Seq(Items) /\ Len(wire) = 1
      BY HeadItem
    <2> QED
      BY <2>1
  <1>2. Answer("end", 0) \in Seq(Answers) /\ Len(Answer("end", 0)) = 1 /\ Answer("end", 0)[1].kind = "end"
    BY AnswerIs
  <1>3. skipping' = FALSE
    OBVIOUS
  <1> QED
    BY <1>1, <1>2, <1>3, SyncInv

\* Every step of the PostgreSQL server.
LEMMA PipelineServerInv ==
    ASSUME IInv, PipelineServer
    PROVE  IInv'
  <1>1. /\ dialect = "postgres" /\ wire # <<>> /\ wire' = Tail(wire) /\ UNCHANGED <<fixed, clientVars, plan, schema>>
        /\ UNCHANGED <<fixed, call, start, phase>>
    BY DEF PipelineServer, clientVars
  <1>2. Head(wire) = wire[1]
    BY <1>1, HeadItem
  <1>3. CASE /\ wire[1] = Sync /\ stream' = stream \o Answer("end", 0) /\ skipping' = FALSE
             /\ UNCHANGED <<ran, faults, disturbed>>
    BY <1>1, <1>3, SyncStep
  <1>4. CASE wire[1] # Sync /\ skipping /\ UNCHANGED <<stream, skipping, ran, faults, disturbed>>
    <2>1. /\ wire' \in Seq(Items) /\ wire' # <<>> /\ wire'[Len(wire')] = Sync /\ WireInv' /\ Reached' \in Nat /\ Reached' >= Reached
      BY <1>1, <1>4, Onwards
    <2>2. stream \in Seq(Answers)
      BY DEF IInv, TypeOK, ServerOK
    <2>3. stream' = stream \o <<>> /\ <<>> \in Seq(Answers) /\ \A i \in 1..Len(<<>>) : FALSE
      BY <1>4, <2>2
    <2>4. Sent
      BY <1>1, HeadItem
    <2>5. Failing
      BY <1>1, <1>4, <2>4 DEF IInv, RanInv, RanAll
    <2>6. Failing'
      BY <1>1, <2>3, <2>5, StillFailing DEF clientVars
    <2>7. skipping' \in BOOLEAN /\ skipping'
      BY <1>4 DEF IInv, TypeOK, ServerOK
    <2> QED
      BY <1>1, <1>4, <2>1, <2>3, <2>6, <2>7, NoWorkInv
  <1>5. CASE /\ wire[1] # Sync /\ ~skipping /\ Stale(wire[1].of) /\ stream' = stream \o Answer("stale", 0) /\ skipping' = TRUE
             /\ UNCHANGED <<ran, faults, disturbed>>
    <2>1. /\ wire' \in Seq(Items) /\ wire' # <<>> /\ wire'[Len(wire')] = Sync /\ WireInv' /\ Reached' \in Nat /\ Reached' >= Reached
      BY <1>1, <1>5, Onwards
    <2>2. /\ Answer("stale", 0) \in Seq(Answers) /\ Len(Answer("stale", 0)) = 1 /\ Answer("stale", 0)[1].kind = "stale"
          /\ \A i \in 1..Len(Answer("stale", 0)) : Answer("stale", 0)[i].kind = "stale"
      BY ErrorIs
    <2>3. Failing'
      <3>1. 1 \in 1..Len(Answer("stale", 0))
        BY <2>2
      <3> QED
        BY <1>1, <1>5, <2>2, <3>1, StillFailing DEF clientVars
    <2> QED
      BY <1>1, <1>5, <2>1, <2>2, <2>3, NoWorkInv
  <1>6. CASE /\ wire[1] # Sync /\ ~skipping /\ Works(wire[1], "result") /\ UNCHANGED <<skipping, faults, disturbed>>
    BY <1>1, <1>6, WorkStep
  <1>8. CASE wire[1] # Sync /\ ~skipping /\ Unusable(wire[1]) /\ UNCHANGED skipping
    BY <1>1, <1>8, UnusableStep
  <1>7. CASE /\ wire[1] # Sync /\ ~skipping /\ Faulty /\ stream' = stream \o Answer("rejected", 0) /\ skipping' = TRUE
             /\ UNCHANGED ran
    <2>1. /\ wire' \in Seq(Items) /\ wire' # <<>> /\ wire'[Len(wire')] = Sync /\ WireInv' /\ Reached' \in Nat /\ Reached' >= Reached
      BY <1>1, <1>7, Onwards
    <2>2. /\ Answer("rejected", 0) \in Seq(Answers) /\ Len(Answer("rejected", 0)) = 1 /\ Answer("rejected", 0)[1].kind = "rejected"
          /\ \A i \in 1..Len(Answer("rejected", 0)) : Answer("rejected", 0)[i].kind = "rejected"
      BY ErrorIs
    <2>3. Failing'
      <3>1. 1 \in 1..Len(Answer("rejected", 0))
        BY <2>2
      <3> QED
        BY <1>1, <1>7, <2>2, <3>1, StillFailing DEF clientVars
    <2>4. "fault" \in disturbed'
      BY <1>7 DEF Faulty
    <2> QED
      BY <1>1, <1>7, <2>1, <2>2, <2>3, <2>4, NoWorkInv
  <1> QED
    BY <1>2, <1>3, <1>4, <1>5, <1>6, <1>7, <1>8 DEF PipelineServer

\* Every step of the SQL Server server.
LEMMA TextServerInv ==
    ASSUME IInv, TextServer
    PROVE  IInv'
  <1>1. /\ dialect = "sqlserver" /\ wire # <<>> /\ UNCHANGED <<fixed, clientVars, plan, schema, skipping>>
        /\ UNCHANGED <<fixed, call, start, phase>>
    BY DEF TextServer, clientVars
  <1>2. Head(wire) = wire[1] /\ Sent /\ Reached \in start..End /\ start \in Nat /\ End \in Nat
    BY <1>1, HeadItem
  <1>3. ~skipping' /\ skipping' \in BOOLEAN
    BY <1>1 DEF IInv, RanInv, RanAll, TypeOK, ServerOK
  <1>4. CASE wire[1] = Sync /\ wire' = Tail(wire) /\ stream' = stream \o Answer("end", 0) /\ UNCHANGED <<ran, faults, disturbed>>
    BY <1>1, <1>3, <1>4, SyncStep
  <1>5. CASE wire[1] # Sync /\ wire' = Tail(wire) /\ Works(wire[1], "result") /\ UNCHANGED <<faults, disturbed>>
    BY <1>1, <1>5, WorkStep
  <1>10. CASE wire[1] # Sync /\ wire' = Tail(wire) /\ Unusable(wire[1])
    BY <1>1, <1>10, UnusableStep
  <1>6. /\ Answer("rejected", 0) \in Seq(Answers) /\ Len(Answer("rejected", 0)) = 1 /\ Answer("rejected", 0)[1].kind = "rejected"
        /\ \A i \in 1..Len(Answer("rejected", 0)) : Answer("rejected", 0)[i].kind = "rejected"
    BY ErrorIs
  <1>7. Answer("result", 0) \in Seq(Answers) /\ Len(Answer("result", 0)) = 1 /\ Answer("result", 0)[1].kind = "result"
    BY ScalarIs, Zenon
  <1>8. CASE /\ wire[1] # Sync /\ Faulty /\ wire' = Tail(wire) /\ UNCHANGED ran
             /\ stream' = stream \o Answer("rejected", 0) \o (IF Answered(wire[1].of) THEN Answer("result", 0) ELSE <<>>)
    <2>1. PICK rest : rest = IF Answered(wire[1].of) THEN Answer("result", 0) ELSE <<>>
      OBVIOUS
    <2>2. rest \in Seq(Answers) /\ \A i \in 1..Len(rest) : rest[i].kind = "result"
      BY <1>7, <2>1
    <2>3. PICK t : t = Answer("rejected", 0) \o rest
      OBVIOUS
    <2>4. /\ t \in Seq(Answers) /\ Len(t) = 1 + Len(rest) /\ Len(rest) \in Nat
          /\ t[1] = Answer("rejected", 0)[1] /\ \A i \in 1..Len(rest) : t[1 + i] = rest[i]
      <3>1. 1 \in 1..Len(Answer("rejected", 0))
        BY <1>6
      <3> QED
        BY <1>6, <2>2, <2>3, <3>1, Concatenated
    <2>5. t[1].kind = "rejected" /\ \A i \in 1..Len(t) : t[i].kind \in {"rejected", "result"}
      <3>1. ASSUME NEW i \in 1..Len(t), i # 1
            PROVE  t[i].kind = "result"
        <4>1. i - 1 \in 1..Len(rest) /\ 1 + (i - 1) = i
          BY <2>4, <3>1
        <4> QED
          BY <2>2, <2>4, <4>1
      <3> QED
        BY <1>6, <2>4, <3>1
    <2>6. stream' = stream \o t
      <3>1. stream \in Seq(Answers)
        BY DEF IInv, TypeOK, ServerOK
      <3>2. (stream \o Answer("rejected", 0)) \o rest = stream \o (Answer("rejected", 0) \o rest)
        BY <1>6, <2>2, <3>1
      <3> QED
        BY <1>8, <2>1, <2>3, <3>2
    <2>7. /\ wire' \in Seq(Items) /\ wire' # <<>> /\ wire'[Len(wire')] = Sync /\ WireInv' /\ Reached' \in Nat /\ Reached' >= Reached
      BY <1>1, <1>8, Onwards
    <2>8. Failing'
      <3>1. 1 \in 1..Len(t)
        BY <2>4
      <3> QED
        BY <1>1, <2>4, <2>5, <2>6, <3>1, StillFailing DEF clientVars
    <2>9. "fault" \in disturbed'
      BY <1>8 DEF Faulty
    <2>10. t[1].kind # "result" /\ \A i \in 1..Len(t) : t[i].kind # "end"
      BY <2>5
    <2>11. ~(dialect = "postgres")
      BY <1>1
    <2> HIDE <1>8
    <2> QED
      BY <1>1, <1>3, <1>8, <2>4, <2>6, <2>7, <2>8, <2>9, <2>10, <2>11, NoWorkInv
  <1>9. CASE wire[1] # Sync /\ Faulty /\ wire' = <<Sync>> /\ UNCHANGED ran /\ stream' = stream \o Answer("rejected", 0)
    <2>1. wire' \in Seq(Items) /\ wire' # <<>> /\ wire'[Len(wire')] = Sync /\ Len(wire') = 1
      BY <1>9 DEF Items
    <2>2. WireInv'
      <3>1. \A i \in 1..(Len(wire') - 1) : FALSE
        BY <2>1
      <3> QED
        BY <3>1 DEF WireInv
    <2>3. Reached' = End
      <3>1. End' = End /\ Sent'
        BY <1>1, <1>2, SegmentFrame DEF Sent, fixed
      <3>2. Reached' = End + 1 - Len(wire')
        BY <2>1, <3>1 DEF Reached
      <3> QED
        BY <1>2, <2>1, <3>2
    <2>4. Reached' \in Nat /\ Reached' >= Reached
      BY <1>2, <2>3
    <2>5. Failing'
      <3>1. 1 \in 1..Len(Answer("rejected", 0))
        BY <1>6
      <3> QED
        BY <1>1, <1>6, <1>9, <3>1, StillFailing DEF clientVars
    <2>6. "fault" \in disturbed'
      BY <1>9 DEF Faulty
    <2> QED
      BY <1>1, <1>3, <1>6, <1>9, <2>1, <2>2, <2>4, <2>5, <2>6, NoWorkInv
  <1> QED
    BY <1>2, <1>4, <1>5, <1>8, <1>9, <1>10 DEF TextServer

-----------------------------------------------------------------------------
(***************************************************************************)
(* Every step keeps the invariant                                          *)
(***************************************************************************)
LEMMA ChangeSchemaInv ==
    ASSUME IInv, ChangeSchema
    PROVE  IInv'
  <1>1. UNCHANGED <<fixed, clientVars, serverVars, plan>> /\ schema' = schema + 1 /\ disturbed' = disturbed \cup {"schema"}
    BY DEF ChangeSchema
  <1>2. /\ Last_' = Last_ /\ Items' = Items /\ Texts(dialect)' = Texts(dialect)
        /\ \A i : Statement(i)' = Statement(i) /\ Sees(i)' = Sees(i) /\ (Answered(i)' <=> Answered(i))
    BY <1>1, CallFrame DEF fixed, clientVars
  <1>3. End' = End
    BY <1>1, SegmentFrame DEF fixed, clientVars
  <1>4. (Sent' <=> Sent) /\ Reached' = Reached /\ (Failing' <=> Failing) /\ \A i : Clean(i)' <=> Clean(i)
    BY <1>1, <1>3 DEF Sent, Reached, Failing, Clean, clientVars, serverVars
  <1>5. CallOK'
    BY <1>1, CallOKFrame DEF IInv, TypeOK, clientVars
  <1>6. ClientOK'
    BY <1>1, <1>2 DEF IInv, TypeOK, ClientOK, clientVars
  <1>7. ServerOK'
    BY <1>1, <1>2 DEF IInv, TypeOK, ServerOK, serverVars, Sync, Answers
  <1>8. PlanOK'
    <2>1. schema' \in Nat
      BY <1>1 DEF IInv, TypeOK, PlanOK
    <2>2. disturbed' \subseteq {"fault", "schema"}
      BY <1>1 DEF IInv, TypeOK, PlanOK
    <2> QED
      BY <1>1, <1>2, <2>1, <2>2 DEF IInv, TypeOK, PlanOK, serverVars
  <1>9. ResponseInv' /\ WireInv'
    BY <1>1, <1>3, <1>4 DEF IInv, ResponseInv, WireInv, clientVars, serverVars, Sync
  <1>10. RanInv' /\ RanInOrder'
    BY <1>1, <1>4 DEF IInv, RanInv, RanAll, RanInOrder, serverVars, fixed
  <1>11. StreamInv'
    <2>1. Answered(at)' <=> Answered(at)
      BY <1>1 DEF Answered, returnsScalar, Statement, fixed, clientVars
    <2>2. \A i : Answered(stream[i].of)' <=> Answered(stream[i].of)
      BY <1>1 DEF Answered, returnsScalar, Statement, fixed, clientVars, serverVars
    <2> QED
      BY <1>1, <1>2, <1>3, <1>4, <2>1, <2>2 DEF IInv, StreamInv, clientVars, serverVars
  <1>12. ReadInv' /\ SingleInv'
    BY <1>1, <1>2, <1>3 DEF IInv, ReadInv, SingleInv, clientVars
  <1>13. CauseInv'
    <2>1. Excused'
      BY <1>1 DEF Excused
    <2> QED
      BY <1>1, <1>2, <2>1 DEF IInv, CauseInv, clientVars, serverVars
  <1>14. ResultsAttributed'
    BY <1>1, <1>2 DEF IInv, ResultsAttributed, clientVars, serverVars
  <1>15. FailuresExplained'
    BY <1>1 DEF IInv, FailuresExplained, clientVars, fixed
  <1> QED
    BY <1>5, <1>6, <1>7, <1>8, <1>9, <1>10, <1>11, <1>12, <1>13, <1>14, <1>15 DEF IInv, TypeOK

\* A stuttering step.
LEMMA StutterInv ==
    ASSUME IInv, UNCHANGED vars
    PROVE  IInv'
  <1>1. UNCHANGED <<fixed, clientVars, serverVars, plan, schema, disturbed>>
    BY DEF vars
  <1>2. /\ Last_' = Last_ /\ Items' = Items /\ Texts(dialect)' = Texts(dialect)
        /\ \A i : Statement(i)' = Statement(i) /\ Sees(i)' = Sees(i) /\ (Answered(i)' <=> Answered(i))
    BY <1>1, CallFrame DEF fixed, clientVars
  <1>3. End' = End
    BY <1>1, SegmentFrame DEF fixed, clientVars
  <1>4. (Sent' <=> Sent) /\ Reached' = Reached /\ (Failing' <=> Failing) /\ \A i : Clean(i)' <=> Clean(i)
    BY <1>1, <1>3 DEF Sent, Reached, Failing, Clean, clientVars, serverVars
  <1>5. CallOK'
    BY <1>1, CallOKFrame DEF IInv, TypeOK, clientVars
  <1>6. ClientOK'
    BY <1>1, <1>2 DEF IInv, TypeOK, ClientOK, clientVars
  <1>7. ServerOK'
    BY <1>1, <1>2 DEF IInv, TypeOK, ServerOK, serverVars, Sync, Answers
  <1>8. PlanOK'
    BY <1>1, <1>2 DEF IInv, TypeOK, PlanOK, serverVars
  <1>9. ResponseInv' /\ WireInv'
    BY <1>1, <1>3, <1>4 DEF IInv, ResponseInv, WireInv, clientVars, serverVars, Sync
  <1>10. RanInv' /\ RanInOrder'
    BY <1>1, <1>4 DEF IInv, RanInv, RanAll, RanInOrder, serverVars, fixed
  <1>11. StreamInv'
    <2>1. Answered(at)' <=> Answered(at)
      BY <1>1 DEF Answered, returnsScalar, Statement, fixed, clientVars
    <2>2. \A i : Answered(stream[i].of)' <=> Answered(stream[i].of)
      BY <1>1 DEF Answered, returnsScalar, Statement, fixed, clientVars, serverVars
    <2> QED
      BY <1>1, <1>2, <1>3, <1>4, <2>1, <2>2 DEF IInv, StreamInv, clientVars, serverVars
  <1>12. ReadInv' /\ SingleInv'
    BY <1>1, <1>2, <1>3 DEF IInv, ReadInv, SingleInv, clientVars
  <1>13. CauseInv'
    <2>1. Excused' <=> Excused
      BY <1>1 DEF Excused, fixed, clientVars
    <2> QED
      BY <1>1, <1>2, <2>1 DEF IInv, CauseInv, clientVars, serverVars, fixed
  <1>14. ResultsAttributed'
    BY <1>1, <1>2 DEF IInv, ResultsAttributed, clientVars, serverVars
  <1>15. FailuresExplained'
    BY <1>1 DEF IInv, FailuresExplained, clientVars, fixed
  <1> QED
    BY <1>5, <1>6, <1>7, <1>8, <1>9, <1>10, <1>11, <1>12, <1>13, <1>14, <1>15 DEF IInv, TypeOK

\* Every step keeps the invariant.
LEMMA NextInv ==
    ASSUME IInv, [Next]_vars
    PROVE  IInv'
  <1>1. ASSUME NEW m \in Messages[dialect], SendMessage(m) PROVE IInv'
    BY <1>1, SendMessageInv
  <1>2. ASSUME NEW s \in Singles[dialect], NEW inTx \in BOOLEAN, NEW explicit \in BOOLEAN, ExecContext(s, inTx, explicit)
        PROVE IInv'
    BY <1>2, ExecContextInv
  <1>3. ASSUME Finish PROVE IInv'
    BY <1>3, FinishInv
  <1>4. ASSUME sendPipeline PROVE IInv'
    BY <1>4, SendPipelineInv
  <1>5. ASSUME sendText PROVE IInv'
    BY <1>5, SendTextInv
  <1>6. ASSUME sendAlone PROVE IInv'
    BY <1>6, SendAloneInv
  <1>7. ASSUME readResult PROVE IInv'
    BY <1>7, ReadResultInv, ReadErrorInv
  <1>8. ASSUME Drain PROVE IInv'
    BY <1>8, DrainOneInv, DrainEndInv
  <1>9. ASSUME Prepare PROVE IInv'
    BY <1>9, PrepareInv
  <1>10. ASSUME Execute PROVE IInv'
    BY <1>10, ExecuteInv
  <1>11. ASSUME PipelineServer PROVE IInv'
    BY <1>11, PipelineServerInv
  <1>12. ASSUME TextServer PROVE IInv'
    BY <1>12, TextServerInv
  <1>13. ASSUME ChangeSchema PROVE IInv'
    BY <1>13, ChangeSchemaInv
  <1>14. ASSUME UNCHANGED vars PROVE IInv'
    BY <1>14, StutterInv
  <1> QED
    BY <1>1, <1>2, <1>3, <1>4, <1>5, <1>6, <1>7, <1>8, <1>9, <1>10, <1>11, <1>12, <1>13, <1>14 DEF Next

\* The invariant holds throughout.
LEMMA Invariance == Spec => []IInv
  <1>1. Init => IInv
    BY InitInv
  <1>2. IInv /\ [Next]_vars => IInv'
    BY NextInv
  <1> QED
    BY <1>1, <1>2, PTL DEF Spec

-----------------------------------------------------------------------------
(***************************************************************************)
(* The theorems                                                            *)
(***************************************************************************)
\* Whatever is on the wire is the Sync or a statement of the call in progress with the values bound to
\* its own placeholders, and every text that may be sent has its place in the plan cache: what the
\* senders of postgres/batch.go, sqlserver/batch.go and driver.go hand to the connection.
THEOREM TypeCorrect == Spec => []TypeOK
  <1>1. IInv => TypeOK
    BY DEF IInv
  <1> QED
    BY <1>1, Invariance, PTL

\* Between two segments and after every return nothing is left to execute or to read: pending.Close and
\* rows.Close leave the connection clean, whatever failed.
THEOREM NoneUnread == Spec => []NothingUnread
  <1>1. IInv => NothingUnread
    BY DEF IInv, ResponseInv, Sent, NothingUnread
  <1> QED
    BY <1>1, Invariance, PTL

\* Statements never overtake each other, and on PostgreSQL nothing runs after one that was refused
\* (SendMessage's early returns and the server's skipping to the Sync).
THEOREM InOrder == Spec => []RanInOrder
  <1>1. IInv => RanInOrder
    BY DEF IInv
  <1> QED
    BY <1>1, Invariance, PTL

\* A call that returns no error ran every statement once, in order and with its own values, and every
\* result that is read is the statement's own: the contract of core.StatementBatcher, for every list
\* of statements and however it is cut into pipelines, texts and statements of their own.
THEOREM OwnResults == Spec => []ResultsAttributed
  <1>1. IInv => ResultsAttributed
    BY DEF IInv
  <1> QED
    BY <1>1, Invariance, PTL

\* A call fails only because the server refused a statement or the schema changed, and a change that
\* was over before an immediate statement outside a transaction began is never seen by its caller
\* (retriesCachedPlan, renameApart).
THEOREM FailuresHaveCauses == Spec => []FailuresExplained
  <1>1. IInv => FailuresExplained
    BY DEF IInv
  <1> QED
    BY <1>1, Invariance, PTL


=============================================================================
