--------------------------- MODULE Loading_proofs ---------------------------
(***************************************************************************)
(* A load writes only the navigations it names: for every set of rows,     *)
(* include list, fetch mode, limit and interleaved write by others.        *)
(* HeldInv and IncludesInv are inductive; what the queries answer and the  *)
(* order they answer in plays no part.                                     *)
(***************************************************************************)
EXTENDS Loading, TLAPS

LInv == HeldInv /\ IncludesInv

Fields == {"mode", "explicit", "includes", "named", "limit", "phase", "entities", "chunks", "sent", "rows", "links", "result"}

\* The navigations a call names are those of its include list.
LEMMA NamedIs ==
    ASSUME NEW includes \in Seq(Kinds)
    PROVE  ToSet(includes) \subseteq Kinds /\ includes \in Seq(ToSet(includes))
BY DEF ToSet

\* The first query of the next navigation, or the end of the call.
LEMMA FirstQueryIs ==
    ASSUME NEW c, DOMAIN c = Fields
    PROVE  /\ DOMAIN FirstQuery(c) = Fields
           /\ FirstQuery(c).includes = c.includes /\ FirstQuery(c).named = c.named
           /\ FirstQuery(c).phase \in {"link", "target"} => c.includes # <<>>
  <1>1. CASE c.includes = <<>>
    <2>1. FirstQuery(c) = [c EXCEPT !.phase = "idle", !.result = "ok"]
      BY <1>1 DEF FirstQuery
    <2>2. FirstQuery(c).phase = "idle"
      BY <2>1 DEF Fields
    <2> QED
      BY <2>1, <2>2 DEF Fields
  <1>2. CASE c.includes # <<>>
    <2>1. PICK phase, chunks, sent : FirstQuery(c) = [c EXCEPT !.phase = phase, !.chunks = chunks, !.sent = sent, !.rows = <<>>, !.links = {}]
      BY <1>2 DEF FirstQuery
    <2> QED
      BY <1>2, <2>1 DEF Fields
  <1> QED
    BY <1>1, <1>2

\* Nothing is held and no call is in progress.
LEMMA InitInv == Init => LInv
  <1> SUFFICES ASSUME Init PROVE LInv
    OBVIOUS
  <1>1. HeldInv
    BY DEF Init, HeldInv
  <1>2. <<>> \in Seq(Kinds) /\ call = Start("MultiQuery", <<>>, NoLimit, "idle", <<>>)
    BY DEF Init
  <1>3. /\ DOMAIN call = Fields /\ call.includes = <<>> /\ call.phase = "idle"
        /\ call.named \subseteq Kinds /\ <<>> \in Seq(call.named)
    <2>1. call.named = ToSet(<<>>) /\ call.includes = <<>> /\ call.phase = "idle"
      BY <1>2 DEF Start
    <2>2. DOMAIN call = Fields
      BY <1>2 DEF Start, Fields
    <2>3. ToSet(<<>>) \subseteq Kinds /\ <<>> \in Seq(ToSet(<<>>))
      BY <1>2, NamedIs
    <2> QED
      BY <2>1, <2>2, <2>3
  <1>4. IncludesInv
    BY <1>3 DEF IncludesInv, Fields
  <1> QED
    BY <1>1, <1>4 DEF LInv

\* The instances a root query answers with: known ones as they are, new ones with nothing loaded.
LEMMA HoldRootsIs ==
    ASSUME HeldInv, NEW db, NEW roots
    PROVE  /\ \A o \in DOMAIN HoldRoots(db, roots) :
                 /\ DOMAIN HoldRoots(db, roots)[o] = {"fk", "nav"} /\ DOMAIN HoldRoots(db, roots)[o].nav = Kinds
           /\ tracked => \A o \in DOMAIN held : o \in DOMAIN HoldRoots(db, roots) /\ HoldRoots(db, roots)[o] = held[o]
  <1>1. \A o \in DOMAIN HoldRoots(db, roots) :
           HoldRoots(db, roots)[o] = (IF tracked /\ o \in DOMAIN held THEN held[o] ELSE [fk |-> db.owner[o], nav |-> Unloaded])
    BY DEF HoldRoots
  <1>2. \A x : DOMAIN [fk |-> x, nav |-> Unloaded] = {"fk", "nav"} /\ DOMAIN [fk |-> x, nav |-> Unloaded].nav = Kinds
    BY DEF Unloaded
  <1>3. DOMAIN HoldRoots(db, roots) = (IF tracked THEN DOMAIN held ELSE {}) \cup roots
    BY DEF HoldRoots
  <1> QED
    BY <1>1, <1>2, <1>3 DEF HeldInv

\* Folding joined rows writes the named navigations of the roots they show.
LEMMA FoldedIs ==
    ASSUME NEW rows, NEW base, NEW final \in BOOLEAN,
           \A o \in DOMAIN base : DOMAIN base[o] = {"fk", "nav"} /\ DOMAIN base[o].nav = Kinds
    PROVE  /\ DOMAIN Folded(rows, base, final) = DOMAIN base
           /\ \A o \in DOMAIN base :
                 /\ DOMAIN Folded(rows, base, final)[o] = {"fk", "nav"} /\ DOMAIN Folded(rows, base, final)[o].nav = Kinds
                 /\ Folded(rows, base, final)[o].fk = base[o].fk
                 /\ \A kind \in Kinds \ call.named : Folded(rows, base, final)[o].nav[kind] = base[o].nav[kind]
  <1> DEFINE Nav(o) == [kind \in Kinds |->
                    IF kind \notin call.named THEN base[o].nav[kind]
                    ELSE IF kind \in Collections /\ ~final THEN <<>>
                    ELSE JoinAssigned(rows, kind, o, base[o].nav[kind])]
  <1>1. DOMAIN Folded(rows, base, final) = DOMAIN base
    BY DEF Folded
  <1>2. \A o \in DOMAIN base : Folded(rows, base, final)[o] = base[o] \/ Folded(rows, base, final)[o] = [base[o] EXCEPT !.nav = Nav(o)]
    BY DEF Folded
  <1> SUFFICES ASSUME NEW o \in DOMAIN base
               PROVE  /\ DOMAIN Folded(rows, base, final)[o] = {"fk", "nav"} /\ DOMAIN Folded(rows, base, final)[o].nav = Kinds
                      /\ Folded(rows, base, final)[o].fk = base[o].fk
                      /\ \A kind \in Kinds \ call.named : Folded(rows, base, final)[o].nav[kind] = base[o].nav[kind]
    BY <1>1
  <1>3. DOMAIN Nav(o) = Kinds /\ \A kind \in Kinds \ call.named : Nav(o)[kind] = base[o].nav[kind]
    OBVIOUS
  <1> HIDE DEF Nav
  <1>4. CASE Folded(rows, base, final)[o] = base[o]
    BY <1>4
  <1>5. CASE Folded(rows, base, final)[o] = [base[o] EXCEPT !.nav = Nav(o)]
    <2>1. /\ DOMAIN [base[o] EXCEPT !.nav = Nav(o)] = {"fk", "nav"}
          /\ [base[o] EXCEPT !.nav = Nav(o)].nav = Nav(o) /\ [base[o] EXCEPT !.nav = Nav(o)].fk = base[o].fk
      OBVIOUS
    <2> QED
      BY <1>3, <1>5, <2>1
  <1> QED
    BY <1>2, <1>4, <1>5

\* What a step leaves of the instances a tracked session holds.
Kept ==
    tracked => \A o \in DOMAIN held :
        /\ o \in DOMAIN held'
        /\ \A kind \in Kinds \ call.named : held'[o].nav[kind] = held[o].nav[kind]
        /\ call.phase # "idle" => held'[o].fk = held[o].fk

\* A step that leaves the held instances alone.
LEMMA HeldFrame ==
    ASSUME HeldInv, held' = held
    PROVE  HeldInv' /\ Kept
BY DEF HeldInv, Kept

\* List only opens the call.
LEMMA ListKeeps ==
    ASSUME LInv, NEW mode, NEW includes \in IncludeLists, NEW limit, List(mode, includes, limit)
    PROVE  LInv' /\ Kept
  <1>1. includes \in Seq(Kinds) /\ call' = Start(mode, includes, limit, "root", <<>>) /\ held' = held
    BY LoadingAssumption DEF List
  <1>2. /\ DOMAIN call' = Fields /\ call'.includes = includes /\ call'.phase = "root"
        /\ call'.named \subseteq Kinds /\ includes \in Seq(call'.named)
    <2>1. call'.named = ToSet(includes) /\ call'.includes = includes /\ call'.phase = "root"
      BY <1>1 DEF Start
    <2>2. DOMAIN call' = Fields
      BY <1>1 DEF Start, Fields
    <2>3. ToSet(includes) \subseteq Kinds /\ includes \in Seq(ToSet(includes))
      BY <1>1, NamedIs
    <2> QED
      BY <2>1, <2>2, <2>3
  <1>3. IncludesInv'
    BY <1>2 DEF IncludesInv, Fields
  <1> QED
    BY <1>1, <1>3, HeldFrame DEF LInv

\* LoadEach only opens the call, at its first query.
LEMMA LoadEachKeeps ==
    ASSUME LInv, NEW owners, NEW kind \in Kinds, LoadEach(owners, kind)
    PROVE  LInv' /\ Kept
  <1> DEFINE c == Start("MultiQuery", <<kind>>, NoLimit, "explicit", EngineSeq(owners))
  <1>1. <<kind>> \in Seq(Kinds) /\ call' = FirstQuery(c) /\ held' = held
    BY DEF LoadEach
  <1>2. DOMAIN c = Fields /\ c.includes = <<kind>> /\ c.named \subseteq Kinds /\ <<kind>> \in Seq(c.named)
    <2>1. c.named = ToSet(<<kind>>) /\ c.includes = <<kind>>
      BY DEF Start
    <2>2. DOMAIN c = Fields
      BY DEF Start, Fields
    <2>3. ToSet(<<kind>>) \subseteq Kinds /\ <<kind>> \in Seq(ToSet(<<kind>>))
      BY <1>1, NamedIs
    <2> QED
      BY <2>1, <2>2, <2>3
  <1> HIDE DEF c
  <1>3. /\ DOMAIN call' = Fields /\ call'.includes = c.includes /\ call'.named = c.named
        /\ call'.phase \in {"link", "target"} => c.includes # <<>>
    BY <1>1, <1>2, FirstQueryIs
  <1>4. IncludesInv'
    BY <1>2, <1>3 DEF IncludesInv, Fields
  <1> QED
    BY <1>1, <1>4, HeldFrame DEF LInv

\* A root that is already held stays as it is.
LEMMA RootQueryKeeps ==
    ASSUME LInv, RootQuery
    PROVE  LInv' /\ Kept
  <1>1. PICK page : held' = HoldRoots(stored, page) /\ call' = [call EXCEPT !.phase = "include", !.entities = EngineSeq(page)]
    BY DEF RootQuery
  <1>2. IncludesInv'
    BY <1>1 DEF LInv, IncludesInv
  <1>3. HeldInv' /\ Kept
    BY <1>1, HoldRootsIs DEF LInv, HeldInv, Kept
  <1> QED
    BY <1>2, <1>3 DEF LInv

\* The next navigation, or the end of the call.
LEMMA IncludeKeeps ==
    ASSUME LInv, Include
    PROVE  LInv' /\ Kept
  <1>1. call' = FirstQuery(call) /\ held' = held /\ DOMAIN call = Fields
    BY DEF Include, LInv, IncludesInv, Fields
  <1>2. /\ DOMAIN call' = Fields /\ call'.includes = call.includes /\ call'.named = call.named
        /\ call'.phase \in {"link", "target"} => call.includes # <<>>
    BY <1>1, FirstQueryIs
  <1>3. IncludesInv'
    BY <1>2 DEF LInv, IncludesInv, Fields
  <1> QED
    BY <1>1, <1>3, HeldFrame DEF LInv

\* The queries of a navigation write nothing to an instance.
LEMMA QueriesKeep ==
    ASSUME LInv, LinkQuery \/ groupLinkRows \/ TargetQuery
    PROVE  LInv' /\ Kept
  <1>1. held' = held
    BY DEF LinkQuery, groupLinkRows, TargetQuery
  <1>2. CASE LinkQuery
    <2>1. PICK tuples : call' = [call EXCEPT !.chunks = Tail(@), !.links = @ \cup {LivePair(stored, l) : l \in LinkRows(stored, tuples)}]
      BY <1>2 DEF LinkQuery
    <2>2. IncludesInv'
      BY <2>1 DEF LInv, IncludesInv
    <2> QED
      BY <1>1, <2>2, HeldFrame DEF LInv
  <1>3. CASE groupLinkRows
    <2>1. call.phase = "link" /\ \E whole, chunks, sent : call' = [call EXCEPT !.phase = "target", !.links = whole, !.chunks = chunks, !.sent = sent]
      BY <1>3 DEF groupLinkRows
    <2>2. IncludesInv'
      BY <2>1 DEF LInv, IncludesInv
    <2> QED
      BY <1>1, <2>2, HeldFrame DEF LInv
  <1>4. CASE TargetQuery
    <2>1. \E rows : call' = [call EXCEPT !.chunks = Tail(@), !.rows = rows]
      BY <1>4 DEF TargetQuery
    <2>2. IncludesInv'
      BY <2>1 DEF LInv, IncludesInv
    <2> QED
      BY <1>1, <2>2, HeldFrame DEF LInv
  <1> QED
    BY <1>2, <1>3, <1>4

\* The navigation that is written is the head of what the call still includes, so one it names.
LEMMA AssignKeeps ==
    ASSUME LInv, Assign
    PROVE  LInv' /\ Kept
  <1> DEFINE kind == Head(call.includes)
             rows == queryMembership(call.rows, call.sent)
             new == [o \in DOMAIN held |-> IF o \in ToSet(call.entities)
                                           THEN [held[o] EXCEPT !.nav[kind] = Assigned(kind, rows, call.links, o)]
                                           ELSE held[o]]
  <1>1. call.phase = "target" /\ call.includes # <<>> /\ call.includes \in Seq(call.named)
    BY DEF Assign, LInv, IncludesInv
  <1>2. kind \in call.named /\ Tail(call.includes) \in Seq(call.named)
    <2>1. \A N, s : s # <<>> /\ s \in Seq(N) => Head(s) \in N /\ Tail(s) \in Seq(N)
      OBVIOUS
    <2> QED
      BY <1>1, <2>1
  <1>3. \/ /\ call' = [call EXCEPT !.phase = "idle", !.result = "REL-002"]
           /\ held' = IF tracked \/ call.explicit THEN held ELSE [o \in {} |-> Null]
        \/ /\ call' = [call EXCEPT !.phase = "include", !.includes = Tail(@)]
           /\ held' = new
    BY DEF Assign
  <1> HIDE DEF kind, rows
  <1>4. CASE call' = [call EXCEPT !.phase = "idle", !.result = "REL-002"] /\ held' = IF tracked \/ call.explicit THEN held ELSE [o \in {} |-> Null]
    <2>1. IncludesInv'
      BY <1>4 DEF LInv, IncludesInv
    <2>2. HeldInv'
      BY <1>4 DEF LInv, HeldInv
    <2>3. Kept
      BY <1>4 DEF LInv, Kept
    <2> QED
      BY <2>1, <2>2, <2>3 DEF LInv
  <1>5. CASE call' = [call EXCEPT !.phase = "include", !.includes = Tail(@)] /\ held' = new
    <2>1. IncludesInv'
      BY <1>2, <1>5 DEF LInv, IncludesInv
    <2>2. ASSUME NEW o \in DOMAIN held
          PROVE  /\ DOMAIN held'[o] = {"fk", "nav"} /\ DOMAIN held'[o].nav = Kinds /\ held'[o].fk = held[o].fk
                 /\ \A other \in Kinds \ call.named : held'[o].nav[other] = held[o].nav[other]
      <3>1. DOMAIN held[o] = {"fk", "nav"} /\ DOMAIN held[o].nav = Kinds
        BY DEF LInv, HeldInv
      <3>2. CASE o \in ToSet(call.entities)
        <4>1. PICK x : held'[o] = [held[o] EXCEPT !.nav[kind] = x]
          BY <1>5, <3>2
        <4>2. /\ DOMAIN held'[o] = {"fk", "nav"} /\ held'[o].nav = [held[o].nav EXCEPT ![kind] = x] /\ held'[o].fk = held[o].fk
          BY <3>1, <4>1
        <4>3. /\ DOMAIN [held[o].nav EXCEPT ![kind] = x] = Kinds
              /\ \A other \in Kinds \ call.named : [held[o].nav EXCEPT ![kind] = x][other] = held[o].nav[other]
          BY <1>2, <3>1
        <4> QED
          BY <4>2, <4>3
      <3>3. CASE o \notin ToSet(call.entities)
        BY <1>5, <3>1, <3>3
      <3> QED
        BY <3>2, <3>3
    <2>3. DOMAIN held' = DOMAIN held
      BY <1>5
    <2>4. HeldInv' /\ Kept
      BY <2>2, <2>3 DEF HeldInv, Kept
    <2> QED
      BY <2>1, <2>4 DEF LInv
  <1> QED
    BY <1>3, <1>4, <1>5

\* A joined row writes the navigations its call names.
LEMMA JoinKeeps ==
    ASSUME LInv, readJoinedRows \/ JoinConflict
    PROVE  LInv' /\ Kept
  <1>1. /\ \E result, entities : call' = [call EXCEPT !.phase = "idle", !.result = result, !.entities = entities]
        /\ \/ held' = held
           \/ \E rows, roots : \E final \in BOOLEAN : held' = Folded(rows, HoldRoots(stored, roots), final)
    <2>1. PICK rows, result, resolved : EndJoin(rows, result, resolved)
      BY DEF readJoinedRows, JoinConflict
    <2>2. (result = "ok") \in BOOLEAN
      OBVIOUS
    <2> QED
      BY <2>1, <2>2 DEF EndJoin
  <1>2. IncludesInv'
    BY <1>1 DEF LInv, IncludesInv
  <1>3. \/ held' = held
        \/ \E rows, roots : \E final \in BOOLEAN : held' = Folded(rows, HoldRoots(stored, roots), final)
    BY <1>1
  <1>4. CASE held' = held
    BY <1>2, <1>4, HeldFrame DEF LInv
  <1>5. ASSUME NEW rows, NEW roots, NEW final \in BOOLEAN, held' = Folded(rows, HoldRoots(stored, roots), final)
        PROVE  LInv' /\ Kept
    <2>1. PICK base : base = HoldRoots(stored, roots)
      OBVIOUS
    <2>2. /\ \A o \in DOMAIN base : DOMAIN base[o] = {"fk", "nav"} /\ DOMAIN base[o].nav = Kinds
          /\ tracked => \A o \in DOMAIN held : o \in DOMAIN base /\ base[o] = held[o]
      BY <2>1, HoldRootsIs DEF LInv
    <2>3. /\ DOMAIN held' = DOMAIN base
          /\ \A o \in DOMAIN base :
                 /\ DOMAIN held'[o] = {"fk", "nav"} /\ DOMAIN held'[o].nav = Kinds
                 /\ held'[o].fk = base[o].fk
                 /\ \A kind \in Kinds \ call.named : held'[o].nav[kind] = base[o].nav[kind]
      BY <1>5, <2>1, <2>2, FoldedIs
    <2>4. HeldInv' /\ Kept
      BY <2>2, <2>3 DEF HeldInv, Kept
    <2> QED
      BY <1>2, <2>4 DEF LInv
  <1> QED
    BY <1>3, <1>4, <1>5

\* Assigning a foreign key in memory, between calls.
LEMMA EditKeeps ==
    ASSUME LInv, Edit
    PROVE  LInv' /\ Kept
  <1>1. call.phase = "idle" /\ call' = [call EXCEPT !.result = "none"]
    BY DEF Edit
  <1>2. IncludesInv'
    BY <1>1 DEF LInv, IncludesInv
  <1>3. held' = held \/ \E o \in DOMAIN held, fk \in TargetKeys \cup {Null} : held' = [held EXCEPT ![o].fk = fk]
    BY DEF Edit
  <1>4. CASE held' = held
    BY <1>2, <1>4, HeldFrame DEF LInv
  <1>5. ASSUME NEW o \in DOMAIN held, NEW fk, held' = [held EXCEPT ![o].fk = fk]
        PROVE  LInv' /\ Kept
    <2>1. DOMAIN held' = DOMAIN held /\ \A q \in DOMAIN held : held'[q] = held[q] \/ held'[q] = [held[q] EXCEPT !.fk = fk]
      BY <1>5
    <2>2. \A q \in DOMAIN held : DOMAIN held'[q] = {"fk", "nav"} /\ held'[q].nav = held[q].nav
      BY <2>1 DEF LInv, HeldInv
    <2>3. HeldInv' /\ Kept
      BY <1>1, <2>1, <2>2 DEF LInv, HeldInv, Kept
    <2> QED
      BY <1>2, <2>3 DEF LInv
  <1> QED
    BY <1>3, <1>4, <1>5

\* Every step keeps the invariant and what it does not name.
LEMMA NextKeeps ==
    ASSUME LInv, [Next]_vars
    PROVE  LInv' /\ Kept
  <1>1. ASSUME NEW mode \in Modes, NEW includes \in IncludeLists, NEW limit \in Limits, List(mode, includes, limit)
        PROVE  LInv' /\ Kept
    BY <1>1, ListKeeps
  <1>2. ASSUME NEW owners \in SUBSET OwnerKeys, NEW kind \in Kinds, LoadEach(owners, kind)
        PROVE  LInv' /\ Kept
    BY <1>2, LoadEachKeeps
  <1>3. CASE RootQuery
    BY <1>3, RootQueryKeeps
  <1>4. CASE Include
    BY <1>4, IncludeKeeps
  <1>5. CASE LinkQuery \/ groupLinkRows \/ TargetQuery
    BY <1>5, QueriesKeep
  <1>6. CASE Assign
    BY <1>6, AssignKeeps
  <1>7. CASE readJoinedRows \/ JoinConflict
    BY <1>7, JoinKeeps
  <1>8. CASE OtherWrites \/ UNCHANGED vars
    <2>1. held' = held /\ call' = call
      BY <1>8 DEF OtherWrites, vars
    <2>2. IncludesInv'
      BY <2>1 DEF LInv, IncludesInv
    <2> QED
      BY <2>1, <2>2, HeldFrame DEF LInv
  <1>9. CASE Edit
    BY <1>9, EditKeeps
  <1> QED
    BY <1>1, <1>2, <1>3, <1>4, <1>5, <1>6, <1>7, <1>8, <1>9 DEF Next

-----------------------------------------------------------------------------
\* A call changes no navigation it does not name, and no foreign key, of an instance a tracked session
\* already holds (readJoinedRows, eagerLoad), for every data set, include list and fetch mode, whatever
\* others write between two queries.
THEOREM NavigationsKept == Spec => OtherNavigationsKept
  <1>1. Init => LInv
    BY InitInv
  <1>2. LInv /\ [Next]_vars => LInv'
    BY NextKeeps
  <1>3. LInv /\ [Next]_vars => [tracked => \A o \in DOMAIN held :
                                    /\ o \in DOMAIN held'
                                    /\ \A kind \in Kinds \ call.named : held'[o].nav[kind] = held[o].nav[kind]
                                    /\ call.phase # "idle" => held'[o].fk = held[o].fk]_vars
    BY NextKeeps DEF Kept
  <1> QED
    BY <1>1, <1>2, <1>3, PTL DEF Spec, OtherNavigationsKept

=============================================================================
