------------------------------ MODULE Loading -------------------------------
(***************************************************************************)
(* Eager and explicit loading: db_eager.go, db_eager_join.go,              *)
(* loading_keys.go, and the List of criteria_query.go that drives them.    *)
(*                                                                         *)
(* One owner type and one target type, related in the four kinds of        *)
(* navigation.  An owner row is its foreign key to a target, a target row  *)
(* its foreign key to an owner, a link row (with a key of its own) its     *)
(* foreign keys to both.  A key is one integer: tuples are compared part   *)
(* by part, so one part carries the behaviour.                             *)
(*                                                                         *)
(* The rows can change between two queries of one call: the session reads  *)
(* outside a transaction, or in one that does not freeze what it reads.    *)
(***************************************************************************)
EXTENDS Integers, FiniteSets, Sequences, SequencesExt

CONSTANTS
    OwnerKeys, TargetKeys, LinkKeys,    \* sets of integers
    Null,                       \* a null column, a nil pointer, a nil slice
    NoLimit,
    Stores,                     \* the databases a behaviour may start from
    Modes,                      \* the fetch modes the application uses
    IncludeLists,               \* the include lists the application uses
    Limits,                     \* the limits it uses, NoLimit among them
    LoadChunkSize,              \* owners per key-list query
    MaxLoads, MaxChanges         \* calls; changes by others or in memory

ToOne == {"ManyToOne", "OneToOne"}
Collections == {"OneToMany", "ManyToMany"}
Kinds == ToOne \cup Collections

ASSUME LoadingAssumption ==
    /\ OwnerKeys \subseteq Int /\ TargetKeys \subseteq Int
    /\ \A includes \in IncludeLists : includes \in Seq(Kinds)
    /\ LoadChunkSize \in Nat \ {0}
    /\ MaxLoads \in Nat /\ MaxChanges \in Nat

VARIABLES
    stored,     \* the database: owner, target and link rows by their keys
    tracked,    \* the session is tracked
    exact,      \* the engine's key order is the value order
    held,       \* the owner instances the application holds: foreign key and navigations
    kept,       \* the tracked target and link instances: their live foreign keys
    call,       \* the List or LoadEach in progress, or the last one
    moments,    \* the databases the call in progress has seen
    loads, changes

vars == <<stored, tracked, exact, held, kept, call, moments, loads, changes>>

Unloaded == [kind \in Kinds |-> Null]

(***************************************************************************)
(* Key order.  Rows arrive in the engine's order of the key.  It is the    *)
(* value order for exact numbers; for other storage it is some other order *)
(* (text: '10' before '2'), here the opposite one.                         *)
(***************************************************************************)
Ascending(a, b) == a < b
EngineSeq(keys) == SetToSortSeq(keys, LAMBDA a, b : IF exact THEN a < b ELSE a > b)

sortByProperties(rows) == SortSeq(rows, LAMBDA r, s : r.key < s.key)

Smallest(keys, n) == {k \in keys : Cardinality({l \in keys : l < k}) < n}

(***************************************************************************)
(* The rows of the root query.  Without an ordering an engine may answer   *)
(* any page; a paged SubSelect root is ordered by its key.                 *)
(***************************************************************************)
keyTiebrokenOrderings(owners, limit) == {Smallest(owners, limit)}

AnyPage(owners, limit) ==
    {page \in SUBSET owners :
        Cardinality(page) = IF Cardinality(owners) < limit THEN Cardinality(owners) ELSE limit}

\* Mutant of Pages: the root of a SubSelect keeps the ordering it was given.
PagesUnbroken(db, mode, limit) ==
    IF limit = NoLimit THEN {DOMAIN db.owner} ELSE AnyPage(DOMAIN db.owner, limit)

Pages(db, mode, limit) ==
    LET owners == DOMAIN db.owner
    IN  IF limit = NoLimit THEN {owners}
        ELSE IF mode = "SubSelect" THEN keyTiebrokenOrderings(owners, limit)
        ELSE AnyPage(owners, limit)

(***************************************************************************)
(* Correlation of owners with rows                                         *)
(***************************************************************************)
\* The tuple an owner correlates by: its foreign key, or its own key.
OwnerTuple(kind, o) == IF kind = "ManyToOne" THEN held[o].fk ELSE o

distinctTuples(tuples) ==
    FoldLeft(LAMBDA seen, t : IF t \in ToSet(seen) THEN seen ELSE Append(seen, t), <<>>, tuples)

\* The tuples to query for; an owner whose tuple has a null part binds nothing.
correlate(kind, entities) ==
    distinctTuples(SelectSeq([i \in DOMAIN entities |-> OwnerTuple(kind, entities[i])],
                             LAMBDA t : t # Null))

\* Mutant of chunkTuples: the first chunk is one short and the last tuple is lost.
chunkTuplesShifted(tuples) ==
    [n \in 1 .. (Len(tuples) + LoadChunkSize - 1) \div LoadChunkSize |->
        {tuples[i] : i \in {j \in DOMAIN tuples : j \div LoadChunkSize = n - 1}}]

\* The key lists of the queries to run.  The tuples are distinct, so a chunk is a set.
chunkTuples(tuples) ==
    [n \in 1 .. (Len(tuples) + LoadChunkSize - 1) \div LoadChunkSize |->
        {tuples[i] : i \in {j \in DOMAIN tuples : (j - 1) \div LoadChunkSize = n - 1}}]

(***************************************************************************)
(* A row becomes an instance.  In a tracked session a known key answers    *)
(* with the tracked instance and the row's columns are not applied, so     *)
(* correlation reads live values.                                          *)
(***************************************************************************)
LiveFk(db, t) == IF tracked /\ t \in DOMAIN kept.target THEN kept.target[t] ELSE db.target[t]

LivePair(db, l) == IF tracked /\ l \in DOMAIN kept.link THEN kept.link[l] ELSE db.link[l]

Resolved(db, t) == [key |-> t, fk |-> LiveFk(db, t)]

Register(db, targets, links) ==
    kept' = IF ~tracked THEN kept
            ELSE [target |-> [t \in DOMAIN kept.target \cup targets |-> LiveFk(db, t)],
                  link |-> [l \in DOMAIN kept.link \cup links |-> LivePair(db, l)]]

\* Mutant of HoldRoots: a known root is replaced by what was read.
HoldRootsAnew(db, roots) ==
    [o \in (IF tracked THEN DOMAIN held ELSE {}) \cup roots |->
        IF o \in roots THEN [fk |-> db.owner[o], nav |-> Unloaded] ELSE held[o]]

HoldRoots(db, roots) ==
    [o \in (IF tracked THEN DOMAIN held ELSE {}) \cup roots |->
        IF tracked /\ o \in DOMAIN held THEN held[o] ELSE [fk |-> db.owner[o], nav |-> Unloaded]]

(***************************************************************************)
(* The queries of one navigation.  A key-list query matches the chunk; the *)
(* query of a SubSelect matches what the root query selects when it runs   *)
(* inside it.  "link" is the first hop of a many-to-many.                  *)
(***************************************************************************)
Subquery == call.mode = "SubSelect" /\ ~(call.phase = "target" /\ Head(call.includes) = "ManyToMany")

MatchTuples(db, chunk) ==
    IF ~Subquery THEN {chunk}
    ELSE {IF Head(call.includes) = "ManyToOne" THEN {db.owner[o] : o \in page} ELSE page :
            page \in Pages(db, "SubSelect", call.limit)}

LinkRows(db, tuples) == {l \in DOMAIN db.link : db.link[l][1] \in tuples}

TargetRows(db, kind, tuples) ==
    {t \in DOMAIN db.target : (IF kind \in {"ManyToOne", "ManyToMany"} THEN t ELSE db.target[t]) \in tuples}

\* Mutant of queryMembership: merged chunks are taken as they came.
queryMembershipUnmerged(rows, chunks) == IF exact THEN rows ELSE sortByProperties(rows)

\* Merged chunks are sorted again; one query's rows only where its order is not the value order.
queryMembership(rows, chunks) == IF chunks > 1 \/ ~exact THEN sortByProperties(rows) ELSE rows

\* The chunks of the next navigation's first query.
FirstQuery(c) ==
    IF c.includes = <<>> THEN [c EXCEPT !.phase = "idle", !.result = "ok"]
    ELSE LET kind == Head(c.includes)
             chunks == IF c.mode = "SubSelect" THEN <<{}>> ELSE chunkTuples(correlate(kind, c.entities))
         IN  [c EXCEPT !.phase = IF kind = "ManyToMany" THEN "link" ELSE "target",
                       !.chunks = chunks, !.sent = Len(chunks), !.rows = <<>>, !.links = {}]

Start(mode, includes, limit, phase, entities) ==
    [mode |-> mode, explicit |-> phase = "explicit", includes |-> includes, named |-> ToSet(includes), limit |-> limit, phase |-> phase,
     entities |-> entities, chunks |-> <<>>, sent |-> 0, rows |-> <<>>, links |-> {}, result |-> "none"]

(***************************************************************************)
(* What a navigation is set to                                             *)
(***************************************************************************)
\* Mutant of refuseDuplicateOneToOne: only neighbours in key order are compared.
refuseNeighbours(rows) ==
    \E i \in DOMAIN rows : i > 1 /\ rows[i].fk = rows[i - 1].fk

refuseDuplicateOneToOne(rows) ==
    \E i, j \in DOMAIN rows : i # j /\ rows[i].fk = rows[j].fk

Keys(rows) == [i \in DOMAIN rows |-> rows[i].key]

\* The first row whose tuple is the owner's, or nil: a dead link is no error.
findByTuple(kind, rows, o) ==
    LET found == {i \in DOMAIN rows : OwnerTuple(kind, o) =
                    IF kind = "ManyToOne" THEN rows[i].key ELSE rows[i].fk}
    IN  IF OwnerTuple(kind, o) = Null \/ found = {} THEN Null
        ELSE rows[CHOOSE i \in found : \A j \in found : i <= j].key

Assigned(kind, rows, links, o) ==
    CASE kind \in ToOne -> findByTuple(kind, rows, o)
      [] kind = "OneToMany" -> Keys(SelectSeq(rows, LAMBDA r : r.fk = o))
      [] kind = "ManyToMany" -> Keys(SelectSeq(rows, LAMBDA r : <<o, r.key>> \in links))

-----------------------------------------------------------------------------
(***************************************************************************)
(* Calls.  List checks what join mode refuses before any SQL.              *)
(***************************************************************************)
JoinRefused(includes, limit) ==
    LET collections == {i \in DOMAIN includes : includes[i] \in Collections}
    IN  \/ collections # {} /\ limit # NoLimit
        \/ Cardinality(collections) > 1

List(mode, includes, limit) ==
    /\ call.phase = "idle" /\ loads < MaxLoads
    /\ ~(mode = "Join" /\ JoinRefused(includes, limit))
    /\ loads' = loads + 1
    /\ moments' = {stored}
    /\ call' = Start(mode, includes, limit, "root", <<>>)
    /\ UNCHANGED <<stored, tracked, exact, held, kept, changes>>

\* Load and LoadEach: the owners are instances the application holds.
LoadEach(owners, kind) ==
    /\ call.phase = "idle" /\ loads < MaxLoads
    /\ owners # {} /\ owners \subseteq DOMAIN held
    /\ loads' = loads + 1
    /\ moments' = {stored}
    /\ call' = FirstQuery(Start("MultiQuery", <<kind>>, NoLimit, "explicit", EngineSeq(owners)))
    /\ UNCHANGED <<stored, tracked, exact, held, kept, changes>>

RootQuery ==
    /\ call.phase = "root" /\ call.mode # "Join"
    /\ \E page \in Pages(stored, call.mode, call.limit) :
        /\ held' = HoldRoots(stored, page)
        /\ call' = [call EXCEPT !.phase = "include", !.entities = EngineSeq(page)]
    /\ UNCHANGED <<stored, tracked, exact, kept, moments, loads, changes>>

Include ==
    /\ call.phase = "include"
    /\ call' = FirstQuery(call)
    /\ UNCHANGED <<stored, tracked, exact, held, kept, moments, loads, changes>>

LinkQuery ==
    /\ call.phase = "link" /\ call.chunks # <<>>
    /\ \E tuples \in MatchTuples(stored, Head(call.chunks)) :
        LET found == LinkRows(stored, tuples) IN
        /\ call' = [call EXCEPT !.chunks = Tail(@), !.links = @ \cup {LivePair(stored, l) : l \in found}]
        /\ Register(stored, {}, found)
    /\ UNCHANGED <<stored, tracked, exact, held, moments, loads, changes>>

\* The second hop is a key list in every mode.  A dead half of a link correlates nothing.
groupLinkRows ==
    /\ call.phase = "link" /\ call.chunks = <<>>
    /\ LET whole == {l \in call.links : l[1] # Null /\ l[2] # Null}
           chunks == chunkTuples(SetToSeq({l[2] : l \in whole}))
       IN  call' = [call EXCEPT !.phase = "target", !.links = whole, !.chunks = chunks, !.sent = Len(chunks)]
    /\ UNCHANGED <<stored, tracked, exact, held, kept, moments, loads, changes>>

TargetQuery ==
    /\ call.phase = "target" /\ call.chunks # <<>>
    /\ \E tuples \in MatchTuples(stored, Head(call.chunks)) :
        LET found == TargetRows(stored, Head(call.includes), tuples)
            rows == EngineSeq(found)
        IN  /\ call' = [call EXCEPT !.chunks = Tail(@),
                                    !.rows = @ \o [i \in DOMAIN rows |-> Resolved(stored, rows[i])]]
            /\ Register(stored, found, {})
    /\ UNCHANGED <<stored, tracked, exact, held, moments, loads, changes>>

Assign ==
    /\ call.phase = "target" /\ call.chunks = <<>>
    /\ LET kind == Head(call.includes)
           rows == queryMembership(call.rows, call.sent)
       IN  IF kind = "OneToOne" /\ refuseDuplicateOneToOne(rows)
           THEN /\ call' = [call EXCEPT !.phase = "idle", !.result = "REL-002"]
                /\ held' = IF tracked \/ call.explicit THEN held ELSE [o \in {} |-> Null]
           ELSE /\ call' = [call EXCEPT !.phase = "include", !.includes = Tail(@)]
                /\ held' = [o \in DOMAIN held |->
                     IF o \in ToSet(call.entities)
                     THEN [held[o] EXCEPT !.nav[kind] = Assigned(kind, rows, call.links, o)]
                     ELSE held[o]]
    /\ UNCHANGED <<stored, tracked, exact, kept, moments, loads, changes>>

(***************************************************************************)
(* Join mode: one query.  A joined row is an owner and, per navigation,    *)
(* the matching target or nothing; the limit counts joined rows.           *)
(***************************************************************************)
Linked(db) == {db.link[l] : l \in DOMAIN db.link}

JoinMatches(db, kind, o) ==
    CASE kind = "ManyToOne" -> {t \in DOMAIN db.target : t = db.owner[o]}
      [] kind \in {"OneToOne", "OneToMany"} -> {t \in DOMAIN db.target : db.target[t] = o}
      [] kind = "ManyToMany" -> {t \in DOMAIN db.target : <<o, t>> \in Linked(db)}

JoinedRows(db, kinds) ==
    UNION {{[owner |-> o, to |-> to] : to \in
              {f \in [kinds -> DOMAIN db.target \cup {Null}] : \A kind \in kinds :
                 IF JoinMatches(db, kind, o) = {} THEN f[kind] = Null
                 ELSE f[kind] \in JoinMatches(db, kind, o)}} : o \in DOMAIN db.owner}

\* The targets one owner's rows show under a navigation.
Shown(rows, kind, o) == {r.to[kind] : r \in {q \in rows : q.owner = o}} \ {Null}

\* Mutant of JoinAssigned: an all-NULL segment is taken for a target.
JoinAssignedNulls(rows, kind, o, before) ==
    LET shown == {r.to[kind] : r \in {q \in rows : q.owner = o}}
    IN  IF kind \in Collections THEN SetToSortSeq(shown, Ascending) ELSE CHOOSE t \in shown : TRUE

\* An all-NULL segment is skipped: a to-one navigation without a match is not written.
JoinAssigned(rows, kind, o, before) ==
    IF kind \in Collections THEN SetToSortSeq(Shown(rows, kind, o), Ascending)
    ELSE IF Shown(rows, kind, o) = {} THEN before
    ELSE CHOOSE t \in Shown(rows, kind, o) : TRUE

\* REL-002: one root shows two targets under a one-to-one.
Conflict(rows) ==
    \E r, q \in rows : r.owner = q.owner /\ "OneToOne" \in call.named
                       /\ Null # r.to["OneToOne"] /\ r.to["OneToOne"] # q.to["OneToOne"]

\* The owners after the rows were folded, their included collections ready (empty until the end).
Folded(rows, base, final) ==
    LET roots == {r.owner : r \in rows}
    IN  [o \in DOMAIN base |->
            IF o \notin roots THEN base[o]
            ELSE [base[o] EXCEPT !.nav = [kind \in Kinds |->
                    IF kind \notin call.named THEN base[o].nav[kind]
                    ELSE IF kind \in Collections /\ ~final THEN <<>>
                    ELSE JoinAssigned(rows, kind, o, base[o].nav[kind])]]]

\* The rows the query may answer with.
JoinAnswers ==
    IF call.limit = NoLimit THEN {JoinedRows(stored, call.named)}
    ELSE AnyPage(JoinedRows(stored, call.named), call.limit)

\* The call ends with these rows folded; the map also keeps what else was resolved.  An untracked
\* session that fails returns nothing.
EndJoin(rows, result, resolved) ==
    LET roots == {r.owner : r \in rows} IN
    /\ call' = [call EXCEPT !.phase = "idle", !.result = result, !.entities = EngineSeq(roots)]
    /\ held' = IF tracked \/ result = "ok" THEN Folded(rows, HoldRoots(stored, roots), result = "ok") ELSE held
    /\ Register(stored, (UNION {Shown(rows, kind, o) : kind \in call.named, o \in roots}) \cup resolved, {})

readJoinedRows ==
    /\ call.phase = "root" /\ call.mode = "Join"
    /\ \E rows \in JoinAnswers : ~Conflict(rows) /\ EndJoin(rows, "ok", {})
    /\ UNCHANGED <<stored, tracked, exact, moments, loads, changes>>

\* The targets of a row up to its one-to-one, which are resolved before the conflict shows.
ResolvedFirst(row) ==
    LET reached == CHOOSE i \in DOMAIN call.includes : call.includes[i] = "OneToOne"
    IN  {row.to[call.includes[i]] : i \in 1 .. reached} \ {Null}

\* The fold stops at a row that conflicts with one already folded; the map keeps what it resolved.
JoinConflict ==
    /\ call.phase = "root" /\ call.mode = "Join"
    /\ \E rows \in JoinAnswers : \E done \in SUBSET rows : \E bad \in rows \ done :
        /\ ~Conflict(done) /\ Conflict(done \cup {bad})
        /\ EndJoin(done, "REL-002", ResolvedFirst(bad))
    /\ UNCHANGED <<stored, tracked, exact, moments, loads, changes>>

-----------------------------------------------------------------------------
(***************************************************************************)
(* The rest of the world                                                   *)
(***************************************************************************)
Overwrite(f, k, v) == [x \in DOMAIN f \cup {k} |-> IF x = k THEN v ELSE f[x]]
Without(f, k) == [x \in DOMAIN f \ {k} |-> f[x]]

\* Another session inserts, changes or deletes a row, between any two queries of a call.
OtherWrites ==
    /\ changes < MaxChanges /\ changes' = changes + 1
    /\ \/ \E o \in OwnerKeys : \/ \E fk \in TargetKeys \cup {Null} :
                                      stored' = [stored EXCEPT !.owner = Overwrite(@, o, fk)]
                               \/ stored' = [stored EXCEPT !.owner = Without(@, o)]
       \/ \E t \in TargetKeys : \/ \E fk \in OwnerKeys \cup {Null} :
                                      stored' = [stored EXCEPT !.target = Overwrite(@, t, fk)]
                                \/ stored' = [stored EXCEPT !.target = Without(@, t)]
       \/ \E l \in LinkKeys : \/ \E o \in OwnerKeys \cup {Null}, t \in TargetKeys \cup {Null} :
                                    stored' = [stored EXCEPT !.link = Overwrite(@, l, <<o, t>>)]
                              \/ stored' = [stored EXCEPT !.link = Without(@, l)]
    /\ stored' # stored
    /\ moments' = IF call.phase = "idle" THEN moments ELSE moments \cup {stored'}
    /\ UNCHANGED <<tracked, exact, held, kept, call, loads>>

\* The application changes a foreign key in memory.
Edit ==
    /\ call.phase = "idle" /\ changes < MaxChanges /\ changes' = changes + 1
    /\ call' = [call EXCEPT !.result = "none"]
    /\ \/ \E o \in DOMAIN held, fk \in TargetKeys \cup {Null} :
            held' = [held EXCEPT ![o].fk = fk] /\ kept' = kept
       \/ \E t \in DOMAIN kept.target, fk \in OwnerKeys \cup {Null} :
            kept' = [kept EXCEPT !.target[t] = fk] /\ held' = held
       \/ \E l \in DOMAIN kept.link, fk \in TargetKeys \cup {Null} :
            kept' = [kept EXCEPT !.link[l][2] = fk] /\ held' = held
    /\ UNCHANGED <<stored, tracked, exact, moments, loads>>

Init ==
    /\ stored \in Stores
    /\ tracked \in BOOLEAN /\ exact \in BOOLEAN
    /\ held = [o \in {} |-> Null] /\ kept = [target |-> [t \in {} |-> Null], link |-> [l \in {} |-> Null]]
    /\ call = Start("MultiQuery", <<>>, NoLimit, "idle", <<>>)
    /\ moments = {} /\ loads = 0 /\ changes = 0

Next ==
    \/ \E mode \in Modes, includes \in IncludeLists, limit \in Limits : List(mode, includes, limit)
    \/ \E owners \in SUBSET OwnerKeys, kind \in Kinds : LoadEach(owners, kind)
    \/ RootQuery \/ Include \/ LinkQuery \/ groupLinkRows \/ TargetQuery \/ Assign
    \/ readJoinedRows \/ JoinConflict
    \/ OtherWrites \/ Edit

Spec == Init /\ [][Next]_vars

-----------------------------------------------------------------------------
(***************************************************************************)
(* Properties                                                              *)
(***************************************************************************)
TargetSeq == {<<>>} \cup UNION {[1 .. n -> TargetKeys] : n \in 1 .. 2 * Cardinality(TargetKeys)}

TypeOK ==
    /\ \A o \in DOMAIN held : /\ o \in OwnerKeys /\ held[o].fk \in TargetKeys \cup {Null}
                              /\ \A kind \in ToOne : held[o].nav[kind] \in TargetKeys \cup {Null}
                              /\ \A kind \in Collections : held[o].nav[kind] \in TargetSeq \cup {Null}
    /\ \A t \in DOMAIN kept.target : t \in TargetKeys /\ kept.target[t] \in OwnerKeys \cup {Null}
    /\ \A l \in DOMAIN kept.link : l \in LinkKeys /\ kept.link[l][2] \in TargetKeys \cup {Null}
    /\ call.phase \in {"idle", "root", "include", "link", "target"}
    /\ ToSet(call.entities) \subseteq OwnerKeys

\* Every instance the application holds has its foreign key and the four navigations.
HeldInv ==
    \A o \in DOMAIN held : DOMAIN held[o] = {"fk", "nav"} /\ DOMAIN held[o].nav = Kinds

\* A call loads only what it names, and a query is always about one of its navigations.
IncludesInv ==
    /\ DOMAIN call = {"mode", "explicit", "includes", "named", "limit", "phase", "entities", "chunks", "sent", "rows",
                      "links", "result"}
    /\ call.includes \in Seq(call.named) /\ call.named \subseteq Kinds
    /\ call.phase \in {"link", "target"} => call.includes # <<>>

\* What the rows say an owner is related to.
Related(db, kind, o, fk) ==
    CASE kind = "ManyToOne" -> {t \in DOMAIN db.target : t = fk}
      [] kind \in {"OneToOne", "OneToMany"} -> {t \in DOMAIN db.target : db.target[t] = o}
      [] kind = "ManyToMany" -> {t \in DOMAIN db.target : <<o, t>> \in Linked(db)}

Succeeded == call.phase = "idle" /\ call.result = "ok"

\* One database during the whole call, and what the session holds in memory is what it stores.
Undisturbed(db) ==
    /\ moments = {db}
    /\ \A o \in DOMAIN held \cap DOMAIN db.owner : held[o].fk = db.owner[o]
    /\ \A t \in DOMAIN kept.target \cap DOMAIN db.target : kept.target[t] = db.target[t]
    /\ \A l \in DOMAIN kept.link \cap DOMAIN db.link : kept.link[l] = db.link[l]

\* When a call succeeded and nothing disturbed it, every navigation it named holds exactly the
\* targets the rows relate to the owner, collections in value order of the keys: chunked key lists,
\* subqueries of a paged root and joined rows answer the same (queryMembership, correlate,
\* groupLinkRows, readJoinedRows).  A to-one a join has no row for keeps what a tracked root held.
LoadedIsRelational ==
    \A db \in moments : Succeeded /\ Undisturbed(db) =>
        \A o \in ToSet(call.entities) : \A kind \in call.named :
            LET related == Related(db, kind, o, held[o].fk) IN
            IF kind \in Collections
            THEN held[o].nav[kind] = SetToSortSeq(related, Ascending)
            ELSE \/ related = {} /\ (held[o].nav[kind] = Null \/ (call.mode = "Join" /\ tracked))
                 \/ held[o].nav[kind] \in related

\* Rows that change during a call of an untracked session: the call shows what held throughout, and
\* nothing that held at none of its moments (the queries of one call run one after another, a
\* subquery evaluates the root again; the key lists, the chunks and the two hops of a many-to-many).
LoadedDuringWrites ==
    Succeeded /\ ~tracked =>
        \A o \in ToSet(call.entities) : \A kind \in call.named :
            LET shown == IF kind \in Collections THEN ToSet(held[o].nav[kind])
                         ELSE {held[o].nav[kind]} \ {Null}
                Ever(t) == /\ \E db \in moments : t \in DOMAIN db.target
                           /\ \E db \in moments : \/ kind = "ManyToOne" /\ t = held[o].fk
                                                  \/ kind = "ManyToMany" /\ <<o, t>> \in Linked(db)
                                                  \/ t \in Related(db, kind, o, held[o].fk)
                Rooted == \A db \in moments : /\ o \in DOMAIN db.owner /\ held[o].fk = db.owner[o]
                                              /\ {o} = DOMAIN db.owner \/ call.limit = NoLimit
            IN  /\ \A t \in shown : Ever(t)
                /\ Rooted /\ kind \in Collections \cup {"ManyToOne"} =>
                     \A t \in TargetKeys :
                        (\A db \in moments : t \in Related(db, kind, o, held[o].fk)) => t \in shown

\* A one-to-one with two rows for one owner is refused, and nothing else is (refuseDuplicateOneToOne,
\* the singular state of readJoinedRows); a join whose limit cuts the second row off cannot see it.
DuplicatesRefused ==
    \A db \in moments : call.phase = "idle" /\ "OneToOne" \in call.named /\ Undisturbed(db) =>
        LET drifted == \E o \in ToSet(call.entities) : Cardinality(Related(db, "OneToOne", o, Null)) > 1
        IN  /\ call.result = "REL-002" => drifted
            /\ drifted /\ call.result = "ok" => call.mode = "Join" /\ call.limit # NoLimit

\* Every loaded collection is in value order whatever order the engine and the chunks delivered,
\* rows moved between two chunks included (sortByProperties, the sort at the end of readJoinedRows).
CollectionsOrdered ==
    \A o \in DOMAIN held, kind \in Collections : held[o].nav[kind] # Null =>
        \A i, j \in DOMAIN held[o].nav[kind] : i < j =>
            /\ held[o].nav[kind][i] <= held[o].nav[kind][j]
            /\ ~tracked => held[o].nav[kind][i] # held[o].nav[kind][j]

\* A call changes no navigation it does not name, and no foreign key, of an instance a tracked
\* session already holds: an include on a re-read root touches what it names (readJoinedRows, eagerLoad).
OtherNavigationsKept ==
    [][tracked => \A o \in DOMAIN held :
        /\ o \in DOMAIN held'
        /\ \A kind \in Kinds \ call.named : held'[o].nav[kind] = held[o].nav[kind]
        /\ call.phase # "idle" => held'[o].fk = held[o].fk]_vars

=============================================================================
