----------------------------- MODULE UnitOfWork -----------------------------
(***************************************************************************)
(* The unit of work of a tracked session (go/orm/unit_of_work.go, flush.go *)
(* and the plan of batching.go): Persist and Remove schedule instances and *)
(* cascade over their navigations, Detach takes them back, and Flush       *)
(* orders the schedule, sends it as messages and completes it, or fails as *)
(* a whole and keeps the schedule.                                         *)
(*                                                                         *)
(* Entities have a database-generated key, one foreign key, a many-to-one  *)
(* navigation "parent" behind it and the one-to-many "children" that       *)
(* mirrors it.  What one statement does to the identity map, and how a     *)
(* failed call undoes it closure by closure, is SessionWrites; here an     *)
(* instance is tracked or not and a failed flush restores what it saved.   *)
(***************************************************************************)
EXTENDS Integers, SequencesExt

CONSTANTS
    Ptrs,             \* instances the application holds
    NoPtr,            \* a nil many-to-one navigation
    NotLoaded,        \* a nil collection
    ObjectGraphs,     \* object graphs the application may build: types, parents, children
    Starts,           \* how it starts: a graph, the instances it has read and the rows theirs refer to
    Relationships,    \* type -> its relationships: kind and target type
    Cascade,          \* [{"parent", "children"} -> SUBSET {"persist", "remove"}]
    Auto,             \* Options.Batching = Auto
    Limit,            \* MaxStatementsPerMessage
    MaxSteps          \* bound: application steps

ASSUME UnitOfWorkAssumption ==
    /\ NoPtr \notin Ptrs
    /\ \A t \in DOMAIN Relationships : \A r \in Relationships[t] : r.target \in DOMAIN Relationships
    /\ \A r \in {"parent", "children"} : Cascade[r] \subseteq {"persist", "remove"}
    /\ Auto \in BOOLEAN
    /\ Limit \in Nat \ {0} /\ MaxSteps \in Nat
    /\ \A s \in Starts : s.graph \in ObjectGraphs
    /\ \A g \in ObjectGraphs : \A p \in Ptrs :
          g.type[p] \in DOMAIN Relationships /\ g.parent[p] \in Ptrs \cup {NoPtr}
          /\ (g.children[p] # NotLoaded => ToSet(g.children[p]) \subseteq Ptrs)

VARIABLES
    graph,     \* the navigations
    key, fk,   \* key (0: unset) and foreign key of every instance
    tracked,   \* the identity map: the known instances in registration order
    dirty,     \* the ones with a changed column
    rows,      \* the table: keys and foreign keys
    lastKey,   \* the database's identity counter
    inserts,   \* the schedule: instance, persisted by name, cascades that reached it
    removes,   \* instances scheduled for deletion
    phase,     \* where a flush is
    queue,     \* operations of its plan still to prepare
    message,   \* statements of the message in progress
    sent,      \* statements executed
    saved,     \* memory and rows before it
    result,    \* outcome of the last call
    want,      \* history: what the last call on an instance since a flush asked for
    touched,   \* history: the instances written immediately since then
    steps      \* application steps (bounds the model)

memory   == <<key, fk, tracked, dirty>>
database == <<rows, lastKey>>
schedule == <<inserts, removes>>
flush    == <<phase, queue, message, sent, saved>>
vars     == <<graph, key, fk, tracked, dirty, rows, lastKey, inserts, removes, phase, queue,
              message, sent, saved, result, want, touched, steps>>
history  == <<want, touched>>

Memory == [key |-> key, tracked |-> tracked, dirty |-> dirty, rows |-> rows]

Position(seq, x) == CHOOSE i \in DOMAIN seq : seq[i] = x

Init ==
    /\ \E s \in Starts :
          LET KeyOf(p) == IF p \in ToSet(s.read) THEN Position(s.read, p) ELSE 0 IN
          /\ graph = s.graph /\ tracked = s.read /\ lastKey = Len(s.read)
          /\ key = [p \in Ptrs |-> KeyOf(p)] /\ fk = [p \in Ptrs |-> KeyOf(s.refers[p])]
          /\ rows = {[key |-> KeyOf(p), fk |-> KeyOf(s.refers[p])] : p \in ToSet(s.read)}
    /\ dirty = {}
    /\ inserts = <<>> /\ removes = <<>>
    /\ phase = "idle" /\ queue = <<>> /\ message = <<>> /\ sent = <<>>
    /\ saved = <<>>
    /\ result = "ok"
    /\ want = [p \in Ptrs |-> "nothing"] /\ touched = {}
    /\ steps = 0

Step ==
    /\ phase = "idle"
    /\ steps < MaxSteps
    /\ steps' = steps + 1

-----------------------------------------------------------------------------
(* Navigations and the schedule. *)

\* navigationTargets, with whether the navigation is initialized.
navigationTargets(p, rel) ==
    IF rel = "parent" THEN IF graph.parent[p] = NoPtr THEN <<>> ELSE <<graph.parent[p]>>
    ELSE IF graph.children[p] = NotLoaded THEN <<>> ELSE graph.children[p]

Initialized(p, rel) == rel = "children" => graph.children[p] # NotLoaded

IsTracked(p) == \E i \in DOMAIN tracked : tracked[i] = p

insertOf == {inserts[i].ptr : i \in DOMAIN inserts}

removeOf == ToSet(removes)

\* The cascade targets of p, relationship by relationship.
Targets(p, operation) ==
    LET via(rel) == IF operation \in Cascade[rel]
                    THEN [i \in DOMAIN navigationTargets(p, rel) |->
                            [ptr |-> navigationTargets(p, rel)[i], rel |-> rel]]
                    ELSE <<>>
    IN  via("parent") \o via("children")

\* Mutant of cancel: the owners go, what only they had scheduled stays.
cancelOwners(scheduled, gone) ==
    LET left(i) == SelectSeq(scheduled[i].links, LAMBDA l : l.owner \notin gone)
    IN  SelectSeq([i \in DOMAIN scheduled |-> [scheduled[i] EXCEPT !.links = left(i)]],
                  LAMBDA s : s.ptr \notin gone)

\* cancel: the inserts that remain once those of `gone` are dropped and, with them,
\* every insert nobody named whose last owner went.
RECURSIVE cancel(_, _)
cancel(scheduled, gone) ==
    LET left(i) == SelectSeq(scheduled[i].links, LAMBDA l : l.owner \notin gone)
        orphans == {scheduled[i].ptr : i \in {j \in DOMAIN scheduled :
                      /\ ~scheduled[j].direct
                      /\ scheduled[j].links # <<>> /\ left(j) = <<>>}}
    IN  IF orphans \subseteq gone
        THEN SelectSeq([i \in DOMAIN scheduled |-> [scheduled[i] EXCEPT !.links = left(i)]],
                       LAMBDA s : s.ptr \notin gone)
        ELSE cancel(scheduled, gone \cup orphans)

-----------------------------------------------------------------------------
(* Persist. *)

\* note: reaching a scheduled instance adds a link, or marks it persisted by name.
note(plan, p, via) ==
    IF p \notin insertOf \cup ToSet(plan.adds) THEN plan
    ELSE IF via = <<>> THEN [plan EXCEPT !.directs = @ \cup {p}]
    ELSE [plan EXCEPT !.links = Append(@, [child |-> p, link |-> via[1]])]

\* persistPlan.visit: depth first, the owner before its targets.
RECURSIVE visitPersist(_, _, _)
visitPersist(plan, p, via) ==
    IF plan.code # "ok" THEN plan
    ELSE IF p \in plan.visited THEN note(plan, p, via)
    ELSE IF p \in removeOf THEN [plan EXCEPT !.code = "UOW-006"]
    ELSE LET adds == IF p \in insertOf \/ IsTracked(p) THEN plan.adds ELSE Append(plan.adds, p)
             entered == note([plan EXCEPT !.visited = @ \cup {p}, !.adds = adds], p, via)
         IN  FoldLeft(LAMBDA acc, t : visitPersist(acc, t.ptr, <<[owner |-> p, rel |-> t.rel]>>),
                      entered, Targets(p, "persist"))

PersistPlan(p) ==
    visitPersist([visited |-> {}, adds |-> <<>>, links |-> <<>>, directs |-> {}, code |-> "ok"], p, <<>>)

\* persistPlan.commit: the new inserts, the direct flags, the links without duplicates.
commitPersist(plan) ==
    LET all == inserts \o [i \in DOMAIN plan.adds |-> [ptr |-> plan.adds[i], direct |-> FALSE, links |-> <<>>]]
        linked(s) ==
            FoldLeft(LAMBDA acc, l : IF l.child # s.ptr \/ Contains(acc, l.link) THEN acc ELSE Append(acc, l.link),
                     s.links, plan.links)
    IN  [i \in DOMAIN all |-> [all[i] EXCEPT !.direct = @ \/ all[i].ptr \in plan.directs,
                                             !.links = linked(all[i])]]

Persist(p) ==
    /\ Step
    /\ LET plan == PersistPlan(p) IN
         /\ result' = plan.code
         /\ IF plan.code # "ok" THEN UNCHANGED <<inserts, want>>
            ELSE /\ inserts' = commitPersist(plan)
                 /\ want' = [q \in Ptrs |-> IF q \in plan.visited THEN "stored" ELSE want[q]]
    /\ UNCHANGED <<graph, memory, database, removes, flush, touched>>

-----------------------------------------------------------------------------
(* Remove and Detach. *)

\* removePlan.visit: a scheduled insert is cancelled and its cascade not walked.
RECURSIVE visitRemove(_, _)
cascadeRemove(plan, p, rel) ==
    IF plan.code # "ok" \/ "remove" \notin Cascade[rel] THEN plan
    ELSE IF ~Initialized(p, rel) THEN [plan EXCEPT !.code = "UOW-005"]
    ELSE FoldLeft(visitRemove, plan, navigationTargets(p, rel))

visitRemove(plan, p) ==
    IF plan.code # "ok" \/ p \in plan.visited THEN plan
    ELSE LET entered == [plan EXCEPT !.visited = @ \cup {p}] IN
         IF p \in insertOf THEN [entered EXCEPT !.cancels = @ \cup {p}]
         ELSE IF p \in removeOf THEN entered
         ELSE IF ~IsTracked(p) THEN [entered EXCEPT !.code = "UOW-001"]
         ELSE FoldLeft(LAMBDA acc, rel : cascadeRemove(acc, p, rel),
                       [entered EXCEPT !.adds = Append(@, p)], <<"parent", "children">>)

RemovePlan(p) == visitRemove([visited |-> {}, adds |-> <<>>, cancels |-> {}, code |-> "ok"], p)

RemoveEntity(p) ==
    /\ Step
    /\ LET plan == RemovePlan(p)
           kept == cancel(inserts, plan.cancels)
           dropped == insertOf \ {kept[i].ptr : i \in DOMAIN kept}
       IN  /\ result' = plan.code
           /\ IF plan.code # "ok" THEN UNCHANGED <<inserts, removes, want>>
              ELSE /\ removes' = removes \o plan.adds
                   /\ inserts' = kept
                   /\ want' = [q \in Ptrs |-> IF q \in ToSet(plan.adds) \cup plan.cancels \cup {p} /\ IsTracked(q) THEN "gone"
                                             ELSE IF q \in dropped THEN "nothing" ELSE want[q]]
    /\ UNCHANGED <<graph, memory, database, flush, touched>>

\* Detach: the schedule and the map forget the instance, its cascaded removals stay.
Detach(p) ==
    /\ Step
    /\ IsTracked(p) \/ p \in insertOf \cup removeOf
    /\ LET kept == IF p \in insertOf THEN cancel(inserts, {p}) ELSE inserts
           dropped == insertOf \ {kept[i].ptr : i \in DOMAIN kept}
       IN  /\ inserts' = kept
           /\ want' = [q \in Ptrs |-> IF q \in {p} \cup dropped THEN "nothing" ELSE want[q]]
    /\ removes' = SelectSeq(removes, LAMBDA q : q # p)
    /\ tracked' = SelectSeq(tracked, LAMBDA q : q # p)
    /\ dirty' = dirty \ {p}
    /\ result' = "ok"
    /\ UNCHANGED <<graph, key, fk, database, flush, touched>>

-----------------------------------------------------------------------------
(* The application's own work beside the unit of work. *)

\* It rewires its navigations.
Navigate ==
    /\ Step
    /\ \E g \in ObjectGraphs \ {graph} : g.type = graph.type /\ graph' = g
    /\ UNCHANGED <<memory, database, schedule, flush, result, history>>

\* It changes a column of an instance.
Edit(p) ==
    /\ Step
    /\ IsTracked(p) /\ p \notin dirty
    /\ dirty' = dirty \cup {p}
    /\ UNCHANGED <<graph, key, fk, tracked, database, schedule, flush, result, history>>

\* checkNavigationConsistency: the foreign key is what is written; a non-nil
\* many-to-one navigation must agree with it.
CRUD004(p, value) == graph.parent[p] # NoPtr /\ key[graph.parent[p]] # value

\* Insert: a generated key has nothing to check, and the schedule is not consulted.
Insert(p) ==
    /\ Step
    /\ IF CRUD004(p, fk[p]) THEN result' = "CRUD-004" /\ UNCHANGED <<key, tracked, dirty, database, history>>
       ELSE /\ lastKey' = lastKey + 1
            /\ rows' = rows \cup {[key |-> lastKey', fk |-> fk[p]]}
            /\ key' = [key EXCEPT ![p] = lastKey']
            /\ tracked' = Append(SelectSeq(tracked, LAMBDA q : q # p), p)
            /\ dirty' = dirty \ {p}
            /\ want' = [want EXCEPT ![p] = "stored"] /\ touched' = touched \cup {p}
            /\ result' = "ok"
    /\ UNCHANGED <<graph, fk, schedule, flush>>

\* DeleteEntity.
DeleteEntity(p) ==
    /\ Step
    /\ IF \A r \in rows : r.key # key[p]
       THEN result' = "CRUD-001" /\ UNCHANGED <<rows, tracked, dirty, history>>
       ELSE /\ rows' = {r \in rows : r.key # key[p]}
            /\ tracked' = SelectSeq(tracked, LAMBDA q : q # p)
            /\ dirty' = dirty \ {p}
            /\ want' = [want EXCEPT ![p] = "gone"] /\ touched' = touched \cup {p}
            /\ result' = "ok"
    /\ UNCHANGED <<graph, key, fk, lastKey, schedule, flush>>

-----------------------------------------------------------------------------
(* The flush plan. *)

\* pendingWork: work done immediately is dropped.
PendingInserts == SelectSeq(inserts, LAMBDA s : ~IsTracked(s.ptr))

PendingRemoves == SelectSeq(removes, IsTracked)

dirtyEntries == SelectSeq(tracked, LAMBDA p : p \in dirty /\ p \notin removeOf)

\* What can be reached along the edges in any number of steps.
Reachable(from, edges) ==
    FoldSet(LAMBDA t, found : found \cup UNION {edges[u] : u \in found}, from, DOMAIN edges)

Types == DOMAIN Relationships

\* The types with rows in the plan, and every type they are related to, links of many-to-many aside.
discover(seeds) ==
    Reachable(seeds, [t \in Types |-> {r.target : r \in {q \in Relationships[t] : q.kind # "ManyToMany"}}])

\* Mutant of dependsOn: the owner of a collection is not what its elements depend on.
dependsOnTargets(types) ==
    [t \in types |-> {r.target : r \in {q \in Relationships[t] : q.kind = "ManyToOne"}}]

\* The types a type's foreign keys refer to: the targets of its many-to-one navigations, and the owners
\* whose one-to-many and one-to-one navigations point at it.
dependsOn(types) ==
    [t \in types |->
        {r.target : r \in {q \in Relationships[t] : q.kind = "ManyToOne"}}
        \cup {o \in types : \E r \in Relationships[o] : r.kind \in {"OneToMany", "OneToOne"} /\ r.target = t}]

\* A type ranks after every type it depends on and that does not depend on it in turn: the longest way
\* down through the strongly connected components, which share a rank.
RECURSIVE RankOf(_, _)
RankOf(t, edges) ==
    LET lower == {u \in Reachable({t}, edges) : t \notin Reachable({u}, edges)}
    IN  IF lower = {} THEN 0 ELSE 1 + Max({RankOf(u, edges) : u \in lower})

\* The ranks of the types of what is planned and of all they discover.
rankTypes(seeds) ==
    LET types == discover(seeds)
        edges == dependsOn(types)
    IN  FoldSet(LAMBDA t, ranks : ranks @@ (t :> RankOf(t, edges)), <<>>, types)

\* The same for every set of types, as a constant.
Ranks == FoldSet(LAMBDA seeds, known : known @@ (seeds :> rankTypes(seeds)), <<>>, SUBSET Types)

Seeds ==
    {graph.type[p] : p \in ToSet(PendingRemoves) \cup ToSet(dirtyEntries)
                            \cup {s.ptr : s \in ToSet(PendingInserts)}}

Ascending == 1
Descending == -1

\* By type rank, among equals as they come.
ByRank(nodes, direction) ==
    LET ranks == Ranks[Seeds]
        Rank(p) == direction * ranks[graph.type[p]]
    IN  SortSeq(nodes, LAMBDA p, q : \/ Rank(p) < Rank(q)
                                     \/ Rank(p) = Rank(q) /\ Position(nodes, p) < Position(nodes, q))

DirtyEntries == ByRank(dirtyEntries, Ascending)

cascadeOwners(s) == {s.links[i].owner : i \in {j \in DOMAIN s.links : s.links[j].rel = "children"}}

\* dependencyOrder: of the nodes whose dependencies are all placed, the first under
\* the order `nodes` is in goes next; nodes on a cycle never get ready.
dependencyOrder(nodes, dependencies) ==
    FoldLeft(LAMBDA order, i :
                 LET ready == SelectSeq(nodes, LAMBDA n : /\ ~Contains(order, n)
                                                          /\ dependencies[n] \ {n} \subseteq ToSet(order))
                 IN  IF ready = <<>> THEN order ELSE Append(order, Head(ready)),
             <<>>, nodes)

InsertBefore ==
    [p \in {s.ptr : s \in ToSet(PendingInserts)} |->
        LET s == CHOOSE s \in ToSet(PendingInserts) : s.ptr = p
        IN  (ToSet(navigationTargets(p, "parent")) \cup cascadeOwners(s))
              \cap {t.ptr : t \in ToSet(PendingInserts)}]

\* A child after every scheduled parent; then the lowest type rank, then the schedule.
orderInserts ==
    LET nodes == [i \in DOMAIN PendingInserts |-> PendingInserts[i].ptr]
    IN  dependencyOrder(ByRank(nodes, Ascending), InsertBefore)

DeleteBefore ==
    LET nodes == ToSet(PendingRemoves) IN
    [p \in nodes |->
        {c \in nodes : graph.parent[c] = p} \cup (ToSet(navigationTargets(p, "children")) \cap nodes)]

\* A parent after every scheduled child; then the highest type rank, then the schedule.
orderDeletes == dependencyOrder(ByRank(PendingRemoves, Descending), DeleteBefore)

\* An operation of the plan, with the owners its foreign key comes from, in order.
Operation(kind, p) ==
    [kind |-> kind, ptr |-> p,
     owners |-> IF kind # "insert" THEN <<>>
                ELSE LET s == CHOOSE s \in ToSet(inserts) : s.ptr = p
                         kids == SelectSeq(s.links, LAMBDA l : l.rel = "children")
                     IN  [i \in DOMAIN kids |-> kids[i].owner]]

Operations(kind, order) == [i \in DOMAIN order |-> Operation(kind, order[i])]

\* planFlush.
FlushPlan ==
    Operations("insert", orderInserts) \o Operations("update", DirtyEntries) \o Operations("delete", orderDeletes)

Cyclic == Len(orderInserts) < Len(PendingInserts) \/ Len(orderDeletes) < Len(PendingRemoves)

\* Flush is refused before any SQL.
FlushRefused ==
    /\ Step
    /\ Cyclic
    /\ result' = "UOW-004"
    /\ UNCHANGED <<graph, memory, database, schedule, flush, history>>

\* A flush with nothing to write begins no transaction and clears the schedule.
FlushEmpty ==
    /\ Step
    /\ ~Cyclic /\ FlushPlan = <<>>
    /\ inserts' = <<>> /\ removes' = <<>>
    /\ want' = [p \in Ptrs |-> "nothing"] /\ touched' = {}
    /\ result' = "ok"
    /\ UNCHANGED <<graph, memory, database, flush>>

\* A flush with a plan begins a transaction of its own.
FlushBegins ==
    /\ Step
    /\ ~Cyclic /\ FlushPlan # <<>>
    /\ phase' = "prepare" /\ queue' = FlushPlan /\ saved' = Memory
    /\ UNCHANGED <<graph, memory, database, schedule, message, sent, result, history>>

-----------------------------------------------------------------------------
(* executeFlush. *)

\* The instances an operation reads a key from.
Depends(op) == ToSet(navigationTargets(op.ptr, "parent")) \cup ToSet(op.owners)

\* Mutant of before: rule 1b is missing.
SameInstance(op) == \E i \in DOMAIN message : message[i].ptr = op.ptr

\* before: the message holds a statement on the instance (1a), or the insert of one
\* whose generated key the operation reads (1b).
before(op) ==
    \E i \in DOMAIN message :
        message[i].ptr = op.ptr \/ (message[i].kind = "insert" /\ message[i].ptr \in Depends(op))

\* flowKeys: the parent's key, then the key of every owner that cascaded to it.
flowKeys(op) ==
    IF op.kind # "insert" THEN fk[op.ptr]
    ELSE IF op.owners # <<>> THEN key[Last(op.owners)]
    ELSE IF graph.parent[op.ptr] # NoPtr THEN key[graph.parent[op.ptr]]
    ELSE fk[op.ptr]

\* A message the next operation depends on goes out first.
Cut ==
    /\ phase = "prepare"
    /\ queue # <<>> /\ before(Head(queue))
    /\ phase' = "send"
    /\ UNCHANGED <<graph, memory, database, schedule, queue, message, sent, saved, result, history, steps>>

\* Keys flow into the instance, then CRUD-004 is judged, and the statement joins the
\* message, which goes out as soon as it is full.
Prepare ==
    /\ phase = "prepare"
    /\ queue # <<>> /\ ~before(Head(queue))
    /\ LET op == Head(queue)
           value == flowKeys(op)
       IN  /\ fk' = [fk EXCEPT ![op.ptr] = value]
           /\ IF op.kind # "delete" /\ CRUD004(op.ptr, value)
              THEN phase' = "refused" /\ UNCHANGED <<queue, message>>
              ELSE /\ message' = Append(message, [kind |-> op.kind, ptr |-> op.ptr, fk |-> value])
                   /\ queue' = Tail(queue)
                   /\ phase' = IF Auto /\ Len(message) + 1 < Limit THEN "prepare" ELSE "send"
    /\ UNCHANGED <<graph, key, tracked, dirty, database, schedule, sent, saved, result, history, steps>>

\* What is left goes out.
Finish ==
    /\ phase = "prepare"
    /\ queue = <<>>
    /\ phase' = IF message = <<>> THEN "commit" ELSE "send"
    /\ UNCHANGED <<graph, memory, database, schedule, queue, message, sent, saved, result, history, steps>>

\* One statement executed and completed.
complete(m, w) ==
    LET k == m.lastKey + 1 IN
    CASE w.kind = "insert" ->
           [m EXCEPT !.rows = @ \cup {[key |-> k, fk |-> w.fk]}, !.lastKey = k,
                     !.key[w.ptr] = k, !.tracked = Append(SelectSeq(@, LAMBDA q : q # w.ptr), w.ptr), !.dirty = @ \ {w.ptr}]
      [] w.kind = "update" ->
           [m EXCEPT !.rows = {r \in @ : r.key # m.key[w.ptr]} \cup {[key |-> m.key[w.ptr], fk |-> w.fk]},
                     !.dirty = @ \ {w.ptr}]
      [] w.kind = "delete" ->
           [m EXCEPT !.rows = {r \in @ : r.key # m.key[w.ptr]},
                     !.tracked = SelectSeq(@, LAMBDA q : q # w.ptr), !.dirty = @ \ {w.ptr}]

\* send: the message runs and its statements are completed in order.
Send ==
    /\ phase = "send"
    /\ LET m == FoldLeft(complete, [key |-> key, tracked |-> tracked, dirty |-> dirty,
                                    rows |-> rows, lastKey |-> lastKey], message)
       IN  /\ key' = m.key /\ tracked' = m.tracked /\ dirty' = m.dirty
           /\ rows' = m.rows /\ lastKey' = m.lastKey
    /\ sent' = sent \o message
    /\ message' = <<>>
    /\ phase' = "prepare"
    /\ UNCHANGED <<graph, fk, schedule, queue, saved, result, history, steps>>

Failing ==
    /\ phase # "idle"
    /\ key' = saved.key /\ tracked' = saved.tracked /\ dirty' = saved.dirty /\ rows' = saved.rows
    /\ phase' = "idle" /\ queue' = <<>> /\ message' = <<>> /\ sent' = <<>> /\ saved' = <<>>
    /\ result' = "failed"
    /\ UNCHANGED <<graph, fk, lastKey, history, steps>>

\* Mutant of Fail: a failed flush forgets the schedule.
FailAndClear == Failing /\ inserts' = <<>> /\ removes' = <<>>

\* A refusal, a driver error or the end of the context anywhere, the commit included:
\* the transaction rolls back, the journal undoes keys, tracking and snapshots,
\* foreign keys that flowed stay, the schedule is kept.
Fail == Failing /\ UNCHANGED schedule

\* The flush commits and clears the schedule.
Commit ==
    /\ phase = "commit"
    /\ inserts' = <<>> /\ removes' = <<>>
    /\ want' = [p \in Ptrs |-> "nothing"] /\ touched' = {}
    /\ phase' = "idle" /\ queue' = <<>> /\ message' = <<>> /\ sent' = <<>> /\ saved' = <<>>
    /\ result' = "ok"
    /\ UNCHANGED <<graph, memory, database, steps>>

\* The bounded program is done (MaxSteps).
Done == phase = "idle" /\ steps = MaxSteps /\ UNCHANGED vars

Next ==
    \/ \E p \in Ptrs : Persist(p) \/ RemoveEntity(p) \/ Detach(p) \/ Edit(p) \/ Insert(p) \/ DeleteEntity(p)
    \/ Navigate
    \/ FlushRefused \/ FlushEmpty \/ FlushBegins
    \/ Cut \/ Prepare \/ Finish \/ Send \/ Fail \/ Commit
    \/ Done

Spec == Init /\ [][Next]_vars

-----------------------------------------------------------------------------
(* Properties. *)

Stored(p) == key[p] # 0 /\ \E r \in rows : r.key = key[p]

\* What a flush that succeeds owes the instance: what was persisted is stored and
\* tracked, what was removed has no row, and nothing else was inserted or deleted.
Realized(p) ==
    /\ want[p] = "stored" => Stored(p) /\ IsTracked(p)
    /\ want[p] = "gone" => ~Stored(p)
    /\ \A i \in DOMAIN sent :
          sent[i].ptr = p => CASE sent[i].kind = "insert" -> want[p] = "stored"
                               [] sent[i].kind = "delete" -> want[p] = "gone"
                               [] sent[i].kind = "update" -> want[p] # "gone"

\* A successful flush has carried out what the last Persist, Remove or Detach that
\* reached each instance asked for, through cascades, cancelled inserts, and any
\* number of failed flushes before it (Flush, planFlush, executeFlush).
FlushRealizesIntent ==
    [][Commit \/ FlushEmpty => \A p \in Ptrs \ touched : Realized(p)]_vars

\* Every row a flush inserted carries the key of the instance's parent, or of the last
\* owner that cascaded to it: no child is bound before the generated key it needs
\* exists, however the statements were grouped into messages (before, flowKeys).
KeysFlowed ==
    phase = "commit" =>
        \A i \in DOMAIN sent :
            LET p == sent[i].ptr
                owners == Operation("insert", p).owners
            IN  sent[i].kind = "insert" =>
                    /\ graph.parent[p] # NoPtr => sent[i].fk = key[graph.parent[p]]
                    /\ owners # <<>> => sent[i].fk = key[Last(owners)]

\* What a type depends on, itself included.
TypesBelow ==
    LET refersTo == [t \in Types |-> {u \in Types :
            \/ [kind |-> "ManyToOne", target |-> u] \in Relationships[t]
            \/ \E kind \in {"OneToMany", "OneToOne"} : [kind |-> kind, target |-> t] \in Relationships[u]}]
    IN  [t \in Types |-> Reachable({t}, refersTo)]

\* The row of p refers to the row of q, whether or not a navigation says so, and the type of q never
\* depends on the type of p.
RowRefers(p, q) ==
    /\ \E r \in saved.rows : r.key = saved.key[p] /\ r.fk # 0 /\ r.fk = saved.key[q]
    /\ graph.type[p] \notin TypesBelow[graph.type[q]]

\* Children are deleted before the parents they reference, whatever the order of the Remove calls and
\* the shape of the graph; a child that refers to its parent by its foreign key alone too, unless their
\* types refer to each other (orderDeletes, rankTypes).
ChildrenDeletedFirst ==
    \A i, j \in DOMAIN sent :
        LET p == sent[i].ptr
            q == sent[j].ptr
        IN  /\ sent[i].kind = "delete" /\ sent[j].kind = "delete"
            /\ graph.parent[p] = q \/ RowRefers(p, q)
            => i <= j

\* The schedule never holds an instance twice or on both sides, and an insert nobody
\* named has an owner whose cascade reached it (Persist, Remove, cancel).
ScheduleConsistent ==
    /\ insertOf \cap removeOf = {}
    /\ Len(inserts) = Cardinality(insertOf) /\ Len(removes) = Cardinality(removeOf)
    /\ \A i \in DOMAIN inserts : inserts[i].direct \/ inserts[i].links # <<>>

\* The inserts that follow from one persisted by name, or from an instance that is
\* not itself scheduled, along the recorded cascades.
Rooted ==
    LET owners(s) == {s.links[i].owner : i \in DOMAIN s.links}
        grow(found, i) == found \cup {s.ptr : s \in {t \in ToSet(inserts) : owners(t) \cap found # {}}}
    IN  FoldLeft(grow, {s.ptr : s \in {t \in ToSet(inserts) : t.direct \/ owners(t) \ insertOf # {}}}, inserts)

\* cancel drops, transitively, "the inserts only their persist cascade had scheduled":
\* what stays scheduled follows from an instance somebody named.
CancelledWithOwner == insertOf \subseteq Rooted

=============================================================================
