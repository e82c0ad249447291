------------------------- MODULE IdentityMap_proofs -------------------------
(***************************************************************************)
(* The operations of the identity map keep it an identity map, for any     *)
(* number of instances and keys.                                           *)
(***************************************************************************)
EXTENDS IdentityMap, TLAPS

\* A fresh tracker is well formed and empty.
THEOREM NewTrackerOK ==
    ASSUME NEW S
    PROVE  TrackerType(newTracker, S) /\ MapOK(newTracker)
BY DEF newTracker, TrackerType, MapOK, Nil, Entry

\* An entry of the heap names an instance and a key.
LEMMA EntryOK ==
    ASSUME NEW S, NEW tr, TrackerType(tr, S), NEW e \in 1 .. Len(tr.entries)
    PROVE  tr.entries[e].ptr \in Ptrs /\ tr.entries[e].key \in Keys
<1>1. tr.entries \in Seq(Entry)
  BY DEF TrackerType
<1>2. tr.entries[e] \in Entry
  BY <1>1
<1> QED
  BY <1>2 DEF Entry

\* tracker.forget: the map stays one-to-one, and the entry's instance is unknown.
THEOREM ForgetOK ==
    ASSUME NEW S, NEW tr, TrackerType(tr, S), MapOK(tr), NEW e \in 1 .. Len(tr.entries),
           tr.byPtr[tr.entries[e].ptr] \in {Nil, e}
    PROVE  /\ TrackerType(forget(tr, e), S)
           /\ MapOK(forget(tr, e))
           /\ forget(tr, e).byPtr[tr.entries[e].ptr] = Nil
           /\ forget(tr, e).byKey[tr.entries[e].key] # e
           /\ forget(tr, e).entries = tr.entries
           /\ \A p \in Ptrs : forget(tr, e).byPtr[p] \in {Nil, tr.byPtr[p]}
           /\ \A k \in Keys : forget(tr, e).byKey[k] \in {Nil, tr.byKey[k]}
<1>1. tr.entries[e].ptr \in Ptrs /\ tr.entries[e].key \in Keys
  BY EntryOK
<1>2. TrackerType(forget(tr, e), S)
  BY <1>1 DEF TrackerType, forget, Nil
<1>3. MapOK(forget(tr, e))
  <2> DEFINE new == forget(tr, e)
  <2>1. /\ new.entries = tr.entries
        /\ new.byPtr = [tr.byPtr EXCEPT ![tr.entries[e].ptr] = Nil]
        /\ new.byKey = [tr.byKey EXCEPT ![tr.entries[e].key] =
                            IF tr.byKey[tr.entries[e].key] = e THEN Nil ELSE tr.byKey[tr.entries[e].key]]
    BY DEF forget
  <2> HIDE DEF new
  <2>2. ASSUME NEW p \in Ptrs, new.byPtr[p] # Nil
        PROVE  /\ new.entries[new.byPtr[p]].ptr = p
               /\ new.byKey[new.entries[new.byPtr[p]].key] = new.byPtr[p]
    <3>1. p # tr.entries[e].ptr /\ new.byPtr[p] = tr.byPtr[p] /\ tr.byPtr[p] \in 1 .. Len(tr.entries)
      BY <2>1, <2>2, <1>1 DEF TrackerType, Nil
    <3>2. tr.entries[tr.byPtr[p]].ptr = p /\ tr.byKey[tr.entries[tr.byPtr[p]].key] = tr.byPtr[p]
      BY <3>1, <2>2 DEF MapOK
    <3>3. tr.byPtr[p] # e /\ tr.entries[tr.byPtr[p]].key \in Keys
      BY <3>1, <3>2, EntryOK
    <3> QED
      BY <2>1, <3>1, <3>2, <3>3, <1>1 DEF TrackerType
  <2>3. ASSUME NEW k \in Keys, new.byKey[k] # Nil
        PROVE  /\ new.entries[new.byKey[k]].key = k
               /\ new.byPtr[new.entries[new.byKey[k]].ptr] = new.byKey[k]
    <3>1. new.byKey[k] = tr.byKey[k] /\ tr.byKey[k] # e /\ tr.byKey[k] # Nil
          /\ tr.byKey[k] \in 1 .. Len(tr.entries)
      <4>1. CASE k = tr.entries[e].key
        BY <4>1, <2>1, <2>3, <1>1 DEF TrackerType, Nil
      <4>2. CASE k # tr.entries[e].key
        <5>1. new.byKey[k] = tr.byKey[k] /\ tr.byKey[k] # Nil
          BY <4>2, <2>1, <2>3, <1>1 DEF TrackerType
        <5> QED
          BY <4>2, <5>1 DEF TrackerType, MapOK, Nil
      <4> QED
        BY <4>1, <4>2
    <3>2. tr.entries[tr.byKey[k]].key = k /\ tr.byPtr[tr.entries[tr.byKey[k]].ptr] = tr.byKey[k]
      BY <3>1 DEF MapOK
    <3>3. tr.entries[tr.byKey[k]].ptr # tr.entries[e].ptr /\ tr.entries[tr.byKey[k]].ptr \in Ptrs
      BY <3>1, <3>2, EntryOK
    <3> QED
      BY <2>1, <3>1, <3>2, <3>3, <1>1 DEF TrackerType
  <2> QED
    BY <2>2, <2>3 DEF MapOK, new
<1> QED
  BY <1>1, <1>2, <1>3 DEF TrackerType, forget, Nil

\* The map after dropping an entry that may be nil.
LEMMA ForgetIfAnyOK ==
    ASSUME NEW S, NEW tr, TrackerType(tr, S), MapOK(tr), NEW e \in 0 .. Len(tr.entries),
           e # Nil => tr.byPtr[tr.entries[e].ptr] \in {Nil, e}
    PROVE  /\ TrackerType(forgetIfAny(tr, e), S)
           /\ MapOK(forgetIfAny(tr, e))
           /\ forgetIfAny(tr, e).entries = tr.entries
           /\ e # Nil => forgetIfAny(tr, e).byPtr[tr.entries[e].ptr] = Nil
           /\ e # Nil => forgetIfAny(tr, e).byKey[tr.entries[e].key] # e
           /\ \A p \in Ptrs : forgetIfAny(tr, e).byPtr[p] \in {Nil, tr.byPtr[p]}
           /\ \A k \in Keys : forgetIfAny(tr, e).byKey[k] \in {Nil, tr.byKey[k]}
<1>1. CASE e = Nil
  BY <1>1 DEF forgetIfAny
<1>2. CASE e # Nil
  <2>1. e \in 1 .. Len(tr.entries) /\ forgetIfAny(tr, e) = forget(tr, e)
    BY <1>2 DEF forgetIfAny, Nil, TrackerType
  <2> QED
    BY <1>2, <2>1, ForgetOK
<1> QED
  BY <1>1, <1>2

\* tracker.insertEntry is safe only between a free instance and a free key.
LEMMA InsertEntryOK ==
    ASSUME NEW S, NEW tr, TrackerType(tr, S), MapOK(tr), NEW e \in 1 .. Len(tr.entries),
           tr.byPtr[tr.entries[e].ptr] = Nil, tr.byKey[tr.entries[e].key] = Nil
    PROVE  /\ TrackerType(insertEntry(tr, e), S)
           /\ MapOK(insertEntry(tr, e))
           /\ insertEntry(tr, e).byPtr[tr.entries[e].ptr] = e
           /\ insertEntry(tr, e).byKey[tr.entries[e].key] = e
<1> DEFINE new == insertEntry(tr, e)
<1>1. tr.entries[e].ptr \in Ptrs /\ tr.entries[e].key \in Keys
  BY EntryOK
<1>2. TrackerType(new, S)
  BY <1>1 DEF TrackerType, insertEntry
<1>3. /\ new.entries = tr.entries
      /\ new.byPtr = [tr.byPtr EXCEPT ![tr.entries[e].ptr] = e]
      /\ new.byKey = [tr.byKey EXCEPT ![tr.entries[e].key] = e]
  BY DEF insertEntry
<1>4. new.byPtr[tr.entries[e].ptr] = e /\ new.byKey[tr.entries[e].key] = e
  BY <1>1, <1>3 DEF TrackerType
<1> HIDE DEF new
<1>5. ASSUME NEW p \in Ptrs, new.byPtr[p] # Nil
      PROVE  /\ new.entries[new.byPtr[p]].ptr = p
             /\ new.byKey[new.entries[new.byPtr[p]].key] = new.byPtr[p]
  <2>1. CASE p = tr.entries[e].ptr
    BY <1>3, <1>4, <2>1
  <2>2. CASE p # tr.entries[e].ptr
    <3>1. new.byPtr[p] = tr.byPtr[p] /\ tr.byPtr[p] # Nil /\ tr.byPtr[p] \in 1 .. Len(tr.entries)
      BY <1>1, <1>3, <1>5, <2>2 DEF TrackerType, Nil
    <3>2. tr.entries[tr.byPtr[p]].ptr = p /\ tr.byKey[tr.entries[tr.byPtr[p]].key] = tr.byPtr[p]
      BY <3>1 DEF MapOK
    <3>3. tr.entries[tr.byPtr[p]].key \in Keys /\ tr.entries[tr.byPtr[p]].key # tr.entries[e].key
      BY <3>1, <3>2, EntryOK
    <3> QED
      BY <1>1, <1>3, <3>1, <3>2, <3>3 DEF TrackerType
  <2> QED
    BY <2>1, <2>2
<1>6. ASSUME NEW k \in Keys, new.byKey[k] # Nil
      PROVE  /\ new.entries[new.byKey[k]].key = k
             /\ new.byPtr[new.entries[new.byKey[k]].ptr] = new.byKey[k]
  <2>1. CASE k = tr.entries[e].key
    BY <1>3, <1>4, <2>1
  <2>2. CASE k # tr.entries[e].key
    <3>1. new.byKey[k] = tr.byKey[k] /\ tr.byKey[k] # Nil /\ tr.byKey[k] \in 1 .. Len(tr.entries)
      BY <1>1, <1>3, <1>6, <2>2 DEF TrackerType, Nil
    <3>2. tr.entries[tr.byKey[k]].key = k /\ tr.byPtr[tr.entries[tr.byKey[k]].ptr] = tr.byKey[k]
      BY <3>1 DEF MapOK
    <3>3. tr.entries[tr.byKey[k]].ptr \in Ptrs /\ tr.entries[tr.byKey[k]].ptr # tr.entries[e].ptr
      BY <3>1, <3>2, EntryOK
    <3> QED
      BY <1>1, <1>3, <3>1, <3>2, <3>3 DEF TrackerType
  <2> QED
    BY <2>1, <2>2
<1> QED
  BY <1>2, <1>4, <1>5, <1>6 DEF MapOK, new

\* An index of a well-formed map names an entry whose instance it is.
LEMMA HolderOK ==
    ASSUME NEW S, NEW tr, TrackerType(tr, S), MapOK(tr), NEW k \in Keys
    PROVE  /\ tr.byKey[k] \in 0 .. Len(tr.entries)
           /\ tr.byKey[k] # Nil => tr.byPtr[tr.entries[tr.byKey[k]].ptr] = tr.byKey[k]
                                   /\ tr.entries[tr.byKey[k]].key = k
BY DEF TrackerType, MapOK

\* A new entry of the heap, in neither index.
LEMMA AllocateOK ==
    ASSUME NEW S, NEW tr, TrackerType(tr, S), MapOK(tr), NEW p \in Ptrs, NEW k \in Keys, NEW s \in S
    PROVE  LET new == allocate(tr, p, k, s)
               e == Len(tr.entries) + 1
           IN  /\ TrackerType(new, S)
               /\ MapOK(new)
               /\ e \in 1 .. Len(new.entries)
               /\ new.entries[e].ptr = p /\ new.entries[e].key = k
               /\ new.byPtr = tr.byPtr /\ new.byKey = tr.byKey
<1> DEFINE new == allocate(tr, p, k, s)
           x == [ptr |-> p, key |-> k]
<1>1. /\ tr.entries \in Seq(Entry) /\ tr.snap \in Seq(S) /\ x \in Entry
      /\ tr.byPtr \in [Ptrs -> Nat] /\ tr.byKey \in [Keys -> Nat]
  BY DEF TrackerType, Entry
<1>2. /\ new.entries = Append(tr.entries, x) /\ new.snap = Append(tr.snap, s)
      /\ new.byPtr = tr.byPtr /\ new.byKey = tr.byKey
  BY DEF allocate
<1>6. new = [entries |-> new.entries, snap |-> new.snap, byPtr |-> new.byPtr, byKey |-> new.byKey]
  BY DEF allocate
<1> HIDE DEF new, x
<1>3. /\ new.entries \in Seq(Entry) /\ new.snap \in Seq(S)
      /\ Len(new.entries) = Len(tr.entries) + 1 /\ Len(new.snap) = Len(tr.snap) + 1
      /\ Len(tr.entries) \in Nat
      /\ \A d \in 1 .. Len(tr.entries) : new.entries[d] = tr.entries[d]
      /\ new.entries[Len(tr.entries) + 1] = x
  BY <1>1, <1>2
<1>4. TrackerType(new, S)
  <2>1. new \in [entries: Seq(Entry), snap: Seq(S), byPtr: [Ptrs -> Nat], byKey: [Keys -> Nat]]
    <3>1. new.byPtr \in [Ptrs -> Nat] /\ new.byKey \in [Keys -> Nat]
      BY <1>1, <1>2
    <3> QED
      BY <1>3, <1>6, <3>1, Zenon
  <2>2. \A n \in 0 .. Len(tr.entries) : n \in 0 .. Len(new.entries)
    BY <1>3
  <2> QED
    BY <1>2, <1>3, <2>1, <2>2 DEF TrackerType
<1>5. MapOK(new)
  <2>1. \A q \in Ptrs : tr.byPtr[q] # Nil => new.entries[tr.byPtr[q]] = tr.entries[tr.byPtr[q]]
    BY <1>3 DEF TrackerType, Nil
  <2>2. \A j \in Keys : tr.byKey[j] # Nil => new.entries[tr.byKey[j]] = tr.entries[tr.byKey[j]]
    BY <1>3 DEF TrackerType, Nil
  <2>3. ASSUME NEW q \in Ptrs, new.byPtr[q] # Nil
        PROVE  new.entries[new.byPtr[q]].ptr = q /\ new.byKey[new.entries[new.byPtr[q]].key] = new.byPtr[q]
    <3>1. new.byPtr = tr.byPtr /\ new.byKey = tr.byKey
      BY <1>2
    <3>2. tr.byPtr[q] # Nil
      BY <2>3, <3>1
    <3>3. new.entries[tr.byPtr[q]] = tr.entries[tr.byPtr[q]]
      BY <2>1, <3>2
    <3>4. tr.entries[tr.byPtr[q]].ptr = q /\ tr.byKey[tr.entries[tr.byPtr[q]].key] = tr.byPtr[q]
      BY <3>2 DEF MapOK
    <3> QED
      BY <3>1, <3>3, <3>4
  <2>4. ASSUME NEW j \in Keys, new.byKey[j] # Nil
        PROVE  new.entries[new.byKey[j]].key = j /\ new.byPtr[new.entries[new.byKey[j]].ptr] = new.byKey[j]
    <3>1. new.byPtr = tr.byPtr /\ new.byKey = tr.byKey
      BY <1>2
    <3>2. tr.byKey[j] # Nil
      BY <2>4, <3>1
    <3>3. new.entries[tr.byKey[j]] = tr.entries[tr.byKey[j]]
      BY <2>2, <3>2
    <3>4. tr.entries[tr.byKey[j]].key = j /\ tr.byPtr[tr.entries[tr.byKey[j]].ptr] = tr.byKey[j]
      BY <3>2 DEF MapOK
    <3> QED
      BY <3>1, <3>3, <3>4
  <2> QED
    BY <2>3, <2>4 DEF MapOK
<1> QED
  BY <1>2, <1>3, <1>4, <1>5 DEF new, x

\* tracker.register: whatever instance held the key and whatever key the instance
\* had, afterwards the two belong to each other and to nobody else.
THEOREM RegisterOK ==
    ASSUME NEW S, NEW tr, TrackerType(tr, S), MapOK(tr), NEW p \in Ptrs, NEW k \in Keys, NEW s \in S
    PROVE  LET new == register(tr, p, k, s)
               e == Len(tr.entries) + 1
           IN  TrackerType(new, S) /\ MapOK(new) /\ new.byPtr[p] = e /\ new.byKey[k] = e
<1> DEFINE noOld == forgetIfAny(tr, tr.byPtr[p])
           noHolder == forgetIfAny(noOld, noOld.byKey[k])
           heap == allocate(noHolder, p, k, s)
           e == Len(tr.entries) + 1
<1>1. register(tr, p, k, s) = insertEntry(heap, e)
  BY DEF register, find
<1>2. /\ TrackerType(noOld, S) /\ MapOK(noOld) /\ noOld.byPtr[p] = Nil
      /\ noOld.entries = tr.entries
  <2>1. tr.byPtr[p] \in 0 .. Len(tr.entries)
        /\ (tr.byPtr[p] # Nil => tr.entries[tr.byPtr[p]].ptr = p)
    BY DEF TrackerType, MapOK
  <2>2. CASE tr.byPtr[p] = Nil
    BY <2>2 DEF forgetIfAny
  <2>3. CASE tr.byPtr[p] # Nil
    BY <2>1, <2>3, ForgetIfAnyOK
  <2> QED
    BY <2>2, <2>3
<1> HIDE DEF noOld
<1>3. /\ TrackerType(noHolder, S) /\ MapOK(noHolder)
      /\ noHolder.byPtr[p] = Nil /\ noHolder.byKey[k] = Nil
      /\ noHolder.entries = tr.entries
  <2>1. CASE noOld.byKey[k] = Nil
    BY <1>2, <2>1 DEF forgetIfAny
  <2>2. CASE noOld.byKey[k] # Nil
    BY <1>2, <2>2, HolderOK, ForgetIfAnyOK
  <2> QED
    BY <2>1, <2>2
<1> HIDE DEF noHolder
<1>4. /\ TrackerType(heap, S) /\ MapOK(heap) /\ e \in 1 .. Len(heap.entries)
      /\ heap.entries[e].ptr = p /\ heap.entries[e].key = k
      /\ heap.byPtr[p] = Nil /\ heap.byKey[k] = Nil
  BY <1>3, AllocateOK
<1> HIDE DEF heap, e
<1>5. /\ TrackerType(insertEntry(heap, e), S) /\ MapOK(insertEntry(heap, e))
      /\ insertEntry(heap, e).byPtr[p] = e /\ insertEntry(heap, e).byKey[k] = e
  BY <1>4, InsertEntryOK
<1> QED
  BY <1>1, <1>5 DEF e

\* tracker.restore keeps the map one-to-one and puts the entry back, provided its
\* instance has not been registered again since: what an undo journal must ensure.
THEOREM RestoreOK ==
    ASSUME NEW S, NEW tr, TrackerType(tr, S), MapOK(tr), NEW e \in 1 .. Len(tr.entries),
           tr.byPtr[tr.entries[e].ptr] \in {Nil, e}
    PROVE  /\ TrackerType(restore(tr, e), S)
           /\ MapOK(restore(tr, e))
           /\ restore(tr, e).byPtr[tr.entries[e].ptr] = e
           /\ restore(tr, e).byKey[tr.entries[e].key] = e
<1> DEFINE p == tr.entries[e].ptr
           k == tr.entries[e].key
           holder == tr.byKey[k]
           free == IF holder = e THEN tr ELSE forgetIfAny(tr, holder)
<1>1. p \in Ptrs /\ k \in Keys /\ e # Nil
  BY EntryOK DEF Nil
<1>2. restore(tr, e) = IF free.byPtr[p] = e THEN free ELSE insertEntry(free, e)
  BY DEF restore
<1>3. /\ TrackerType(free, S) /\ MapOK(free) /\ free.entries = tr.entries
      /\ free.byPtr[p] \in {Nil, e} /\ free.byKey[k] \in {Nil, e}
  <2>1. CASE holder = e
    BY <2>1, <1>1
  <2>2. CASE holder # e
    <3>1. holder \in 0 .. Len(tr.entries)
          /\ (holder # Nil => tr.byPtr[tr.entries[holder].ptr] = holder /\ tr.entries[holder].key = k)
      BY <1>1, HolderOK
    <3>2. free = forgetIfAny(tr, holder)
      BY <2>2
    <3>3. CASE holder = Nil
      BY <3>2, <3>3 DEF forgetIfAny
    <3>4. CASE holder # Nil
      BY <1>1, <3>1, <3>2, <3>4, ForgetIfAnyOK
    <3> QED
      BY <3>3, <3>4
  <2> QED
    BY <2>1, <2>2
<1> HIDE DEF free
<1>4. CASE free.byPtr[p] = e
  BY <1>1, <1>2, <1>3, <1>4 DEF MapOK
<1>5. CASE free.byPtr[p] # e
  <2>1. free.byPtr[p] = Nil
    BY <1>3, <1>5
  <2>2. free.byKey[k] = Nil
    BY <1>1, <1>3, <2>1 DEF MapOK
  <2> QED
    BY <1>1, <1>2, <1>3, <1>5, <2>1, <2>2, InsertEntryOK
<1> QED
  BY <1>4, <1>5

=============================================================================
