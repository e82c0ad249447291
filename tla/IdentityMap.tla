----------------------------- MODULE IdentityMap -----------------------------
(***************************************************************************)
(* The identity map of a tracked session (go/orm/tracker.go) for one       *)
(* entity type: at most one instance per key and one key per instance,     *)
(* with a snapshot of each instance's stored values.  Types never meet in  *)
(* the map, so one is enough.                                              *)
(*                                                                         *)
(* A trackedEntry is a Go pointer that undo closures keep after the map    *)
(* has dropped it, so entries live in a heap and are named by their        *)
(* registration number (seq); 0 is nil.                                    *)
(***************************************************************************)
EXTENDS Naturals, Sequences

CONSTANTS
    Ptrs,     \* instances the application may hold
    Keys      \* keys a stored row may have

ASSUME KeysAssumption == Keys \subseteq Nat \ {0}

Nil == 0

\* tracker: the heap of entries with their snapshots, the pointer index and the
\* sorted key index.
newTracker ==
    [entries |-> <<>>,
     snap    |-> <<>>,
     byPtr   |-> [p \in Ptrs |-> Nil],
     byKey   |-> [k \in Keys |-> Nil]]

\* The entry tracked for a key; an unset key has none.
find(tr, k) == IF k \in Keys THEN tr.byKey[k] ELSE Nil

\* Mutant of forget: the key index keeps the entry.
forgetPointer(tr, e) == [tr EXCEPT !.byPtr[tr.entries[e].ptr] = Nil]

\* Drops an entry from both indexes; the key slot only if it is this entry's.
forget(tr, e) ==
    [entries |-> tr.entries,
     snap    |-> tr.snap,
     byPtr   |-> [tr.byPtr EXCEPT ![tr.entries[e].ptr] = Nil],
     byKey   |-> [tr.byKey EXCEPT ![tr.entries[e].key] = IF @ = e THEN Nil ELSE @]]

insertEntry(tr, e) ==
    [entries |-> tr.entries,
     snap    |-> tr.snap,
     byPtr   |-> [tr.byPtr EXCEPT ![tr.entries[e].ptr] = e],
     byKey   |-> [tr.byKey EXCEPT ![tr.entries[e].key] = e]]

\* A new trackedEntry, in no index yet.
allocate(tr, p, k, s) ==
    [entries |-> Append(tr.entries, [ptr |-> p, key |-> k]),
     snap    |-> Append(tr.snap, s),
     byPtr   |-> tr.byPtr,
     byKey   |-> tr.byKey]

forgetIfAny(tr, e) == IF e = Nil THEN tr ELSE forget(tr, e)

\* Mutant of register: a stale holder of the key stays indexed.
registerBeside(tr, p, k, s) ==
    LET noOld == forgetIfAny(tr, tr.byPtr[p])
    IN  insertEntry(allocate(noOld, p, k, s), Len(tr.entries) + 1)

\* Tracks p under k with snapshot s, after dropping p's previous entry and a
\* stale holder of k.
register(tr, p, k, s) ==
    LET noOld    == forgetIfAny(tr, tr.byPtr[p])
        noHolder == forgetIfAny(noOld, find(noOld, k))
    IN  insertEntry(allocate(noHolder, p, k, s), Len(tr.entries) + 1)

\* Puts a dropped entry back, after dropping a later holder of its key.
restore(tr, e) ==
    LET holder == tr.byKey[tr.entries[e].key]
        free   == IF holder = e THEN tr ELSE forgetIfAny(tr, holder)
    IN  IF free.byPtr[tr.entries[e].ptr] = e THEN free ELSE insertEntry(free, e)

\* What the session can observe of the map: per instance, its key and snapshot.
View(tr) ==
    [p \in Ptrs |->
        IF tr.byPtr[p] = Nil THEN <<>>
        ELSE <<tr.entries[tr.byPtr[p]].key, tr.snap[tr.byPtr[p]]>>]

Entry == [ptr: Ptrs, key: Keys]

\* A tracker whose snapshots are in S: the indexes name entries of the heap.
TrackerType(tr, S) ==
    /\ tr \in [entries: Seq(Entry), snap: Seq(S), byPtr: [Ptrs -> Nat], byKey: [Keys -> Nat]]
    /\ Len(tr.snap) = Len(tr.entries)
    /\ \A p \in Ptrs : tr.byPtr[p] \in 0 .. Len(tr.entries)
    /\ \A k \in Keys : tr.byKey[k] \in 0 .. Len(tr.entries)

\* The two indexes are inverse to each other.
MapOK(tr) ==
    /\ \A p \in Ptrs : tr.byPtr[p] # Nil =>
          /\ tr.entries[tr.byPtr[p]].ptr = p
          /\ tr.byKey[tr.entries[tr.byPtr[p]].key] = tr.byPtr[p]
    /\ \A k \in Keys : tr.byKey[k] # Nil =>
          /\ tr.entries[tr.byKey[k]].key = k
          /\ tr.byPtr[tr.entries[tr.byKey[k]].ptr] = tr.byKey[k]

=============================================================================
