------------------------ MODULE SessionWrites_proofs ------------------------
(***************************************************************************)
(* A failed batch is undone and the identity map keeps one instance per    *)
(* key, for any number of instances, keys and statements.                  *)
(*                                                                         *)
(* The argument.  Between two message ends the map does not change until   *)
(* the message is complete, so every closure of the message records the    *)
(* memory B of the last message end (Records, Restores).  The memory stays *)
(* on its way back to B (Back, Near): what differs is an instance or an    *)
(* entry that some closure will put right.  At a message end the closures  *)
(* so far are taken as a whole (Reaches) and a new group begins, with the  *)
(* closure of a statement held over the message end below it.  That the    *)
(* statements of one message do not meet in the map is what rule 1a and    *)
(* the counter of generated keys are for (Independent, Fits, Returned).    *)
(***************************************************************************)
EXTENDS SessionWrites, IdentityMap_proofs, FiniteSetTheorems, WellFoundedInduction, SequenceTheorems

-----------------------------------------------------------------------------
(* Induction.  The library's induction theorems are about an operator; the *)
(* well-foundedness of < is about sets, and a set of numbers is enough.    *)

\* A nonempty set of numbers has a least one.
LEMMA LeastElement ==
    ASSUME NEW T \in SUBSET Nat, T # {}
    PROVE  \E n \in T : \A m \in T : n <= m
<1>1. PICK x \in T : \A y \in T : <<y, x>> \notin OpToRel(<, Nat)
  BY NatLessThanWellFounded, WFMin
<1>2. \A y \in T : ~(y < x)
  BY <1>1 DEF OpToRel
<1>3. \A y \in T : x <= y
  <2> TAKE y \in T
  <2>1. x \in Nat /\ y \in Nat /\ ~(y < x)
    BY <1>2
  <2> QED
    BY <2>1
<1> QED
  BY <1>3

\* A set that holds 0 and, with a number, the next one, holds every number.
LEMMA Induction ==
    ASSUME NEW S, 0 \in S, \A n \in Nat : n \in S => n + 1 \in S
    PROVE  \A n \in Nat : n \in S
<1> SUFFICES ASSUME Nat \ S # {} PROVE FALSE
  OBVIOUS
<1>1. PICK n \in Nat \ S : \A m \in Nat \ S : n <= m
  BY LeastElement
<1>2. n # 0 /\ n - 1 \in Nat /\ n - 1 \in S
  BY <1>1
<1> QED
  BY <1>1, <1>2

-----------------------------------------------------------------------------
(* rollback. *)

\* left is the memory after each closure of a rollback of the first n from m.
Unwinds(left, J, n, m) ==
    left = [i \in 0 .. n |-> IF i = n THEN m ELSE undoOne(J[i + 1], left[i + 1])]

\* Whatever there is to undo, the rollback comes to its end.
LEMMA UnwindsExists ==
    ASSUME NEW J, NEW n \in Nat
    PROVE  \A m : \E left : Unwinds(left, J, n, m)
<1> DEFINE S == {i \in Nat : \A m : \E left : Unwinds(left, J, i, m)}
<1>1. 0 \in S
  <2> SUFFICES ASSUME NEW m PROVE \E left : Unwinds(left, J, 0, m)
    OBVIOUS
  <2> DEFINE f == [i \in 0 .. 0 |-> m]
  <2>1. Unwinds(f, J, 0, m)
    BY DEF Unwinds
  <2> QED
    BY <2>1
<1>2. ASSUME NEW i \in Nat, i \in S
      PROVE  i + 1 \in S
  <2> SUFFICES ASSUME NEW m PROVE \E left : Unwinds(left, J, i + 1, m)
    OBVIOUS
  <2>1. PICK g : Unwinds(g, J, i, undoOne(J[i + 1], m))
    BY <1>2
  <2> DEFINE f == [j \in 0 .. i + 1 |-> IF j = i + 1 THEN m ELSE g[j]]
             h == [j \in 0 .. i + 1 |-> IF j = i + 1 THEN m ELSE undoOne(J[j + 1], f[j + 1])]
  <2>2. ASSUME NEW j \in 0 .. i + 1 PROVE f[j] = h[j]
    <3>1. CASE j = i + 1
      BY <3>1
    <3>2. CASE j = i
      BY <3>2, <2>1 DEF Unwinds
    <3>3. CASE j \in 0 .. i - 1
      <4>1. j \in 0 .. i /\ j # i /\ j + 1 \in 0 .. i /\ j + 1 \in 0 .. i + 1 /\ j + 1 # i + 1 /\ j # i + 1
        BY <3>3
      <4>2. g[j] = undoOne(J[j + 1], g[j + 1])
        BY <4>1, <2>1 DEF Unwinds
      <4> QED
        BY <4>1, <4>2
    <3> QED
      BY <3>1, <3>2, <3>3
  <2>3. f = h
    BY <2>2
  <2> HIDE DEF f
  <2>4. Unwinds(f, J, i + 1, m)
    BY <2>3 DEF Unwinds
  <2> QED
    BY <2>4
<1> HIDE DEF S
<1>3. n \in S
  BY <1>1, <1>2, Induction
<1> QED
  BY <1>3 DEF S

\* What the rollback returns.
LEMMA RollbackUnwinds ==
    ASSUME NEW J, NEW n \in Nat, NEW m
    PROVE  \E left : Unwinds(left, J, n, m) /\ rollback(J, n, m) = left[0]
<1> DEFINE left == CHOOSE f : f = [i \in 0 .. n |-> IF i = n THEN m ELSE undoOne(J[i + 1], f[i + 1])]
<1>1. PICK g : Unwinds(g, J, n, m)
  BY UnwindsExists
<1>2. g = [i \in 0 .. n |-> IF i = n THEN m ELSE undoOne(J[i + 1], g[i + 1])]
  BY <1>1 DEF Unwinds
<1>3. left = [i \in 0 .. n |-> IF i = n THEN m ELSE undoOne(J[i + 1], left[i + 1])]
  BY <1>2
<1>4. rollback(J, n, m) = left[0]
  BY DEF rollback
<1> HIDE DEF left
<1> QED
  BY <1>3, <1>4 DEF Unwinds

\* Two rollbacks of the same closures from the same memory agree all the way down.
LEMMA UnwindsUnique ==
    ASSUME NEW J, NEW K, NEW n \in Nat, \A i \in 1 .. n : J[i] = K[i],
           NEW m, NEW f, NEW g, Unwinds(f, J, n, m), Unwinds(g, K, n, m)
    PROVE  f[0] = g[0]
<1> DEFINE S == {k \in Nat : k <= n => f[n - k] = g[n - k]}
<1>1. 0 \in S
  BY DEF Unwinds
<1>2. ASSUME NEW k \in Nat, k \in S
      PROVE  k + 1 \in S
  <2> SUFFICES ASSUME k + 1 <= n PROVE f[n - (k + 1)] = g[n - (k + 1)]
    OBVIOUS
  <2>1. PICK i \in Nat : i = n - (k + 1)
    OBVIOUS
  <2>2. i \in 0 .. n /\ i # n /\ i + 1 = n - k /\ i + 1 \in 1 .. n
    BY <2>1
  <2>3. f[i + 1] = g[i + 1] /\ J[i + 1] = K[i + 1]
    BY <1>2, <2>2
  <2>4. f[i] = undoOne(J[i + 1], f[i + 1]) /\ g[i] = undoOne(K[i + 1], g[i + 1])
    BY <2>2 DEF Unwinds
  <2> QED
    BY <2>1, <2>3, <2>4
<1> HIDE DEF S
<1>3. n \in S
  BY <1>1, <1>2, Induction
<1> QED
  BY <1>3 DEF S

\* Nothing to undo.
LEMMA RollbackNone ==
    ASSUME NEW J, NEW m
    PROVE  rollback(J, 0, m) = m
<1>1. PICK f : Unwinds(f, J, 0, m) /\ rollback(J, 0, m) = f[0]
  BY RollbackUnwinds
<1> QED
  BY <1>1 DEF Unwinds

\* The last closure runs first.
LEMMA RollbackLast ==
    ASSUME NEW J, NEW n \in Nat, NEW m
    PROVE  rollback(J, n + 1, m) = rollback(J, n, undoOne(J[n + 1], m))
<1>1. PICK f : Unwinds(f, J, n + 1, m) /\ rollback(J, n + 1, m) = f[0]
  BY RollbackUnwinds
<1>2. PICK g : Unwinds(g, J, n, undoOne(J[n + 1], m)) /\ rollback(J, n, undoOne(J[n + 1], m)) = g[0]
  BY RollbackUnwinds
<1> DEFINE h == [i \in 0 .. n |-> f[i]]
           k == [i \in 0 .. n |-> IF i = n THEN undoOne(J[n + 1], m) ELSE undoOne(J[i + 1], h[i + 1])]
<1>3. ASSUME NEW i \in 0 .. n PROVE h[i] = k[i]
  <2>1. i \in 0 .. n + 1 /\ i # n + 1 /\ i + 1 \in 0 .. n + 1
    OBVIOUS
  <2>2. f[i] = undoOne(J[i + 1], f[i + 1])
    BY <1>1, <2>1 DEF Unwinds
  <2>3. CASE i = n
    <3>1. f[n + 1] = m
      BY <1>1 DEF Unwinds
    <3> QED
      BY <2>2, <2>3, <3>1
  <2>4. CASE i # n
    <3>1. i + 1 \in 0 .. n
      BY <2>4
    <3> QED
      BY <2>2, <2>4, <3>1
  <2> QED
    BY <2>3, <2>4
<1>4. h = k
  BY <1>3
<1>5. h[0] = f[0]
  OBVIOUS
<1> HIDE DEF h
<1>6. Unwinds(h, J, n, undoOne(J[n + 1], m))
  BY <1>4 DEF Unwinds
<1>7. h[0] = g[0]
  BY <1>2, <1>6, UnwindsUnique
<1> QED
  BY <1>1, <1>2, <1>5, <1>7

\* What was recorded later does not matter to the closures below it.
LEMMA RollbackPrefix ==
    ASSUME NEW J, NEW K, NEW n \in Nat, \A i \in 1 .. n : J[i] = K[i], NEW m
    PROVE  rollback(J, n, m) = rollback(K, n, m)
<1>1. PICK f : Unwinds(f, J, n, m) /\ rollback(J, n, m) = f[0]
  BY RollbackUnwinds
<1>2. PICK g : Unwinds(g, K, n, m) /\ rollback(K, n, m) = g[0]
  BY RollbackUnwinds
<1>3. f[0] = g[0]
  BY <1>1, <1>2, UnwindsUnique
<1> QED
  BY <1>1, <1>2, <1>3

-----------------------------------------------------------------------------
(* The map on its way back. *)

Row == [ver: Nat, val: Vals, del: BOOLEAN, stamp: Nat]

\* Map t still holds the entries of map T, and differs from it only where something is left to run
\* that will put it right: an instance of W has its closure, an entry of R its own; only an instance
\* of F can have an entry T does not know.
Near(t, T, W, R, F) ==
    /\ TrackerType(t, Row) /\ MapOK(t)
    /\ Len(T.entries) <= Len(t.entries)
    /\ \A e \in 1 .. Len(T.entries) : t.entries[e] = T.entries[e]
    /\ \A p \in Ptrs : t.byPtr[p] # T.byPtr[p] =>
          \/ p \in W /\ t.byPtr[p] = Nil
          \/ p \in W /\ p \in F /\ t.byPtr[p] > Len(T.entries)
          \/ t.byPtr[p] = Nil /\ T.byPtr[p] \in R
    /\ \A e \in 1 .. Len(T.entries) : t.snap[e] # T.snap[e] => \E p \in W : T.byPtr[p] = e

\* What forget changes.
LEMMA ForgetIfAnyParts ==
    ASSUME NEW t, TrackerType(t, Row), MapOK(t), NEW e \in 0 .. Len(t.entries),
           e # Nil => t.byPtr[t.entries[e].ptr] \in {Nil, e}
    PROVE  /\ TrackerType(forgetIfAny(t, e), Row) /\ MapOK(forgetIfAny(t, e))
           /\ forgetIfAny(t, e).entries = t.entries
           /\ forgetIfAny(t, e).snap = t.snap
           /\ \A p \in Ptrs : forgetIfAny(t, e).byPtr[p] =
                IF e # Nil /\ p = t.entries[e].ptr THEN Nil ELSE t.byPtr[p]
<1>1. TrackerType(forgetIfAny(t, e), Row) /\ MapOK(forgetIfAny(t, e)) /\ forgetIfAny(t, e).entries = t.entries
  BY ForgetIfAnyOK
<1>2. forgetIfAny(t, e).snap = t.snap
  BY DEF forgetIfAny, forget
<1>3. ASSUME NEW p \in Ptrs
      PROVE  forgetIfAny(t, e).byPtr[p] = IF e # Nil /\ p = t.entries[e].ptr THEN Nil ELSE t.byPtr[p]
  BY DEF forgetIfAny, forget, TrackerType
<1> QED
  BY <1>1, <1>2, <1>3

\* What restore changes: the entry is its instance's again, and a holder of its key is forgotten.
LEMMA RestoreParts ==
    ASSUME NEW t, TrackerType(t, Row), MapOK(t), NEW e \in 1 .. Len(t.entries),
           t.byPtr[t.entries[e].ptr] \in {Nil, e}
    PROVE  /\ TrackerType(restore(t, e), Row) /\ MapOK(restore(t, e))
           /\ restore(t, e).entries = t.entries
           /\ restore(t, e).snap = t.snap
           /\ restore(t, e).byPtr[t.entries[e].ptr] = e
           /\ \A p \in Ptrs : p # t.entries[e].ptr =>
                \/ restore(t, e).byPtr[p] = t.byPtr[p]
                \/ /\ restore(t, e).byPtr[p] = Nil
                   /\ t.byPtr[p] # Nil /\ t.entries[t.byPtr[p]].key = t.entries[e].key
<1>1. TrackerType(restore(t, e), Row) /\ MapOK(restore(t, e)) /\ restore(t, e).byPtr[t.entries[e].ptr] = e
  BY RestoreOK
<1> DEFINE q == t.entries[e].ptr
           k == t.entries[e].key
           holder == t.byKey[k]
           free == IF holder = e THEN t ELSE forgetIfAny(t, holder)
<1>2. q \in Ptrs /\ k \in Keys
  BY EntryOK
<1>3. restore(t, e) = IF free.byPtr[q] = e THEN free ELSE insertEntry(free, e)
  BY DEF restore
<1>4. /\ holder \in 0 .. Len(t.entries)
      /\ holder # Nil => t.byPtr[t.entries[holder].ptr] = holder /\ t.entries[holder].key = k
  BY <1>2, HolderOK
<1>5. /\ free.entries = t.entries /\ free.snap = t.snap
      /\ free.byPtr \in [Ptrs -> Nat]
      /\ \A p \in Ptrs : \/ free.byPtr[p] = t.byPtr[p]
                         \/ /\ free.byPtr[p] = Nil
                            /\ t.byPtr[p] # Nil /\ t.entries[t.byPtr[p]].key = k
  <2>1. CASE holder = e
    BY <2>1 DEF TrackerType
  <2>2. CASE holder # e
    <3>1. free = forgetIfAny(t, holder)
      BY <2>2
    <3>2. holder # Nil => t.byPtr[t.entries[holder].ptr] \in {Nil, holder}
      BY <1>4
    <3>3. /\ TrackerType(forgetIfAny(t, holder), Row)
          /\ forgetIfAny(t, holder).entries = t.entries
          /\ forgetIfAny(t, holder).snap = t.snap
          /\ \A p \in Ptrs : forgetIfAny(t, holder).byPtr[p] =
                IF holder # Nil /\ p = t.entries[holder].ptr THEN Nil ELSE t.byPtr[p]
      <4> HIDE DEF holder
      <4> QED
        BY <1>4, <3>2, ForgetIfAnyParts
    <3> QED
      BY <1>4, <3>1, <3>3 DEF TrackerType
  <2> QED
    BY <2>1, <2>2
<1> HIDE DEF free
<1>6. /\ restore(t, e).entries = t.entries /\ restore(t, e).snap = t.snap
      /\ \A p \in Ptrs : p # q => restore(t, e).byPtr[p] = free.byPtr[p]
  BY <1>2, <1>3, <1>5 DEF insertEntry
<1> QED
  BY <1>1, <1>5, <1>6

\* Map u is map t with one entry of T restored.
Nearer(u, t, T, W, R, F, e) ==
    /\ Near(u, T, W, R, F)
    /\ u.byPtr[T.entries[e].ptr] = e
    /\ u.snap = t.snap
    /\ \A p \in Ptrs : t.byPtr[p] = T.byPtr[p] => u.byPtr[p] = T.byPtr[p]

\* One restored entry of T: the map is nearer to T by that entry.
LEMMA RestoreNear ==
    ASSUME NEW t, NEW T, NEW W, NEW R, NEW F, NEW e,
           TrackerType(T, Row), MapOK(T), e \in 1 .. Len(T.entries), T.byPtr[T.entries[e].ptr] = e,
           Near(t, T, W, R \cup {e}, F), t.byPtr[T.entries[e].ptr] \in {Nil, e}
    PROVE  Nearer(restore(t, e), t, T, W, R, F, e)
<1> DEFINE u == restore(t, e)
           q == T.entries[e].ptr
<1>1. /\ TrackerType(t, Row) /\ MapOK(t) /\ e \in 1 .. Len(t.entries) /\ t.entries[e] = T.entries[e]
      /\ Len(T.entries) \in Nat /\ Len(t.entries) \in Nat
  BY DEF Near, TrackerType
<1>2. q \in Ptrs /\ T.entries[e].key \in Keys
  BY EntryOK
<1>3. /\ TrackerType(u, Row) /\ MapOK(u) /\ u.entries = t.entries /\ u.snap = t.snap /\ u.byPtr[q] = e
      /\ \A p \in Ptrs : p # q => \/ u.byPtr[p] = t.byPtr[p]
                                  \/ /\ u.byPtr[p] = Nil
                                     /\ t.byPtr[p] # Nil /\ t.entries[t.byPtr[p]].key = T.entries[e].key
  BY <1>1, RestoreParts
<1> HIDE DEF u
\* Two entries of T with one key are one.
<1>4. ASSUME NEW p \in Ptrs, t.byPtr[p] = T.byPtr[p], T.byPtr[p] # Nil,
             t.entries[t.byPtr[p]].key = T.entries[e].key
      PROVE  p = q
  <2>1. T.byPtr[p] \in 1 .. Len(T.entries)
    BY <1>4 DEF TrackerType, Nil
  <2>2. t.entries[T.byPtr[p]] = T.entries[T.byPtr[p]]
    BY <2>1 DEF Near
  <2>3. T.entries[T.byPtr[p]].ptr = p /\ T.byKey[T.entries[T.byPtr[p]].key] = T.byPtr[p]
    BY <1>4 DEF MapOK
  <2>4. T.byKey[T.entries[e].key] = e
    BY <1>2, T.byPtr[T.entries[e].ptr] = e, e # Nil DEF MapOK, Nil
  <2> QED
    BY <1>4, <2>2, <2>3, <2>4
<1>5. \A p \in Ptrs : t.byPtr[p] = T.byPtr[p] => u.byPtr[p] = T.byPtr[p]
  <2> TAKE p \in Ptrs
  <2> HAVE t.byPtr[p] = T.byPtr[p]
  <2>1. CASE p = q
    BY <2>1, <1>3
  <2>2. CASE p # q
    BY <2>2, <1>3, <1>4
  <2> QED
    BY <2>1, <2>2
<1>6. ASSUME NEW p \in Ptrs, u.byPtr[p] # T.byPtr[p]
      PROVE  \/ p \in W /\ u.byPtr[p] = Nil
             \/ p \in W /\ p \in F /\ u.byPtr[p] > Len(T.entries)
             \/ u.byPtr[p] = Nil /\ T.byPtr[p] \in R
  <2>1. p # q /\ t.byPtr[p] # T.byPtr[p]
    BY <1>3, <1>5, <1>6
  <2>2. T.byPtr[p] # e
    <3> SUFFICES ASSUME T.byPtr[p] = e PROVE FALSE
      OBVIOUS
    <3>1. T.entries[T.byPtr[p]].ptr = p
      BY <1>1 DEF MapOK, Nil
    <3> QED
      BY <2>1, <3>1
  <2>3. \/ p \in W /\ t.byPtr[p] = Nil
        \/ p \in W /\ p \in F /\ t.byPtr[p] > Len(T.entries)
        \/ t.byPtr[p] = Nil /\ T.byPtr[p] \in R
    BY <2>1, <2>2 DEF Near
  <2>4. u.byPtr[p] = t.byPtr[p] \/ (u.byPtr[p] = Nil /\ t.byPtr[p] # Nil)
    BY <1>3, <2>1
  <2> QED
    BY <2>3, <2>4
<1>7. /\ \A d \in 1 .. Len(T.entries) : u.entries[d] = T.entries[d]
      /\ Len(T.entries) <= Len(u.entries)
      /\ \A d \in 1 .. Len(T.entries) : u.snap[d] # T.snap[d] => \E p \in W : T.byPtr[p] = d
  BY <1>3 DEF Near
<1>8. Near(u, T, W, R, F)
  BY <1>3, <1>6, <1>7 DEF Near
<1> QED
  BY <1>3, <1>5, <1>8 DEF u, Nearer

\* An entry the map T indexes, of an instance that gets no new entry.
Lasting(e, T, F) ==
    e \in 1 .. Len(T.entries) /\ T.byPtr[T.entries[e].ptr] = e /\ T.entries[e].ptr \notin F

\* Restoring a lasting entry brings the map nearer to T, whoever holds its key now.
LEMMA LastingRestored ==
    ASSUME NEW t, NEW T, NEW W, NEW R, NEW F, NEW e,
           TrackerType(T, Row), MapOK(T), Lasting(e, T, F), Near(t, T, W, R \cup {e}, F)
    PROVE  Nearer(restore(t, e), t, T, W, R, F, e)
<1>1. e \in 1 .. Len(T.entries) /\ T.byPtr[T.entries[e].ptr] = e /\ T.entries[e].ptr \notin F
  BY DEF Lasting
<1>2. T.entries[e].ptr \in Ptrs
  BY <1>1, EntryOK
<1>3. t.byPtr[T.entries[e].ptr] \in {Nil, e}
  BY <1>1, <1>2 DEF Near
<1> QED
  BY <1>1, <1>3, RestoreNear

\* More may be put right than has to be.
LEMMA NearWeaken ==
    ASSUME NEW t, NEW T, NEW W, NEW R, NEW F, NEW e, Near(t, T, W, R, F)
    PROVE  Near(t, T, W, R \cup {e}, F)
BY DEF Near

\* An instance that is put right needs its closure no more.
LEMMA NearSettled ==
    ASSUME NEW t, NEW T, NEW W, NEW R, NEW F, NEW p \in Ptrs,
           Near(t, T, W \cup {p}, R, F), t.byPtr[p] = T.byPtr[p],
           T.byPtr[p] # Nil => t.snap[T.byPtr[p]] = T.snap[T.byPtr[p]]
    PROVE  Near(t, T, W, R, F)
<1>1. ASSUME NEW e \in 1 .. Len(T.entries), t.snap[e] # T.snap[e]
      PROVE  \E q \in W : T.byPtr[q] = e
  <2>1. PICK q \in W \cup {p} : T.byPtr[q] = e
    BY <1>1 DEF Near
  <2>2. e # Nil
    BY DEF Nil
  <2>3. q # p
    BY <1>1, <2>1, <2>2
  <2> QED
    BY <2>1, <2>3
<1>2. ASSUME NEW q \in Ptrs, t.byPtr[q] # T.byPtr[q]
      PROVE  \/ q \in W /\ t.byPtr[q] = Nil
             \/ q \in W /\ q \in F /\ t.byPtr[q] > Len(T.entries)
             \/ t.byPtr[q] = Nil /\ T.byPtr[q] \in R
  BY <1>2 DEF Near
<1> QED
  BY <1>1, <1>2 DEF Near

Instance == [key: Nat, ver: Nat, val: Vals, del: BOOLEAN, stamp: Nat]

\* The memory m of a rollback that is on its way back to B.
Back(m, B, W, R, F) ==
    /\ m = [obj |-> m.obj, tr |-> m.tr]
    /\ m.obj \in [Ptrs -> Instance]
    /\ \A p \in Ptrs : m.obj[p].val = B.obj[p].val /\ (p \notin W => m.obj[p] = B.obj[p])
    /\ Near(m.tr, B.tr, W, R, F)

\* A memory between two messages.
Memory(B) == B.obj \in [Ptrs -> Instance] /\ TrackerType(B.tr, Row) /\ MapOK(B.tr)

\* recordWrite: the closure holds what B had of its instance.
Records(j, B, F) ==
    /\ j.kind = "write" /\ j.ptr \in Ptrs
    /\ LET i == B.obj[j.ptr] IN i.key = j.key /\ i.ver = j.ver /\ i.del = j.del /\ i.stamp = j.stamp
    /\ j.entry = B.tr.byPtr[j.ptr]
    /\ j.entry # Nil => j.snap = B.tr.snap[j.entry]
    /\ j.holder \notin {Nil, j.entry} => Lasting(j.holder, B.tr, F)

\* restoreLater: the closure holds an entry of B.
Restores(j, B, F) == j.kind = "restore" /\ Lasting(j.entry, B.tr, F)

\* A restoreLater closure puts its entry back.
LEMMA UndoRestore ==
    ASSUME NEW j, NEW m, NEW B, NEW W, NEW R, NEW F,
           Memory(B), Restores(j, B, F), Back(m, B, W, R \cup {j.entry}, F)
    PROVE  Back(undoOne(j, m), B, W, R, F)
<1>1. undoOne(j, m) = [m EXCEPT !.tr = restore(m.tr, j.entry)]
  BY DEF undoOne, Restores
<1>2. m = [obj |-> m.obj, tr |-> m.tr]
  BY DEF Back
<1>3. undoOne(j, m) = [obj |-> m.obj, tr |-> restore(m.tr, j.entry)]
  BY <1>1, <1>2
<1>4. Near(restore(m.tr, j.entry), B.tr, W, R, F)
  <2>1. Nearer(restore(m.tr, j.entry), m.tr, B.tr, W, R, F, j.entry)
    BY LastingRestored DEF Memory, Restores, Back
  <2> QED
    BY <2>1 DEF Nearer
<1>5. undoOne(j, m).obj = m.obj /\ undoOne(j, m).tr = restore(m.tr, j.entry)
      /\ undoOne(j, m) = [obj |-> undoOne(j, m).obj, tr |-> undoOne(j, m).tr]
  BY <1>3
<1> QED
  BY <1>4, <1>5 DEF Back

\* The map without the entry instance p has and T does not give it.
Forgotten(t, T, p) == IF t.byPtr[p] = T.byPtr[p] THEN t ELSE forgetIfAny(t, t.byPtr[p])

Cleared(u, T, W, R, F, p) ==
    /\ Near(u, T, W \cup {p}, R, F)
    /\ u.byPtr[p] \in {Nil, T.byPtr[p]}
    /\ T.byPtr[p] = Nil => u.byPtr[p] = Nil

\* The closure's instance has the map's entry of B again, or none.
LEMMA UndoForgets ==
    ASSUME NEW t, NEW T, NEW W, NEW R, NEW F, NEW p \in Ptrs, TrackerType(T, Row),
           Near(t, T, W \cup {p}, R, F)
    PROVE  Cleared(Forgotten(t, T, p), T, W, R, F, p)
<1>1. CASE t.byPtr[p] = T.byPtr[p]
  BY <1>1 DEF Forgotten, Cleared
<1>2. CASE t.byPtr[p] # T.byPtr[p]
  <2> DEFINE u == forgetIfAny(t, t.byPtr[p])
  <2>1. /\ TrackerType(t, Row) /\ MapOK(t) /\ t.byPtr[p] \in 0 .. Len(t.entries)
        /\ t.byPtr[p] # Nil => t.entries[t.byPtr[p]].ptr = p
    BY DEF Near, TrackerType, MapOK
  <2>2. t.byPtr[p] # Nil => t.byPtr[t.entries[t.byPtr[p]].ptr] \in {Nil, t.byPtr[p]}
    BY <2>1
  <2>3. /\ TrackerType(u, Row) /\ MapOK(u) /\ u.entries = t.entries /\ u.snap = t.snap
        /\ \A q \in Ptrs : u.byPtr[q] =
              IF t.byPtr[p] # Nil /\ q = t.entries[t.byPtr[p]].ptr THEN Nil ELSE t.byPtr[q]
    BY <2>1, <2>2, ForgetIfAnyParts
  <2> HIDE DEF u
  <2>4. u.byPtr[p] = Nil /\ \A q \in Ptrs : q # p => u.byPtr[q] = t.byPtr[q]
    BY <2>1, <2>3
  <2>5. Near(u, T, W \cup {p}, R, F)
    BY <2>3, <2>4 DEF Near
  <2> QED
    BY <1>2, <2>4, <2>5 DEF u, Forgotten, Cleared
<1> QED
  BY <1>1, <1>2

\* Writing the recorded snapshot back.
LEMMA UndoSnapshot ==
    ASSUME NEW t, NEW T, NEW W, NEW R, NEW F, NEW e, TrackerType(T, Row),
           Near(t, T, W, R, F), e \in 1 .. Len(T.entries)
    PROVE  LET u == [t EXCEPT !.snap[e] = T.snap[e]]
           IN  Near(u, T, W, R, F) /\ u.snap[e] = T.snap[e] /\ u.byPtr = t.byPtr
<1> DEFINE u == [t EXCEPT !.snap[e] = T.snap[e]]
<1>1. /\ t \in [entries: Seq(Entry), snap: Seq(Row), byPtr: [Ptrs -> Nat], byKey: [Keys -> Nat]]
      /\ Len(t.snap) = Len(t.entries) /\ e \in 1 .. Len(t.snap)
      /\ T.snap \in Seq(Row) /\ Len(T.snap) = Len(T.entries)
  BY DEF Near, TrackerType
<1>2. T.snap[e] \in Row
  BY <1>1
<1>3. u = [entries |-> t.entries, snap |-> [t.snap EXCEPT ![e] = T.snap[e]], byPtr |-> t.byPtr, byKey |-> t.byKey]
  <2>1. t = [entries |-> t.entries, snap |-> t.snap, byPtr |-> t.byPtr, byKey |-> t.byKey]
    BY <1>1
  <2>2. PICK s : s = [t.snap EXCEPT ![e] = T.snap[e]]
    OBVIOUS
  <2>3. u = [t EXCEPT !.snap = s]
    BY <2>2
  <2> QED
    BY <2>1, <2>2, <2>3
<1>4. /\ u.entries = t.entries /\ u.byPtr = t.byPtr /\ u.byKey = t.byKey /\ u.snap = [t.snap EXCEPT ![e] = T.snap[e]]
  BY <1>3
<1>5. u.snap \in Seq(Row) /\ Len(u.snap) = Len(t.snap)
  BY <1>1, <1>2, <1>4
<1>6. u.snap[e] = T.snap[e] /\ \A d \in 1 .. Len(t.snap) : d # e => u.snap[d] = t.snap[d]
  BY <1>1, <1>4
<1>7. u = [entries |-> u.entries, snap |-> u.snap, byPtr |-> u.byPtr, byKey |-> u.byKey]
  BY <1>3, <1>4
<1> HIDE DEF u
<1>8. u \in [entries: Seq(Entry), snap: Seq(Row), byPtr: [Ptrs -> Nat], byKey: [Keys -> Nat]]
  <2>1. u.entries \in Seq(Entry) /\ u.byPtr \in [Ptrs -> Nat] /\ u.byKey \in [Keys -> Nat]
    BY <1>1, <1>4
  <2> QED
    BY <2>1, <1>5, <1>7, Zenon
<1>9. TrackerType(u, Row) /\ MapOK(u)
  BY <1>1, <1>4, <1>5, <1>8 DEF Near, TrackerType, MapOK
<1>10. \A d \in 1 .. Len(T.entries) : u.snap[d] # T.snap[d] => \E p \in W : T.byPtr[p] = d
  <2> TAKE d \in 1 .. Len(T.entries)
  <2>1. d \in 1 .. Len(t.snap)
    BY <1>1 DEF Near, TrackerType
  <2> QED
    BY <1>6, <2>1 DEF Near
<1>11. Near(u, T, W, R, F)
  BY <1>4, <1>9, <1>10 DEF Near
<1> QED
  BY <1>4, <1>6, <1>11 DEF u

\* A recordWrite closure puts its instance, its entry and the holder of its key back.
LEMMA UndoWrite ==
    ASSUME NEW j, NEW m, NEW B, NEW W, NEW R, NEW F,
           Memory(B), Records(j, B, F), Back(m, B, W \cup {j.ptr}, R, F)
    PROVE  Back(undoOne(j, m), B, W, R, F)
<1> DEFINE p == j.ptr
           T == B.tr
           o1 == [m.obj EXCEPT ![p] = [@ EXCEPT !.key = j.key, !.ver = j.ver, !.del = j.del, !.stamp = j.stamp]]
           current == m.tr.byPtr[p]
           t1 == IF current = j.entry THEN m.tr ELSE forgetIfAny(m.tr, current)
           t2 == IF j.entry = Nil THEN t1 ELSE restore([t1 EXCEPT !.snap[j.entry] = j.snap], j.entry)
           t3 == IF j.holder \in {Nil, j.entry} THEN t2 ELSE restore(t2, j.holder)
<1>1. undoOne(j, m) = [obj |-> o1, tr |-> t3]
  BY DEF undoOne, Records
<1>2. /\ p \in Ptrs /\ j.entry = T.byPtr[p] /\ j.kind = "write"
      /\ j.entry # Nil => j.snap = T.snap[j.entry]
      /\ TrackerType(T, Row) /\ MapOK(T) /\ Near(m.tr, T, W \cup {p}, R, F)
      /\ m.obj \in [Ptrs -> Instance] /\ B.obj \in [Ptrs -> Instance]
  BY DEF Memory, Records, Back
<1>3. /\ o1 \in [Ptrs -> Instance]
      /\ \A q \in Ptrs : o1[q].val = B.obj[q].val /\ (q \notin W => o1[q] = B.obj[q])
  <2>1. /\ m.obj[p] \in Instance /\ B.obj[p] \in Instance /\ m.obj[p].val = B.obj[p].val
        /\ B.obj[p].key = j.key /\ B.obj[p].ver = j.ver /\ B.obj[p].del = j.del /\ B.obj[p].stamp = j.stamp
    BY <1>2 DEF Back, Records
  <2>2. [m.obj[p] EXCEPT !.key = j.key, !.ver = j.ver, !.del = j.del, !.stamp = j.stamp] = B.obj[p]
    BY <2>1 DEF Instance
  <2>3. o1 = [m.obj EXCEPT ![p] = B.obj[p]]
    BY <2>2
  <2> HIDE DEF o1
  <2>4. o1[p] = B.obj[p] /\ \A q \in Ptrs : q # p => o1[q] = m.obj[q]
    BY <2>3, <1>2
  <2>5. o1 \in [Ptrs -> Instance]
    BY <2>1, <2>3, <1>2
  <2> QED
    BY <2>4, <2>5 DEF Back
<1> HIDE DEF o1
<1>4. Near(t1, T, W \cup {p}, R, F) /\ t1.byPtr[p] \in {Nil, j.entry} /\ (j.entry = Nil => t1.byPtr[p] = Nil)
  <2>1. t1 = Forgotten(m.tr, T, p)
    BY <1>2 DEF Forgotten
  <2>2. Cleared(Forgotten(m.tr, T, p), T, W, R, F, p)
    BY <1>2, UndoForgets
  <2> QED
    BY <1>2, <2>1, <2>2 DEF Cleared
<1> HIDE DEF t1
<1>5. Near(t2, T, W, R, F) /\ t2.byPtr[p] = T.byPtr[p]
  <2>1. CASE j.entry = Nil
    <3>1. t1.byPtr[p] = T.byPtr[p] /\ t2 = t1 /\ T.byPtr[p] = Nil
      BY <1>2, <1>4, <2>1
    <3>2. Near(t1, T, W, R, F)
      BY <3>1, <1>2, <1>4, NearSettled
    <3> QED
      BY <3>1, <3>2
  <2>2. CASE j.entry # Nil
    <3>1. PICK e : e = j.entry
      OBVIOUS
    <3>2. e \in 1 .. Len(T.entries) /\ T.entries[e].ptr = p /\ T.byPtr[p] = e /\ e # Nil /\ j.snap = T.snap[e]
      BY <1>2, <2>2, <3>1 DEF TrackerType, MapOK, Nil
    <3>3. PICK u : u = [t1 EXCEPT !.snap[e] = T.snap[e]]
      OBVIOUS
    <3>4. Near(u, T, W \cup {p}, R, F) /\ u.snap[e] = T.snap[e] /\ u.byPtr = t1.byPtr
      BY <1>2, <1>4, <3>2, <3>3, UndoSnapshot
    <3>5. u.byPtr[T.entries[e].ptr] \in {Nil, e} /\ T.byPtr[T.entries[e].ptr] = e
      BY <1>4, <3>1, <3>2, <3>4
    <3>6. Near(u, T, W \cup {p}, R \cup {e}, F)
      BY <3>4, NearWeaken
    <3>7. Nearer(restore(u, e), u, T, W \cup {p}, R, F, e)
      BY <1>2, <3>2, <3>5, <3>6, RestoreNear
    <3>8. t2 = restore(u, e)
      BY <2>2, <3>1, <3>2, <3>3
    <3> HIDE DEF t2
    <3>9. /\ Near(t2, T, W \cup {p}, R, F) /\ t2.byPtr[p] = T.byPtr[p]
          /\ t2.snap[T.byPtr[p]] = T.snap[T.byPtr[p]]
      BY <3>2, <3>4, <3>7, <3>8 DEF Nearer
    <3>10. Near(t2, T, W, R, F)
      BY <3>9, <1>2, NearSettled
    <3> QED
      BY <3>9, <3>10
  <2> QED
    BY <2>1, <2>2
<1> HIDE DEF t2
<1>6. Near(t3, T, W, R, F)
  <2>1. CASE j.holder \in {Nil, j.entry}
    BY <1>5, <2>1
  <2>2. CASE j.holder \notin {Nil, j.entry}
    <3>1. Lasting(j.holder, T, F)
      BY <2>2 DEF Records
    <3>2. Near(t2, T, W, R \cup {j.holder}, F)
      BY <1>5, NearWeaken
    <3>3. Nearer(restore(t2, j.holder), t2, T, W, R, F, j.holder)
      BY <1>2, <3>1, <3>2, LastingRestored
    <3> QED
      BY <2>2, <3>3 DEF Nearer
  <2> QED
    BY <2>1, <2>2
<1> HIDE DEF t3
<1>7. /\ undoOne(j, m).obj = o1 /\ undoOne(j, m).tr = t3
      /\ undoOne(j, m) = [obj |-> undoOne(j, m).obj, tr |-> undoOne(j, m).tr]
  BY <1>1
<1> QED
  BY <1>3, <1>6, <1>7 DEF Back

-----------------------------------------------------------------------------
(* The closures of one message. *)

\* The instances and the entries that closures b + 1 .. n of J put right.
Writes(J, b, n) == {J[i].ptr : i \in {k \in b + 1 .. n : J[k].kind = "write"}}

Drops(J, b, n) == {J[i].entry : i \in {k \in b + 1 .. n : J[k].kind = "restore"}}

\* Every one of them is about B.
About(J, b, B, F) ==
    \A i \in b + 1 .. Len(J) : Records(J[i], B, F) \/ Restores(J[i], B, F)

\* What a failed call must give back: the memory S of its start, in a heap that may have grown.
Restored(m, S) ==
    /\ m = [obj |-> m.obj, tr |-> m.tr]
    /\ m.obj = S.obj
    /\ Near(m.tr, S.tr, {}, {}, {})

\* From any memory that is B but for the instances of C, closures 1 .. b give S back.
Reaches(J, b, B, C, F, S) == \A m : Back(m, B, C, {}, F) => Restored(rollback(J, b, m), S)

Unwound(J, b, B, C, F, S, n) ==
    \A m : Back(m, B, C \cup Writes(J, b, n), Drops(J, b, n), F) => Restored(rollback(J, n, m), S)

\* The closures of the message lead back to B, and those below them to S.
LEMMA MessageUndone ==
    ASSUME NEW J, Len(J) \in Nat, NEW b \in 0 .. Len(J), NEW B, NEW C, NEW F, NEW S,
           Memory(B), About(J, b, B, F), Reaches(J, b, B, C, F, S),
           NEW m, Back(m, B, C \cup Writes(J, b, Len(J)), Drops(J, b, Len(J)), F)
    PROVE  Restored(rollback(J, Len(J), m), S)
<1> DEFINE P(n) == Unwound(J, b, B, C, F, S, n)
           A == {k \in Nat : b + k <= Len(J) => P(b + k)}
<1>1. 0 \in A
  <2>1. Writes(J, b, b) = {} /\ Drops(J, b, b) = {}
    BY DEF Writes, Drops
  <2>2. P(b)
    BY <2>1 DEF Reaches, Unwound
  <2> QED
    BY <2>2
<1>2. ASSUME NEW k \in Nat, k \in A
      PROVE  k + 1 \in A
  <2> SUFFICES ASSUME b + (k + 1) <= Len(J) PROVE P(b + (k + 1))
    OBVIOUS
  <2>1. PICK n \in Nat : n = b + k
    OBVIOUS
  <2>2. b + (k + 1) = n + 1 /\ n + 1 \in b + 1 .. Len(J) /\ b <= n
    BY <2>1
  <2>3. P(n)
    BY <1>2, <2>1, <2>2
  <2> SUFFICES ASSUME NEW x, Back(x, B, C \cup Writes(J, b, n + 1), Drops(J, b, n + 1), F)
               PROVE  Restored(rollback(J, n + 1, x), S)
    BY <2>2 DEF Unwound
  <2>4. Records(J[n + 1], B, F) \/ Restores(J[n + 1], B, F)
    BY <2>2 DEF About
  <2>5. b + 1 .. n + 1 = (b + 1 .. n) \cup {n + 1}
    BY <2>2
  <2>6. Back(undoOne(J[n + 1], x), B, C \cup Writes(J, b, n), Drops(J, b, n), F)
    <3>1. CASE Records(J[n + 1], B, F)
      <4>1. J[n + 1].kind = "write" /\ "write" # "restore"
        BY <3>1 DEF Records
      <4>2. /\ C \cup Writes(J, b, n + 1) = (C \cup Writes(J, b, n)) \cup {J[n + 1].ptr}
            /\ Drops(J, b, n + 1) = Drops(J, b, n)
        BY <2>5, <4>1 DEF Writes, Drops
      <4> QED
        BY <3>1, <4>2, UndoWrite
    <3>2. CASE Restores(J[n + 1], B, F)
      <4>1. J[n + 1].kind = "restore" /\ "write" # "restore"
        BY <3>2 DEF Restores
      <4>2. /\ Drops(J, b, n + 1) = Drops(J, b, n) \cup {J[n + 1].entry}
            /\ Writes(J, b, n + 1) = Writes(J, b, n)
        BY <2>5, <4>1 DEF Writes, Drops
      <4> QED
        BY <3>2, <4>2, UndoRestore
    <3> QED
      BY <2>4, <3>1, <3>2
  <2>7. rollback(J, n + 1, x) = rollback(J, n, undoOne(J[n + 1], x))
    BY RollbackLast
  <2> QED
    BY <2>3, <2>6, <2>7 DEF Unwound
<1> HIDE DEF A
<1>3. PICK k \in Nat : b + k = Len(J)
  <2>1. Len(J) - b \in Nat /\ b + (Len(J) - b) = Len(J)
    OBVIOUS
  <2> QED
    BY <2>1
<1>4. k \in A
  BY <1>1, <1>2, Induction
<1>5. P(Len(J))
  BY <1>3, <1>4 DEF A
<1> QED
  BY <1>5 DEF Unwound

-----------------------------------------------------------------------------
(* What a completion changes. *)

ByKey == {"deleteByKey", "command"}

Statement ==
    [kind: {"insert", "update", "updateOnly", "softDelete", "delete"} \cup ByKey, ptr: Ptrs \cup {NoPtr},
     key: Nat, ver: Nat, val: Vals, del: BOOLEAN, stamp: Nat, set: SUBSET {"val", "del", "stamp"}, entry: Nat]

\* The statements whose completion gives their instance a new entry.
Registers(w) == w.kind = "insert" \/ (w.kind = "update" /\ w.entry = Nil)

\* Map u is map t with instance p registered under k.
Registered(u, t, p, k) ==
    /\ TrackerType(u, Row) /\ MapOK(u)
    /\ Len(u.entries) = Len(t.entries) + 1
    /\ \A e \in 1 .. Len(t.entries) : u.entries[e] = t.entries[e] /\ u.snap[e] = t.snap[e]
    /\ u.entries[Len(t.entries) + 1] = [ptr |-> p, key |-> k]
    /\ u.byPtr[p] = Len(t.entries) + 1
    /\ \A q \in Ptrs : q # p /\ u.byPtr[q] # t.byPtr[q] => u.byPtr[q] = Nil /\ t.byPtr[q] = t.byKey[k]

\* What register changes.
LEMMA RegisterParts ==
    ASSUME NEW t, TrackerType(t, Row), MapOK(t), NEW p \in Ptrs, NEW k \in Keys, NEW s \in Row
    PROVE  Registered(register(t, p, k, s), t, p, k)
<1> DEFINE u == register(t, p, k, s)
           noOld == forgetIfAny(t, t.byPtr[p])
           noHolder == forgetIfAny(noOld, noOld.byKey[k])
           heap == allocate(noHolder, p, k, s)
           x == [ptr |-> p, key |-> k]
<1>1. u = insertEntry(heap, Len(t.entries) + 1)
  BY DEF register, find
<1>2. TrackerType(u, Row) /\ MapOK(u) /\ u.byPtr[p] = Len(t.entries) + 1
  BY RegisterOK
<1>3. /\ TrackerType(noOld, Row) /\ MapOK(noOld)
      /\ noOld.entries = t.entries /\ noOld.snap = t.snap
      /\ noOld.byPtr[p] = Nil /\ (\A q \in Ptrs : q # p => noOld.byPtr[q] = t.byPtr[q])
      /\ noOld.byKey[k] \in {Nil, t.byKey[k]}
  <2>1. t.byPtr[p] \in 0 .. Len(t.entries) /\ (t.byPtr[p] # Nil => t.entries[t.byPtr[p]].ptr = p)
    BY DEF TrackerType, MapOK
  <2>2. t.byPtr[p] # Nil => t.byPtr[t.entries[t.byPtr[p]].ptr] \in {Nil, t.byPtr[p]}
    BY <2>1
  <2>3. /\ TrackerType(noOld, Row) /\ MapOK(noOld) /\ noOld.entries = t.entries /\ noOld.snap = t.snap
        /\ \A q \in Ptrs : noOld.byPtr[q] =
              IF t.byPtr[p] # Nil /\ q = t.entries[t.byPtr[p]].ptr THEN Nil ELSE t.byPtr[q]
    BY <2>1, <2>2, ForgetIfAnyParts
  <2>4. \A j \in Keys : noOld.byKey[j] \in {Nil, t.byKey[j]}
    BY <2>1, <2>2, ForgetIfAnyOK
  <2> QED
    BY <2>1, <2>3, <2>4
<1> HIDE DEF noOld
<1>4. /\ TrackerType(noHolder, Row) /\ noHolder.entries = t.entries /\ noHolder.snap = t.snap
      /\ \A q \in Ptrs : q # p /\ noHolder.byPtr[q] # t.byPtr[q] =>
            noHolder.byPtr[q] = Nil /\ t.byPtr[q] = t.byKey[k]
  <2>1. /\ noOld.byKey[k] \in 0 .. Len(noOld.entries)
        /\ noOld.byKey[k] # Nil => noOld.byPtr[noOld.entries[noOld.byKey[k]].ptr] = noOld.byKey[k]
    BY <1>3, HolderOK
  <2>2. PICK h : h = noOld.byKey[k]
    OBVIOUS
  <2>3. h # Nil => noOld.byPtr[noOld.entries[h].ptr] \in {Nil, h}
    BY <2>1, <2>2
  <2>4. /\ TrackerType(noHolder, Row) /\ noHolder.entries = noOld.entries /\ noHolder.snap = noOld.snap
        /\ \A q \in Ptrs : noHolder.byPtr[q] =
              IF h # Nil /\ q = noOld.entries[h].ptr THEN Nil ELSE noOld.byPtr[q]
    BY <1>3, <2>1, <2>2, <2>3, ForgetIfAnyParts
  <2> QED
    BY <1>3, <2>1, <2>2, <2>4
<1> HIDE DEF noHolder
<1>5. /\ u.entries = Append(t.entries, x) /\ u.snap = Append(t.snap, s)
      /\ \A q \in Ptrs : q # p => u.byPtr[q] = noHolder.byPtr[q]
  <2>1. heap.entries = Append(t.entries, x) /\ heap.snap = Append(t.snap, s) /\ heap.byPtr = noHolder.byPtr
    BY <1>4 DEF allocate
  <2>2. t.entries \in Seq(Entry) /\ x \in Entry /\ noHolder.byPtr \in [Ptrs -> Nat]
    BY <1>4 DEF TrackerType, Entry
  <2>3. heap.entries[Len(t.entries) + 1].ptr = p
    BY <2>1, <2>2
  <2>4. u.entries = heap.entries /\ u.snap = heap.snap /\ u.byPtr = [heap.byPtr EXCEPT ![p] = Len(t.entries) + 1]
    BY <1>1, <2>3 DEF insertEntry
  <2> QED
    BY <2>1, <2>2, <2>4
<1>6. /\ t.entries \in Seq(Entry) /\ x \in Entry /\ t.snap \in Seq(Row) /\ Len(t.snap) = Len(t.entries)
  BY DEF TrackerType, Entry
<1> HIDE DEF u
<1>7. /\ Len(u.entries) = Len(t.entries) + 1 /\ u.entries[Len(t.entries) + 1] = x
      /\ \A e \in 1 .. Len(t.entries) : u.entries[e] = t.entries[e] /\ u.snap[e] = t.snap[e]
  BY <1>5, <1>6
<1> QED
  BY <1>2, <1>4, <1>5, <1>7 DEF Registered, u, x

\* A prepared statement still fits its instance and the map.
Fit(w, o, t) ==
    /\ w \in Statement
    /\ w.ptr = NoPtr <=> w.kind \in ByKey
    /\ w.ptr # NoPtr => o[w.ptr].key = w.key /\ t.byPtr[w.ptr] = w.entry

\* The result of a statement that passed its judge: it generated a key, or matched a row.
Counted(w, r) ==
    /\ w.kind = "insert" => r.key \in Keys
    /\ w.kind \notin {"insert", "command"} => w.key \in Keys

\* The instances after a completion.
MovesObj(f, o, w, r) ==
    /\ f.obj \in [Ptrs -> Instance]
    /\ \A q \in Ptrs : f.obj[q].val = o[q].val /\ (q # w.ptr => f.obj[q] = o[q])
    /\ w.ptr # NoPtr => f.obj[w.ptr].key = IF w.kind = "insert" THEN r.key ELSE w.key

\* The entry of map t that a completion drops from the map.
Dropped(e, f, t, w) ==
    /\ e \in 1 .. Len(t.entries) /\ t.byPtr[t.entries[e].ptr] = e
    /\ \/ w.kind \in {"delete", "softDelete"} /\ t.entries[e].ptr = w.ptr
       \/ w.kind = "deleteByKey" /\ t.entries[e].key = w.key
       \/ Registers(w) /\ t.entries[e].ptr # w.ptr /\ t.entries[e].key = f.obj[w.ptr].key

\* The map after a completion: at most one instance has a new entry, and what is dropped is journaled.
MovesMap(f, t, w) ==
    /\ TrackerType(f.tr, Row) /\ MapOK(f.tr)
    /\ Len(t.entries) <= Len(f.tr.entries)
    /\ \A e \in 1 .. Len(t.entries) : f.tr.entries[e] = t.entries[e]
    /\ \A e \in 1 .. Len(t.entries) : f.tr.snap[e] # t.snap[e] => w.ptr \in Ptrs /\ t.byPtr[w.ptr] = e
    /\ Registers(w) => /\ f.tr.byPtr[w.ptr] = Len(t.entries) + 1
                       /\ f.tr.entries[Len(t.entries) + 1] = [ptr |-> w.ptr, key |-> f.obj[w.ptr].key]
    /\ \A q \in Ptrs : f.tr.byPtr[q] # t.byPtr[q] =>
          \/ q = w.ptr /\ Registers(w)
          \/ f.tr.byPtr[q] = Nil /\ f.undo = <<t.byPtr[q]>>
    /\ f.undo = <<>> \/ \E e : f.undo = <<e>> /\ Dropped(e, f, t, w)

\* The generated key, or the next version.
LEMMA FinishObj ==
    ASSUME NEW o \in [Ptrs -> Instance], NEW t, NEW w, NEW r, Fit(w, o, t), Counted(w, r)
    PROVE  MovesObj(finish(o, t, w, r), o, w, r)
<1> DEFINE o1 == finish(o, t, w, r).obj
<1>1. /\ w.kind = "insert" => o1 = [o EXCEPT ![w.ptr].key = r.key]
      /\ w.kind \in Updates => o1 = [o EXCEPT ![w.ptr].ver = @ + 1]
      /\ w.kind \notin Updates \cup {"insert"} => o1 = o
  BY DEF finish, Updates
<1>2. PICK p : p = w.ptr
  OBVIOUS
<1>3. /\ p # NoPtr => p \in Ptrs /\ o[p] \in Instance /\ o[p].key = w.key
      /\ p = NoPtr <=> w.kind \in ByKey
      /\ NoPtr \notin Ptrs /\ \A k \in Keys : k \in Nat
  BY <1>2, WritesAssumption, KeysAssumption DEF Fit, Statement
<1> HIDE DEF o1
<1>4. CASE w.kind = "insert"
  <2>1. p \in Ptrs /\ p # NoPtr /\ r.key \in Nat /\ o[p] \in Instance
    BY <1>3, <1>4, WritesAssumption, KeysAssumption DEF ByKey, Counted
  <2>2. PICK i : i = [o[p] EXCEPT !.key = r.key]
    OBVIOUS
  <2>3. i \in Instance /\ i.val = o[p].val /\ i.key = r.key
    BY <2>1, <2>2 DEF Instance
  <2>4. o1 = [o EXCEPT ![p] = i]
    BY <1>1, <1>2, <1>4, <2>2
  <2>5. o1 \in [Ptrs -> Instance] /\ o1[p] = i /\ \A q \in Ptrs : q # p => o1[q] = o[q]
    BY <2>1, <2>3, <2>4
  <2> QED
    BY <1>2, <1>4, <2>3, <2>5 DEF MovesObj, o1
<1>5. CASE w.kind \in Updates
  <2>1. p \in Ptrs /\ p # NoPtr /\ o[p] \in Instance /\ w.kind # "insert"
    BY <1>3, <1>5, WritesAssumption DEF ByKey, Updates
  <2>2. PICK i : i = [o[p] EXCEPT !.ver = o[p].ver + 1]
    OBVIOUS
  <2>3. i \in Instance /\ i.val = o[p].val /\ i.key = o[p].key
    BY <2>1, <2>2 DEF Instance
  <2>4. o1 = [o EXCEPT ![p] = i]
    BY <1>1, <1>2, <1>5, <2>2
  <2>5. o1 \in [Ptrs -> Instance] /\ o1[p] = i /\ \A q \in Ptrs : q # p => o1[q] = o[q]
    BY <2>1, <2>3, <2>4
  <2> QED
    BY <1>2, <1>3, <2>1, <2>3, <2>5 DEF MovesObj, o1
<1>6. CASE w.kind \notin Updates \cup {"insert"}
  BY <1>1, <1>2, <1>3, <1>6 DEF MovesObj, o1
<1> QED
  BY <1>4, <1>5, <1>6

\* A statement that tracks its instance.
LEMMA FinishRegisters ==
    ASSUME NEW o \in [Ptrs -> Instance], NEW t, TrackerType(t, Row), MapOK(t),
           NEW w, NEW r, Fit(w, o, t), Counted(w, r), Registers(w)
    PROVE  MovesMap(finish(o, t, w, r), t, w)
<1> DEFINE f == finish(o, t, w, r)
           p == w.ptr
           k == f.obj[p].key
           s == Snapshot(f.obj, p)
<1>1. f.tr = register(t, p, k, s) /\ f.undo = Displaced(t, p, k)
  BY DEF Registers, finish, trackJournaled, Updates
<1>2. MovesObj(f, o, w, r)
  BY FinishObj
<1> HIDE DEF f
<1>3. p \in Ptrs /\ k \in Keys /\ p # NoPtr
  BY <1>2, WritesAssumption DEF MovesObj, Fit, Statement, ByKey, Registers, Counted
<1>4. s \in Row
  <2>1. f.obj[p] \in Instance
    BY <1>2, <1>3 DEF MovesObj
  <2> QED
    BY <2>1 DEF Snapshot, Instance, Row
<1> HIDE DEF s
<1>5. Registered(f.tr, t, p, k)
  BY <1>1, <1>3, <1>4, RegisterParts
<1> HIDE DEF k
<1>6. find(t, k) = t.byKey[k] /\ t.byKey[k] \in 0 .. Len(t.entries)
      /\ (t.byKey[k] # Nil => t.byPtr[t.entries[t.byKey[k]].ptr] = t.byKey[k] /\ t.entries[t.byKey[k]].key = k)
  BY <1>3, HolderOK DEF find
<1>7. ASSUME NEW q \in Ptrs, f.tr.byPtr[q] # t.byPtr[q], q # p
      PROVE  f.tr.byPtr[q] = Nil /\ f.undo = <<t.byPtr[q]>>
  <2>1. f.tr.byPtr[q] = Nil /\ t.byPtr[q] = t.byKey[k] /\ t.byPtr[q] # Nil
    BY <1>5, <1>7 DEF Registered
  <2>2. t.entries[t.byPtr[q]].ptr = q
    BY <2>1 DEF MapOK
  <2> QED
    BY <1>1, <1>6, <1>7, <2>1, <2>2 DEF Displaced
<1>8. f.undo = <<>> \/ \E e : f.undo = <<e>> /\ Dropped(e, f, t, w)
  <2> SUFFICES ASSUME f.undo # <<>> PROVE \E e : f.undo = <<e>> /\ Dropped(e, f, t, w)
    OBVIOUS
  <2>1. PICK e : e = t.byKey[k]
    OBVIOUS
  <2>2. f.undo = <<e>> /\ e # Nil /\ t.entries[e].ptr # p
    BY <1>1, <1>6, <2>1 DEF Displaced
  <2>3. e \in 1 .. Len(t.entries)
    <3>1. Len(t.entries) \in Nat /\ e \in 0 .. Len(t.entries) /\ e # 0
      BY <1>6, <2>1, <2>2 DEF Nil, TrackerType
    <3> QED
      BY <3>1
  <2>4. Dropped(e, f, t, w)
    BY <1>6, <2>1, <2>2, <2>3 DEF Dropped, k
  <2> QED
    BY <2>2, <2>4
<1> QED
  BY <1>5, <1>7, <1>8 DEF MovesMap, Registered, TrackerType, f, k

\* Map u is map t with another snapshot for entry e.
Resnapped(u, t, e) ==
    /\ TrackerType(u, Row) /\ MapOK(u)
    /\ u.entries = t.entries /\ u.byPtr = t.byPtr
    /\ \A d \in 1 .. Len(t.entries) : d # e => u.snap[d] = t.snap[d]

\* Another snapshot for an entry leaves the indexes alone.
LEMMA SnapshotParts ==
    ASSUME NEW t, TrackerType(t, Row), MapOK(t), NEW e \in 1 .. Len(t.entries), NEW s \in Row
    PROVE  Resnapped([t EXCEPT !.snap[e] = s], t, e)
<1> DEFINE u == [t EXCEPT !.snap[e] = s]
<1>1. /\ t \in [entries: Seq(Entry), snap: Seq(Row), byPtr: [Ptrs -> Nat], byKey: [Keys -> Nat]]
      /\ Len(t.snap) = Len(t.entries) /\ e \in 1 .. Len(t.snap)
  BY DEF TrackerType
<1>3. u = [entries |-> t.entries, snap |-> [t.snap EXCEPT ![e] = s], byPtr |-> t.byPtr, byKey |-> t.byKey]
  <2>1. t = [entries |-> t.entries, snap |-> t.snap, byPtr |-> t.byPtr, byKey |-> t.byKey]
    BY <1>1
  <2>2. PICK x : x = [t.snap EXCEPT ![e] = s]
    OBVIOUS
  <2>3. u = [t EXCEPT !.snap = x]
    BY <2>2
  <2> QED
    BY <2>1, <2>2, <2>3
<1>4. /\ u.entries = t.entries /\ u.byPtr = t.byPtr /\ u.byKey = t.byKey /\ u.snap = [t.snap EXCEPT ![e] = s]
  BY <1>3
<1>5. u.snap \in Seq(Row) /\ Len(u.snap) = Len(t.snap)
  BY <1>1, <1>4
<1>6. \A d \in 1 .. Len(t.snap) : d # e => u.snap[d] = t.snap[d]
  BY <1>1, <1>4
<1>7. u = [entries |-> u.entries, snap |-> u.snap, byPtr |-> u.byPtr, byKey |-> u.byKey]
  BY <1>3, <1>4
<1> HIDE DEF u
<1>8. u \in [entries: Seq(Entry), snap: Seq(Row), byPtr: [Ptrs -> Nat], byKey: [Keys -> Nat]]
  <2>1. u.entries \in Seq(Entry) /\ u.byPtr \in [Ptrs -> Nat] /\ u.byKey \in [Keys -> Nat]
    BY <1>1, <1>4
  <2> QED
    BY <2>1, <1>5, <1>7, Zenon
<1>9. TrackerType(u, Row) /\ MapOK(u)
  BY <1>1, <1>4, <1>5, <1>8 DEF TrackerType, MapOK
<1> QED
  BY <1>1, <1>4, <1>6, <1>9 DEF u, Resnapped

\* A written row or snapshot is one.
LEMMA WrittenOK ==
    ASSUME NEW row \in Row, NEW set, NEW i, i.val \in Vals, i.del \in BOOLEAN, i.stamp \in Nat, NEW ver \in Nat
    PROVE  Written(row, set, i, ver) \in Row
<1>1. row.val \in Vals /\ row.del \in BOOLEAN /\ row.stamp \in Nat
  BY DEF Row
<1> QED
  BY <1>1 DEF Written, Row

\* A statement on a tracked instance moves its snapshot.
LEMMA FinishResnapshots ==
    ASSUME NEW o \in [Ptrs -> Instance], NEW t, TrackerType(t, Row), MapOK(t),
           NEW w, NEW r, Fit(w, o, t), Counted(w, r),
           w.kind = "updateOnly" \/ (w.kind = "update" /\ w.entry # Nil)
    PROVE  MovesMap(finish(o, t, w, r), t, w)
<1> DEFINE f == finish(o, t, w, r)
           p == w.ptr
           e == w.entry
           s == Written(t.snap[e], w.set, f.obj[p], f.obj[p].ver)
<1>1. f.tr = (IF e = Nil THEN t ELSE [t EXCEPT !.snap[e] = s]) /\ f.undo = <<>>
  BY DEF finish, resnapshot, Updates
<1>2. MovesObj(f, o, w, r)
  BY FinishObj
<1> HIDE DEF f
<1>3. p \in Ptrs /\ p # NoPtr /\ t.byPtr[p] = e /\ ~Registers(w)
  BY WritesAssumption DEF Fit, Statement, ByKey, Registers
<1>4. CASE e = Nil
  BY <1>1, <1>3, <1>4 DEF MovesMap, TrackerType, f
<1>5. CASE e # Nil
  <2>1. /\ e \in 1 .. Len(t.entries) /\ t.snap \in Seq(Row) /\ Len(t.snap) = Len(t.entries)
        /\ Len(t.entries) \in Nat
    BY <1>3, <1>5 DEF TrackerType, Nil
  <2>2. t.snap[e] \in Row /\ f.obj[p] \in Instance
    BY <1>2, <1>3, <2>1 DEF MovesObj
  <2>3. s \in Row
    BY <2>2, WrittenOK DEF Instance
  <2> HIDE DEF s
  <2>4. Resnapped(f.tr, t, e)
    BY <1>1, <1>5, <2>1, <2>3, SnapshotParts
  <2> QED
    BY <1>1, <1>3, <2>1, <2>4 DEF MovesMap, Resnapped, f
<1> QED
  BY <1>4, <1>5

\* A delete drops the entry of its instance, or of its key.
LEMMA FinishForgets ==
    ASSUME NEW o \in [Ptrs -> Instance], NEW t, TrackerType(t, Row), MapOK(t),
           NEW w, NEW r, Fit(w, o, t), Counted(w, r),
           w.kind \in {"delete", "softDelete", "deleteByKey"}
    PROVE  MovesMap(finish(o, t, w, r), t, w)
<1> DEFINE f == finish(o, t, w, r)
           e == IF w.kind = "deleteByKey" THEN find(t, w.key) ELSE w.entry
<1>1. f.tr = forgetIfAny(t, e) /\ f.undo = IF e = Nil THEN <<>> ELSE <<e>>
  BY DEF finish, forgetEntryJournaled, forgetKeyJournaled, Updates
<1>3. ~Registers(w)
  BY DEF Registers
<1>4. /\ e \in 0 .. Len(t.entries) /\ Len(t.entries) \in Nat
      /\ e # Nil => t.byPtr[t.entries[e].ptr] = e /\ Dropped(e, f, t, w)
  <2>1. CASE w.kind = "deleteByKey"
    <3>1. w.key \in Keys /\ e = t.byKey[w.key]
      BY <2>1 DEF Counted, find
    <3>2. /\ e \in 0 .. Len(t.entries) /\ Len(t.entries) \in Nat
          /\ e # Nil => t.byPtr[t.entries[e].ptr] = e /\ t.entries[e].key = w.key
      BY <3>1 DEF TrackerType, MapOK
    <3> QED
      BY <2>1, <3>2 DEF Dropped, Nil
  <2>2. CASE w.kind # "deleteByKey"
    <3>1. w.ptr \in Ptrs /\ e = t.byPtr[w.ptr]
      BY <2>2, WritesAssumption DEF Fit, Statement, ByKey
    <3>2. /\ e \in 0 .. Len(t.entries) /\ Len(t.entries) \in Nat
          /\ e # Nil => t.byPtr[t.entries[e].ptr] = e /\ t.entries[e].ptr = w.ptr
      BY <3>1 DEF TrackerType, MapOK
    <3> QED
      BY <2>2, <3>2 DEF Dropped, Nil
  <2> QED
    BY <2>1, <2>2
<1> HIDE DEF e, f
<1>5. /\ TrackerType(f.tr, Row) /\ MapOK(f.tr) /\ f.tr.entries = t.entries /\ f.tr.snap = t.snap
      /\ \A q \in Ptrs : f.tr.byPtr[q] = IF e # Nil /\ q = t.entries[e].ptr THEN Nil ELSE t.byPtr[q]
  BY <1>1, <1>4, ForgetIfAnyParts
<1>6. ASSUME NEW q \in Ptrs, f.tr.byPtr[q] # t.byPtr[q]
      PROVE  f.tr.byPtr[q] = Nil /\ f.undo = <<t.byPtr[q]>>
  BY <1>1, <1>4, <1>5, <1>6
<1>7. f.undo = <<>> \/ \E d : f.undo = <<d>> /\ Dropped(d, f, t, w)
  BY <1>1, <1>4
<1> QED
  BY <1>3, <1>4, <1>5, <1>6, <1>7 DEF MovesMap, f

\* What the completion of a statement changes.
LEMMA FinishMoves ==
    ASSUME NEW o \in [Ptrs -> Instance], NEW t, TrackerType(t, Row), MapOK(t),
           NEW w, NEW r, Fit(w, o, t), Counted(w, r)
    PROVE  MovesObj(finish(o, t, w, r), o, w, r) /\ MovesMap(finish(o, t, w, r), t, w)
<1>1. MovesObj(finish(o, t, w, r), o, w, r)
  BY FinishObj
<1>2. CASE w.kind = "command"
  <2> DEFINE f == finish(o, t, w, r)
  <2>1. f.tr = t /\ f.undo = <<>> /\ ~Registers(w)
    BY <1>2 DEF finish, Updates, Registers
  <2> HIDE DEF f
  <2>2. MovesMap(f, t, w)
    BY <2>1 DEF MovesMap, TrackerType
  <2> QED
    BY <1>1, <2>2 DEF f
<1>3. w.kind \in {"insert", "update", "updateOnly", "softDelete", "delete", "deleteByKey", "command"}
  BY DEF Fit, Statement, ByKey
<1> QED
  BY <1>1, <1>2, <1>3, FinishRegisters, FinishResnapshots, FinishForgets DEF Registers

-----------------------------------------------------------------------------
(* The statements of a message, and the journal with them. *)

Closure ==
    [kind: {"write", "restore"}, ptr: Ptrs \cup {NoPtr}, key: Nat, ver: Nat, del: BOOLEAN, stamp: Nat,
     entry: Nat, snap: Row, holder: Nat]

PtrsOf(ws) == {ws[i].ptr : i \in DOMAIN ws} \ {NoPtr}

Registering(ws) == {ws[i].ptr : i \in {k \in DOMAIN ws : Registers(ws[k])}}

\* The statements of a message are about different instances and different keys.
Independent(ws) ==
    /\ ws \in Seq(Statement)
    /\ \A i \in DOMAIN ws : ws[i].ptr = NoPtr <=> ws[i].kind \in ByKey
    /\ \A i, j \in DOMAIN ws : i # j /\ ws[i].ptr = ws[j].ptr => ws[i].ptr = NoPtr
    /\ \A i, j \in DOMAIN ws :
          i # j /\ ws[i].kind # "command" /\ ws[j].kind # "command" /\ ws[i].key # 0 => ws[i].key # ws[j].key

\* A holder that a closure would put back has a key that a statement of the message is about.
Accounted(J, b, B, ws) ==
    \A i \in b + 1 .. Len(J) : J[i].kind = "write" /\ J[i].holder \notin {Nil, J[i].entry} =>
        /\ B.tr.entries[J[i].holder].key = J[i].key
        /\ \E k \in DOMAIN ws : ws[k].ptr # NoPtr /\ ws[k].key = J[i].key

\* Closures b + 1 .. of the journal J were recorded since the memory was B, a message end, and lead
\* from the memory (o, t) back to it but for the instances of C, whose closures lie below; those lead
\* on to the start S.
Group(J, o, t, ws, d, S, b, B, C) ==
    /\ b \in 0 .. Len(J)
    /\ Memory(B)
    /\ About(J, b, B, Registering(ws))
    /\ Reaches(J, b, B, C, Registering(ws), S)
    /\ Back([obj |-> o, tr |-> t], B, C \cup Writes(J, b, Len(J)), Drops(J, b, Len(J)), Registering(ws))
    /\ C \subseteq PtrsOf(ws) /\ PtrsOf(ws) \subseteq C \cup Writes(J, b, Len(J))
    /\ d = 0 => t = B.tr /\ Drops(J, b, Len(J)) = {}
    /\ \A p \in Ptrs \ PtrsOf(ws) : o[p] = B.obj[p]
    /\ Accounted(J, b, B, ws)

\* The memory after a completion is on its way back to B as well.
LEMMA MovesBack ==
    ASSUME NEW o, NEW t, NEW B, NEW W, NEW R, NEW F, NEW Q, NEW w, NEW r, NEW f,
           Memory(B), Back([obj |-> o, tr |-> t], B, W, R, F),
           w.ptr # NoPtr => w.ptr \in W, Registers(w) => w.ptr \in F, NoPtr \notin Ptrs,
           MovesObj(f, o, w, r), MovesMap(f, t, w),
           \A e : f.undo = <<e>> => t.entries[e].ptr \notin F,
           R \subseteq Q, \A e : f.undo = <<e>> => e \in Q
    PROVE  Back([obj |-> f.obj, tr |-> f.tr], B, W, Q, F)
<1>1. /\ Near(t, B.tr, W, R, F) /\ TrackerType(B.tr, Row) /\ TrackerType(t, Row) /\ MapOK(t)
      /\ Len(B.tr.entries) <= Len(t.entries) /\ Len(B.tr.entries) \in Nat /\ Len(t.entries) \in Nat
      /\ TrackerType(f.tr, Row) /\ MapOK(f.tr) /\ Len(f.tr.entries) \in Nat /\ Len(t.entries) <= Len(f.tr.entries)
  BY DEF Back, Near, Memory, MovesMap, TrackerType
<1>2. /\ f.obj \in [Ptrs -> Instance]
      /\ \A p \in Ptrs : f.obj[p].val = B.obj[p].val /\ (p \notin W => f.obj[p] = B.obj[p])
  BY DEF Back, MovesObj
<1>3. Len(B.tr.entries) <= Len(f.tr.entries)
  BY <1>1
<1>4. \A e \in 1 .. Len(B.tr.entries) : e \in 1 .. Len(t.entries)
  BY <1>1
<1>5. \A e \in 1 .. Len(B.tr.entries) : f.tr.entries[e] = B.tr.entries[e]
  BY <1>1, <1>4 DEF Near, MovesMap
<1>6. ASSUME NEW q \in Ptrs, f.tr.byPtr[q] # B.tr.byPtr[q]
      PROVE  \/ q \in W /\ f.tr.byPtr[q] = Nil
             \/ q \in W /\ q \in F /\ f.tr.byPtr[q] > Len(B.tr.entries)
             \/ f.tr.byPtr[q] = Nil /\ B.tr.byPtr[q] \in Q
  <2>1. CASE f.tr.byPtr[q] = t.byPtr[q]
    BY <1>1, <1>6, <2>1 DEF Near
  <2>2. CASE q = w.ptr /\ Registers(w)
    <3>1. q \in W /\ q \in F /\ f.tr.byPtr[q] = Len(t.entries) + 1
      BY <2>2 DEF MovesMap
    <3> QED
      BY <1>1, <3>1
  <2>3. CASE f.tr.byPtr[q] # t.byPtr[q] /\ f.tr.byPtr[q] = Nil /\ f.undo = <<t.byPtr[q]>>
    <3>1. t.entries[t.byPtr[q]].ptr = q
      BY <1>1, <2>3 DEF MapOK
    <3>2. q \notin F /\ t.byPtr[q] \in Q
      BY <2>3, <3>1
    <3> QED
      BY <1>1, <2>3, <3>2 DEF Near
  <2> QED
    BY <2>1, <2>2, <2>3 DEF MovesMap
<1>7. ASSUME NEW e \in 1 .. Len(B.tr.entries), f.tr.snap[e] # B.tr.snap[e]
      PROVE  \E p \in W : B.tr.byPtr[p] = e
  <2>1. CASE f.tr.snap[e] = t.snap[e]
    BY <1>1, <1>7, <2>1 DEF Near
  <2>2. CASE f.tr.snap[e] # t.snap[e]
    <3>1. w.ptr \in Ptrs /\ t.byPtr[w.ptr] = e
      BY <1>4, <2>2 DEF MovesMap
    <3>2. e # Nil /\ ~(e > Len(B.tr.entries))
      BY <1>1 DEF Nil
    <3>3. B.tr.byPtr[w.ptr] = e
      BY <1>1, <3>1, <3>2 DEF Near
    <3> QED
      BY <3>1, <3>3
  <2> QED
    BY <2>1, <2>2
<1>8. Near(f.tr, B.tr, W, Q, F)
  BY <1>1, <1>3, <1>5, <1>6, <1>7 DEF Near
<1> QED
  BY <1>2, <1>8 DEF Back

\* The seed is a row.
LEMMA SeedOK == Seed \in Row
<1> DEFINE D == {FALSE}
           Z == {0}
<1>1. Seed \in [ver: Nat, val: Vals, del: D, stamp: Z]
  BY WritesAssumption
<1>2. D \subseteq BOOLEAN
  BY Zenon
<1>3. Z \subseteq Nat
  OBVIOUS
<1> HIDE DEF D, Z
<1> QED
  BY <1>1, <1>2, <1>3 DEF Row

\* The journal after a completion.
Grown(K, J, f) ==
    /\ K \in Seq(Closure)
    /\ \/ f.undo = <<>> /\ Len(K) = Len(J)
       \/ \E e : f.undo = <<e>> /\ Len(K) = Len(J) + 1 /\ K[Len(J) + 1] = restoreLater(e)
    /\ \A i \in 1 .. Len(J) : K[i] = J[i]

\* A completion adds at most one closure, for the entry it dropped.
LEMMA JournalGrows ==
    ASSUME NEW J \in Seq(Closure), NEW f, f.undo = <<>> \/ \E e \in Nat : f.undo = <<e>>
    PROVE  Grown(J \o [i \in DOMAIN f.undo |-> restoreLater(f.undo[i])], J, f)
<1>1. CASE f.undo = <<>>
  <2>1. [i \in DOMAIN f.undo |-> restoreLater(f.undo[i])] = <<>>
    BY <1>1
  <2>2. J \o <<>> = J
    OBVIOUS
  <2> QED
    BY <1>1, <2>1, <2>2 DEF Grown
<1>2. CASE \E e \in Nat : f.undo = <<e>>
  <2>1. PICK e \in Nat : f.undo = <<e>>
    BY <1>2
  <2>2. restoreLater(e) \in Closure
    <3> QED
      BY <2>1, SeedOK DEF restoreLater, Closure, Nil
  <2>3. [i \in DOMAIN f.undo |-> restoreLater(f.undo[i])] = <<restoreLater(e)>>
    BY <2>1
  <2>4. PICK x : x = restoreLater(e)
    OBVIOUS
  <2>5. PICK K : K = J \o <<x>>
    OBVIOUS
  <2>6. K \in Seq(Closure) /\ Len(K) = Len(J) + 1 /\ K[Len(J) + 1] = x /\ \A i \in 1 .. Len(J) : K[i] = J[i]
    BY <2>2, <2>4, <2>5
  <2>8. Grown(K, J, f)
    BY <2>1, <2>4, <2>6 DEF Grown
  <2> QED
    BY <2>3, <2>4, <2>5, <2>8
<1> QED
  BY <1>1, <1>2

\* The closures below a group do not change.
LEMMA ReachesPrefix ==
    ASSUME NEW J, NEW K, NEW b \in Nat, \A i \in 1 .. b : J[i] = K[i], NEW B, NEW C, NEW F, NEW S,
           Reaches(J, b, B, C, F, S)
    PROVE  Reaches(K, b, B, C, F, S)
<1>1. ASSUME NEW m PROVE rollback(J, b, m) = rollback(K, b, m)
  BY RollbackPrefix
<1> QED
  BY <1>1 DEF Reaches

\* A completed statement: its group leads back as before.
LEMMA CompleteGroup ==
    ASSUME NEW J \in Seq(Closure), NEW o, NEW t, NEW ws \in Seq(Statement), NEW d \in Nat, NEW S, NEW b, NEW B, NEW C,
           Group(J, o, t, ws, d, S, b, B, C), NEW f, NEW r, d + 1 \in DOMAIN ws,
           MovesObj(f, o, ws[d + 1], r), MovesMap(f, t, ws[d + 1]),
           \A e : f.undo = <<e>> => t.entries[e].ptr \notin Registering(ws),
           NEW K, Grown(K, J, f)
    PROVE  Group(K, f.obj, f.tr, ws, d + 1, S, b, B, C)
<1> DEFINE w == ws[d + 1]
           F == Registering(ws)
           W == C \cup Writes(J, b, Len(J))
           R == Drops(J, b, Len(J))
           Q == Drops(K, b, Len(K))
<1>1. /\ b \in 0 .. Len(J) /\ Len(J) \in Nat /\ b \in Nat /\ Len(K) \in Nat
      /\ \A i \in 1 .. Len(J) : K[i] = J[i]
  BY DEF Group, Grown
<1>2. \/ f.undo = <<>> /\ Len(K) = Len(J)
      \/ \E e : f.undo = <<e>> /\ Len(K) = Len(J) + 1 /\ K[Len(J) + 1] = restoreLater(e)
  BY DEF Grown
<1>3. /\ \A i \in b + 1 .. Len(J) : i \in b + 1 .. Len(K) /\ K[i] = J[i]
      /\ \A i \in b + 1 .. Len(K) : i \in b + 1 .. Len(J) \/
            (i = Len(J) + 1 /\ \E e : f.undo = <<e>> /\ K[i] = restoreLater(e))
  <2>1. CASE f.undo = <<>> /\ Len(K) = Len(J)
    BY <1>1, <2>1
  <2>2. CASE \E e : f.undo = <<e>> /\ Len(K) = Len(J) + 1 /\ K[Len(J) + 1] = restoreLater(e)
    <3>1. PICK e : f.undo = <<e>> /\ Len(K) = Len(J) + 1 /\ K[Len(J) + 1] = restoreLater(e)
      BY <2>2
    <3>2. \A i \in b + 1 .. Len(K) : i \in b + 1 .. Len(J) \/ i = Len(J) + 1
      BY <1>1, <3>1
    <3> QED
      BY <1>1, <3>1, <3>2
  <2> QED
    BY <1>2, <2>1, <2>2
<1>4. \A e : restoreLater(e).kind = "restore" /\ restoreLater(e).entry = e /\ "restore" # "write"
  BY DEF restoreLater
<1>5. Writes(K, b, Len(K)) = Writes(J, b, Len(J))
  BY <1>3, <1>4 DEF Writes
<1>6. R \subseteq Q
  BY <1>3 DEF Drops
<1>7. \A e : f.undo = <<e>> => e \in Q
  <2> SUFFICES ASSUME NEW e, f.undo = <<e>> PROVE e \in Q
    OBVIOUS
  <2>1. PICK x : f.undo = <<x>> /\ Len(K) = Len(J) + 1 /\ K[Len(J) + 1] = restoreLater(x)
    BY <1>2
  <2>2. x = e /\ Len(J) + 1 \in b + 1 .. Len(K)
    BY <1>1, <2>1
  <2> QED
    BY <2>1, <2>2, <1>4 DEF Drops
<1>8. w.ptr # NoPtr => w.ptr \in W
  BY DEF Group, PtrsOf
<1>9. Registers(w) => w.ptr \in F
  BY DEF Registering
<1>10. Memory(B) /\ Back([obj |-> o, tr |-> t], B, W, R, F) /\ NoPtr \notin Ptrs
  BY WritesAssumption DEF Group
<1>11. Back([obj |-> f.obj, tr |-> f.tr], B, W, Q, F)
  <2> HIDE DEF w, F, W, R, Q
  <2>1. MovesObj(f, o, w, r) /\ MovesMap(f, t, w) /\ \A e : f.undo = <<e>> => t.entries[e].ptr \notin F
    BY DEF w, F
  <2> QED
    BY <1>6, <1>7, <1>8, <1>9, <1>10, <2>1, MovesBack
<1>12. ASSUME NEW e, f.undo = <<e>>
       PROVE  Lasting(e, B.tr, F)
  <2>1. PICK q : q = t.entries[e].ptr
    OBVIOUS
  <2>2. e \in 1 .. Len(t.entries) /\ t.byPtr[q] = e
    <3>1. \E x : f.undo = <<x>> /\ Dropped(x, f, t, w)
      BY <1>12 DEF MovesMap
    <3>2. Dropped(e, f, t, w)
      BY <1>12, <3>1
    <3> QED
      BY <2>1, <3>2 DEF Dropped
  <2>3. Near(t, B.tr, W, R, F) /\ TrackerType(t, Row) /\ TrackerType(B.tr, Row)
    BY <1>10 DEF Back, Near, Memory
  <2>4. q \in Ptrs /\ q \notin F
    BY <1>12, <2>1, <2>2, <2>3, EntryOK
  <2>5. e # Nil /\ Len(t.entries) \in Nat
    BY <2>2, <2>3 DEF Nil, TrackerType
  <2>6. B.tr.byPtr[q] = e
    BY <2>2, <2>3, <2>4, <2>5 DEF Near
  <2>7. e \in 1 .. Len(B.tr.entries)
    BY <2>3, <2>4, <2>5, <2>6 DEF TrackerType, Nil
  <2>8. B.tr.entries[e] = t.entries[e]
    BY <2>3, <2>7 DEF Near
  <2> QED
    BY <2>1, <2>4, <2>6, <2>7, <2>8 DEF Lasting
<1>13. About(K, b, B, F)
  <2>1. \A i \in b + 1 .. Len(J) : Records(J[i], B, F) \/ Restores(J[i], B, F)
    BY DEF Group, About
  <2>2. \A e : f.undo = <<e>> => Restores(restoreLater(e), B, F)
    BY <1>4, <1>12 DEF Restores
  <2> HIDE DEF F
  <2> QED
    BY <1>3, <2>1, <2>2 DEF About
<1>14. Reaches(K, b, B, C, F, S)
  <2>1. \A i \in 1 .. b : J[i] = K[i]
    BY <1>1
  <2>2. Reaches(J, b, B, C, F, S)
    BY DEF Group
  <2> HIDE DEF F
  <2> QED
    BY <1>1, <2>1, <2>2, ReachesPrefix
<1>15. Accounted(K, b, B, ws)
  <2>1. Accounted(J, b, B, ws)
    BY DEF Group
  <2> QED
    BY <1>3, <1>4, <2>1 DEF Accounted
<1>16. \A p \in Ptrs \ PtrsOf(ws) : f.obj[p] = B.obj[p]
  <2>1. \A p \in Ptrs \ PtrsOf(ws) : p # w.ptr
    BY WritesAssumption DEF PtrsOf
  <2> QED
    BY <2>1 DEF Group, MovesObj
<1>17. b \in 0 .. Len(K) /\ d + 1 # 0
  BY <1>1, <1>2
<1>18. C \subseteq PtrsOf(ws) /\ PtrsOf(ws) \subseteq W
  BY DEF Group
<1> HIDE DEF F, Q
<1> QED
  BY <1>5, <1>10, <1>11, <1>13, <1>14, <1>15, <1>16, <1>17, <1>18 DEF Group, F, Q

\* What is on its way back to a memory that was on its way back.
LEMMA BackThrough ==
    ASSUME NEW m, NEW P, NEW B, NEW W, NEW R, NEW F, NEW C, NEW D,
           Memory(B), Back(P, B, W, R, F), Back(m, P, C, {}, D), C \subseteq W, C \subseteq Ptrs, D \subseteq F
    PROVE  Back(m, B, W, R, F)
<1>1. /\ Near(P.tr, B.tr, W, R, F) /\ Near(m.tr, P.tr, C, {}, D)
      /\ TrackerType(B.tr, Row) /\ TrackerType(P.tr, Row) /\ TrackerType(m.tr, Row) /\ MapOK(m.tr)
  BY DEF Back, Near, Memory
<1>2. /\ Len(B.tr.entries) \in Nat /\ Len(P.tr.entries) \in Nat /\ Len(m.tr.entries) \in Nat
      /\ Len(B.tr.entries) <= Len(P.tr.entries) /\ Len(P.tr.entries) <= Len(m.tr.entries)
      /\ m.tr.byPtr \in [Ptrs -> Nat]
  BY <1>1 DEF Near, TrackerType
<1>3. \A e \in 1 .. Len(B.tr.entries) : e \in 1 .. Len(P.tr.entries)
  BY <1>2
<1>4. \A e \in 1 .. Len(B.tr.entries) : m.tr.entries[e] = B.tr.entries[e]
  BY <1>1, <1>3 DEF Near
<1>5. ASSUME NEW q \in Ptrs, m.tr.byPtr[q] # B.tr.byPtr[q]
      PROVE  \/ q \in W /\ m.tr.byPtr[q] = Nil
             \/ q \in W /\ q \in F /\ m.tr.byPtr[q] > Len(B.tr.entries)
             \/ m.tr.byPtr[q] = Nil /\ B.tr.byPtr[q] \in R
  <2>1. CASE m.tr.byPtr[q] = P.tr.byPtr[q]
    BY <1>1, <1>5, <2>1 DEF Near
  <2>2. CASE m.tr.byPtr[q] # P.tr.byPtr[q]
    <3>1. \/ q \in C /\ m.tr.byPtr[q] = Nil
          \/ q \in C /\ q \in D /\ m.tr.byPtr[q] > Len(P.tr.entries)
      BY <1>1, <2>2 DEF Near
    <3>2. m.tr.byPtr[q] > Len(P.tr.entries) => m.tr.byPtr[q] > Len(B.tr.entries)
      BY <1>2
    <3> QED
      BY <3>1, <3>2
  <2> QED
    BY <2>1, <2>2
<1>6. ASSUME NEW e \in 1 .. Len(B.tr.entries), m.tr.snap[e] # B.tr.snap[e]
      PROVE  \E p \in W : B.tr.byPtr[p] = e
  <2>1. CASE m.tr.snap[e] = P.tr.snap[e]
    BY <1>1, <1>6, <2>1 DEF Near
  <2>2. CASE m.tr.snap[e] # P.tr.snap[e]
    <3>1. PICK p \in C : P.tr.byPtr[p] = e
      BY <1>1, <1>3, <2>2 DEF Near
    <3>2. e # Nil /\ ~(e > Len(B.tr.entries))
      BY <1>2 DEF Nil
    <3>3. B.tr.byPtr[p] = e
      BY <1>1, <3>1, <3>2 DEF Near
    <3> QED
      BY <3>1, <3>3
  <2> QED
    BY <2>1, <2>2
<1>7. Near(m.tr, B.tr, W, R, F)
  BY <1>1, <1>2, <1>4, <1>5, <1>6 DEF Near
<1>8. /\ m = [obj |-> m.obj, tr |-> m.tr] /\ m.obj \in [Ptrs -> Instance]
      /\ \A p \in Ptrs : m.obj[p].val = B.obj[p].val /\ (p \notin W => m.obj[p] = B.obj[p])
  BY DEF Back
<1> QED
  BY <1>7, <1>8 DEF Back

\* At the end of a message a new group begins, with the closure of a held statement below it.
LEMMA RebaseGroup ==
    ASSUME NEW J \in Seq(Closure), NEW o, NEW t, NEW ws, NEW d, NEW S, NEW b, NEW B, NEW C,
           Group(J, o, t, ws, d, S, b, B, C),
           NEW hs, PtrsOf(hs) \subseteq PtrsOf(ws), PtrsOf(hs) \subseteq Ptrs, Registering(hs) \subseteq Registering(ws)
    PROVE  Group(J, o, t, hs, 0, S, Len(J), [obj |-> o, tr |-> t], PtrsOf(hs))
<1> DEFINE P == [obj |-> o, tr |-> t]
           D == Registering(hs)
           H == PtrsOf(hs)
           W == C \cup Writes(J, b, Len(J))
           R == Drops(J, b, Len(J))
           F == Registering(ws)
<1>1. /\ b \in 0 .. Len(J) /\ Len(J) \in Nat /\ Memory(B) /\ About(J, b, B, F) /\ Reaches(J, b, B, C, F, S)
      /\ Back(P, B, W, R, F) /\ PtrsOf(ws) \subseteq W /\ P.obj = o /\ P.tr = t
  BY DEF Group
<1> HIDE DEF P, F, W, R
<1>2. Memory(P)
  BY <1>1 DEF Memory, Back, Near
<1>3. Len(J) + 1 .. Len(J) = {}
  BY <1>1
<1>4. Writes(J, Len(J), Len(J)) = {} /\ Drops(J, Len(J), Len(J)) = {}
  BY <1>3 DEF Writes, Drops
<1>5. Reaches(J, Len(J), P, H, D, S)
  <2> SUFFICES ASSUME NEW m, Back(m, P, H, {}, D) PROVE Restored(rollback(J, Len(J), m), S)
    BY DEF Reaches
  <2>1. H \subseteq W /\ H \subseteq Ptrs /\ D \subseteq F
    BY <1>1 DEF F
  <2> HIDE DEF H, D
  <2>2. Back(m, B, W, R, F)
    BY <1>1, <2>1, BackThrough
  <2> QED
    BY <1>1, <2>2, MessageUndone DEF W, R
<1>6. Back(P, P, H, {}, D)
  BY <1>1, <1>2 DEF Back, Near, Memory, TrackerType, P
<1>7. About(J, Len(J), P, D) /\ Accounted(J, Len(J), P, hs)
  BY <1>3 DEF About, Accounted
<1>8. H \cup {} = H /\ Len(J) \in 0 .. Len(J)
  BY <1>1
<1> HIDE DEF H, D
<1> QED
  BY <1>1, <1>2, <1>4, <1>5, <1>6, <1>7, <1>8 DEF Group, H, D, P

\* A call begins with nothing to undo.
LEMMA StartGroup ==
    ASSUME NEW o \in [Ptrs -> Instance], NEW t, TrackerType(t, Row), MapOK(t), NEW S, S.obj = o, S.tr = t
    PROVE  Group(<<>>, o, t, <<>>, 0, S, 0, [obj |-> o, tr |-> t], {})
<1> DEFINE P == [obj |-> o, tr |-> t]
<1>0. P.obj = o /\ P.tr = t /\ P = [obj |-> P.obj, tr |-> P.tr] /\ P = [obj |-> o, tr |-> t]
  OBVIOUS
<1> HIDE DEF P
<1>1. Memory(P)
  BY <1>0 DEF Memory
<1>2. PtrsOf(<<>>) = {} /\ Registering(<<>>) = {} /\ 0 + 1 .. Len(<<>>) = {} /\ Len(<<>>) = 0
  BY DEF PtrsOf, Registering
<1>3. Writes(<<>>, 0, 0) = {} /\ Drops(<<>>, 0, 0) = {}
  BY DEF Writes, Drops
<1>4. Back(P, P, {}, {}, {})
  BY <1>0, <1>1 DEF Back, Near, Memory, TrackerType
<1>5. Reaches(<<>>, 0, P, {}, {}, S)
  <2> SUFFICES ASSUME NEW m, Back(m, P, {}, {}, {}) PROVE Restored(m, S)
    BY RollbackNone DEF Reaches
  <2>1. m.obj = P.obj
    BY <1>1 DEF Back, Memory
  <2> QED
    BY <1>0, <2>1 DEF Restored, Back
<1>6. About(<<>>, 0, P, {}) /\ Accounted(<<>>, 0, P, <<>>)
  BY DEF About, Accounted
<1>7. {} \cup Writes(<<>>, 0, Len(<<>>)) = {} /\ Drops(<<>>, 0, Len(<<>>)) = {} /\ 0 \in 0 .. Len(<<>>)
  BY <1>2, <1>3
<1>8. Back([obj |-> o, tr |-> t], P, {} \cup Writes(<<>>, 0, Len(<<>>)), Drops(<<>>, 0, Len(<<>>)), Registering(<<>>))
  BY <1>0, <1>2, <1>4, <1>7
<1>9. Group(<<>>, o, t, <<>>, 0, S, 0, P, {})
  BY <1>0, <1>1, <1>2, <1>5, <1>6, <1>7, <1>8 DEF Group
<1> QED
  BY <1>0, <1>9

\* recordWrite.
Recorded(j, o, t, p) ==
    /\ j.kind = "write" /\ j.ptr = p /\ j.entry = t.byPtr[p]
    /\ j.key = o[p].key /\ j.ver = o[p].ver /\ j.del = o[p].del /\ j.stamp = o[p].stamp
    /\ j.entry # Nil => j.snap = t.snap[j.entry]
    /\ j.holder = find(t, o[p].key)

\* The operation on p with closure j: the memory from o to o2, the message from ws to vs, with the map t.
OperationOf(o, o2, t, ws, vs, p, j) ==
    /\ p \notin PtrsOf(ws) /\ Registering(ws) \subseteq PtrsOf(ws)
    /\ Recorded(j, o, t, p)
    /\ o2 \in [Ptrs -> Instance] /\ \A q \in Ptrs : o2[q].val = o[q].val /\ (q # p => o2[q] = o[q])
    /\ \A k \in DOMAIN ws : k \in DOMAIN vs /\ vs[k] = ws[k]
    /\ PtrsOf(ws) \subseteq PtrsOf(vs) /\ PtrsOf(vs) \subseteq PtrsOf(ws) \cup {p}
    /\ Registering(ws) \subseteq Registering(vs) /\ Registering(vs) \subseteq Registering(ws) \cup {p}
    /\ p \notin PtrsOf(vs) => o2[p] = o[p]
    /\ j.holder \notin {Nil, j.entry} =>
           /\ t.entries[j.holder].ptr \notin Registering(ws)
           /\ \E k \in DOMAIN vs : vs[k].ptr # NoPtr /\ vs[k].key = j.key
    /\ t.byPtr[p] # Nil => \A k \in DOMAIN ws : ws[k].ptr # NoPtr => ws[k].key # t.entries[t.byPtr[p]].key

\* A prepared operation on p: its closure joins the group, and its statement, if there is one, the message.
LEMMA PrepareGroup ==
    ASSUME NEW J \in Seq(Closure), NEW o, NEW t, NEW ws, NEW S, NEW b, NEW B, NEW C,
           Group(J, o, t, ws, 0, S, b, B, C),
           NEW p \in Ptrs, NEW j \in Closure, NEW o2, NEW vs, OperationOf(o, o2, t, ws, vs, p, j)
    PROVE  Group(Append(J, j), o2, t, vs, 0, S, b, B, C)
<1>h. /\ p \notin PtrsOf(ws) /\ Registering(ws) \subseteq PtrsOf(ws)
      /\ Recorded(j, o, t, p)
      /\ o2 \in [Ptrs -> Instance] /\ \A q \in Ptrs : o2[q].val = o[q].val /\ (q # p => o2[q] = o[q])
      /\ \A k \in DOMAIN ws : k \in DOMAIN vs /\ vs[k] = ws[k]
      /\ PtrsOf(ws) \subseteq PtrsOf(vs) /\ PtrsOf(vs) \subseteq PtrsOf(ws) \cup {p}
      /\ Registering(ws) \subseteq Registering(vs) /\ Registering(vs) \subseteq Registering(ws) \cup {p}
      /\ p \notin PtrsOf(vs) => o2[p] = o[p]
      /\ j.holder \notin {Nil, j.entry} =>
             /\ t.entries[j.holder].ptr \notin Registering(ws)
             /\ \E k \in DOMAIN vs : vs[k].ptr # NoPtr /\ vs[k].key = j.key
      /\ t.byPtr[p] # Nil => \A k \in DOMAIN ws : ws[k].ptr # NoPtr => ws[k].key # t.entries[t.byPtr[p]].key
  BY DEF OperationOf
<1> USE <1>h
<1> DEFINE K == Append(J, j)
           F == Registering(ws)
           G == Registering(vs)
           W == C \cup Writes(J, b, Len(J))
           P == [obj |-> o, tr |-> t]
           P2 == [obj |-> o2, tr |-> t]
<1>1. /\ b \in 0 .. Len(J) /\ Len(J) \in Nat /\ Memory(B) /\ About(J, b, B, F) /\ Reaches(J, b, B, C, F, S)
      /\ Back(P, B, W, {}, F) /\ C \subseteq PtrsOf(ws) /\ PtrsOf(ws) \subseteq W /\ Accounted(J, b, B, ws)
      /\ t = B.tr /\ Drops(J, b, Len(J)) = {} /\ \A q \in Ptrs \ PtrsOf(ws) : o[q] = B.obj[q]
  <2>1. t = B.tr /\ Drops(J, b, Len(J)) = {} /\ Back(P, B, W, Drops(J, b, Len(J)), F)
    BY DEF Group
  <2> QED
    BY <2>1 DEF Group
<1>0. \A i \in b + 1 .. Len(J) : J[i].kind # "restore"
  <2> SUFFICES ASSUME NEW i \in b + 1 .. Len(J), J[i].kind = "restore" PROVE FALSE
    OBVIOUS
  <2>1. J[i].entry \in Drops(J, b, Len(J))
    BY DEF Drops
  <2> QED
    BY <1>1, <2>1
<1>2. /\ K \in Seq(Closure) /\ Len(K) = Len(J) + 1 /\ K[Len(J) + 1] = j
      /\ \A i \in 1 .. Len(J) : K[i] = J[i]
  OBVIOUS
<1>3. /\ \A i \in b + 1 .. Len(J) : i \in b + 1 .. Len(K) /\ K[i] = J[i]
      /\ \A i \in b + 1 .. Len(K) : i \in b + 1 .. Len(J) \/ (i = Len(J) + 1 /\ K[i] = j)
      /\ Len(J) + 1 \in b + 1 .. Len(K) /\ b \in 0 .. Len(K)
  BY <1>1, <1>2
<1>4. j.kind = "write" /\ "write" # "restore" /\ j.ptr = p
  BY DEF Recorded
<1> HIDE DEF K
<1>5. Writes(K, b, Len(K)) = Writes(J, b, Len(J)) \cup {p}
  BY <1>2, <1>3, <1>4 DEF Writes
<1>6. Drops(K, b, Len(K)) = {}
  BY <1>0, <1>3, <1>4 DEF Drops
<1>7. C \cup Writes(K, b, Len(K)) = W \cup {p}
  BY <1>5
<1>8. /\ Near(t, B.tr, W, {}, F) /\ TrackerType(t, Row) /\ MapOK(t)
      /\ \A q \in Ptrs : o[q].val = B.obj[q].val /\ (q \notin W => o[q] = B.obj[q])
  BY <1>1 DEF Back, Near
<1> HIDE DEF W, F, G
<1>9. Back(P2, B, W \cup {p}, {}, G)
  <2>1. Near(t, B.tr, W \cup {p}, {}, G)
    BY <1>1, <1>8 DEF Near
  <2>2. \A q \in Ptrs : o2[q].val = B.obj[q].val /\ (q \notin W \cup {p} => o2[q] = B.obj[q])
    BY <1>8
  <2> QED
    BY <2>1, <2>2 DEF Back
<1>10. ASSUME NEW h, Lasting(h, B.tr, F), B.tr.entries[h].ptr # p
       PROVE  Lasting(h, B.tr, G)
  BY <1>10 DEF Lasting, F, G
<1>11. Records(j, B, G)
  <2>1. o[p] = B.obj[p]
    BY <1>1
  <2>2. ASSUME j.holder \notin {Nil, j.entry}
        PROVE  Lasting(j.holder, B.tr, G)
    <3>1. PICK h : h = j.holder
      OBVIOUS
    <3>2. o[p].key \in Keys /\ h = t.byKey[o[p].key] /\ h # Nil
      BY <2>2, <3>1 DEF Recorded, find
    <3>3. h \in 1 .. Len(t.entries) /\ t.byPtr[t.entries[h].ptr] = h
      BY <1>8, <3>2 DEF TrackerType, MapOK, Nil
    <3>4. t.entries[h].ptr # p /\ t.entries[h].ptr \notin F
      BY <2>2, <3>1, <3>3 DEF Recorded, F
    <3> QED
      BY <1>1, <3>1, <3>3, <3>4 DEF Lasting, F, G
  <2> QED
    BY <1>1, <2>1, <2>2 DEF Records, Recorded
<1>12. ASSUME NEW i \in b + 1 .. Len(J)
       PROVE  Records(J[i], B, G)
  <2>1. J[i].kind # "restore"
    BY <1>0
  <2>2. Records(J[i], B, F)
    BY <1>1, <2>1 DEF About, Restores
  <2>3. ASSUME J[i].holder \notin {Nil, J[i].entry}
        PROVE  Lasting(J[i].holder, B.tr, G)
    <3>1. PICK h : h = J[i].holder
      OBVIOUS
    <3>2. Lasting(h, B.tr, F) /\ B.tr.entries[h].key = J[i].key
          /\ \E k \in DOMAIN ws : ws[k].ptr # NoPtr /\ ws[k].key = J[i].key
      BY <1>1, <2>2, <2>3, <3>1 DEF Records, Accounted
    <3>3. B.tr.byPtr[B.tr.entries[h].ptr] = h /\ h # Nil
      BY <3>2 DEF Lasting, Nil
    <3>4. B.tr.entries[h].ptr # p
      BY <1>1, <3>2, <3>3
    <3> QED
      BY <1>10, <3>1, <3>2, <3>4
  <2> QED
    BY <2>2, <2>3 DEF Records
<1>13. About(K, b, B, G)
  BY <1>3, <1>11, <1>12 DEF About
<1>14. Reaches(K, b, B, C, G, S)
  <2>1. b \in Nat /\ \A i \in 1 .. b : J[i] = K[i]
    BY <1>1, <1>2
  <2>2. Reaches(K, b, B, C, F, S)
    BY <1>1, <2>1, ReachesPrefix
  <2>3. ASSUME NEW m, Back(m, B, C, {}, G)
        PROVE  Back(m, B, C, {}, F)
    <3>1. Near(m.tr, B.tr, C, {}, G)
      BY <2>3 DEF Back
    <3>2. \A q \in C : q \in G => q \in F
      BY <1>1 DEF F, G
    <3>3. Near(m.tr, B.tr, C, {}, F)
      BY <3>1, <3>2 DEF Near
    <3> QED
      BY <2>3, <3>3 DEF Back
  <2> QED
    BY <2>2, <2>3 DEF Reaches
<1>15. Accounted(K, b, B, vs)
  <2>1. ASSUME NEW i \in b + 1 .. Len(J), J[i].kind = "write", J[i].holder \notin {Nil, J[i].entry}
        PROVE  /\ B.tr.entries[J[i].holder].key = J[i].key
               /\ \E k \in DOMAIN vs : vs[k].ptr # NoPtr /\ vs[k].key = J[i].key
    BY <1>1, <2>1 DEF Accounted
  <2>2. ASSUME j.holder \notin {Nil, j.entry}
        PROVE  B.tr.entries[j.holder].key = j.key
    <3>1. o[p].key \in Keys /\ j.holder = t.byKey[o[p].key] /\ j.holder # Nil /\ j.key = o[p].key
      BY <2>2 DEF Recorded, find
    <3> QED
      BY <1>1, <1>8, <3>1 DEF MapOK
  <2> QED
    BY <1>3, <2>1, <2>2 DEF Accounted
<1>16. \A q \in Ptrs \ PtrsOf(vs) : o2[q] = B.obj[q]
  BY <1>1
<1>17. C \subseteq PtrsOf(vs) /\ PtrsOf(vs) \subseteq W \cup {p}
  BY <1>1
<1> QED
  BY <1>1, <1>3, <1>6, <1>7, <1>9, <1>13, <1>14, <1>15, <1>16, <1>17 DEF Group, G, K

-----------------------------------------------------------------------------
(* Why the statements of a message do not meet in the map. *)

Batched(s) == "auto" \in s.options

Outcome == [key: Nat, affected: {0, 1}]

\* The map knows an instance by the key it has, and every key is one the database has given out.
KeysKnown(o, t, last) ==
    /\ \A p \in Ptrs : t.byPtr[p] # Nil => t.entries[t.byPtr[p]].key = o[p].key
    /\ \A p \in Ptrs : o[p].key <= last

\* A statement that is not complete still fits its instance and the map.
Fits(s, o, t, ws, d) ==
    \A i \in DOMAIN ws : i > d /\ ws[i].ptr # NoPtr =>
        /\ o[ws[i].ptr].key = ws[i].key
        /\ t.byPtr[ws[i].ptr] = ws[i].entry
        /\ Batched(s) /\ ws[i].kind = "update" /\ ws[i].entry = Nil => find(t, ws[i].key) = Nil

\* No statement and no map knows a generated key before its insert is complete.
Fresh(o, t, ws, rs, d, last, i) ==
    /\ rs[i].key <= last
    /\ \A j \in DOMAIN ws : ws[j].key # rs[i].key
    /\ i <= d => o[ws[i].ptr].key = rs[i].key
    /\ i > d => t.byKey[rs[i].key] = Nil
    /\ \A j \in DOMAIN rs : i # j /\ ws[j].kind = "insert" => rs[i].key # rs[j].key

\* What the statements that ran returned: a generated key is a key, a counted row has one.
Returned(s, o, t, ws, rs, d, last) ==
    \A i \in DOMAIN rs :
        /\ i \in DOMAIN ws
        /\ ws[i].kind = "insert" => rs[i].key \in Keys
        /\ ws[i].kind \notin {"insert", "command"} /\ rs[i].affected > 0 => ws[i].key \in Keys
        /\ Batched(s) /\ ws[i].kind = "insert" => Fresh(o, t, ws, rs, d, last, i)
        /\ i <= d /\ ws[i].kind # "insert" /\ ws[i].ptr # NoPtr => o[ws[i].ptr].key = ws[i].key

\* The keys of the map after a completion.
LEMMA MovedKeys ==
    ASSUME NEW f, NEW t, NEW w, TrackerType(t, Row), MapOK(t), MovesMap(f, t, w),
           NEW k \in Keys, f.tr.byKey[k] # Nil, ~(Registers(w) /\ k = f.obj[w.ptr].key)
    PROVE  t.byKey[k] # Nil
<1>1. PICK e : e = f.tr.byKey[k]
  OBVIOUS
<1>2. PICK q : q = f.tr.entries[e].ptr
  OBVIOUS
<1>3. /\ e # Nil /\ f.tr.byPtr[q] = e /\ f.tr.entries[e].key = k /\ e \in 1 .. Len(f.tr.entries)
      /\ TrackerType(f.tr, Row)
  BY <1>1, <1>2 DEF MovesMap, MapOK, TrackerType, Nil
<1>4. q \in Ptrs
  BY <1>2, <1>3, EntryOK
<1>5. CASE t.byPtr[q] = e
  <2>1. e \in 1 .. Len(t.entries)
    BY <1>3, <1>4, <1>5 DEF TrackerType, Nil
  <2>2. t.entries[e].key = k
    BY <1>3, <2>1 DEF MovesMap
  <2> QED
    BY <1>3, <1>4, <1>5, <2>2 DEF MapOK
<1>6. CASE q = w.ptr /\ Registers(w)
  BY <1>3, <1>6 DEF MovesMap
<1> QED
  BY <1>3, <1>4, <1>5, <1>6 DEF MovesMap

\* A completion keeps every tracked instance under its own key.
LEMMA MovedKnown ==
    ASSUME NEW f, NEW o, NEW t, NEW w, NEW r, NEW last, TrackerType(t, Row), Fit(w, o, t),
           MovesObj(f, o, w, r), MovesMap(f, t, w), KeysKnown(o, t, last), w.kind = "insert" => r.key <= last
    PROVE  KeysKnown(f.obj, f.tr, last)
<1>1. NoPtr \notin Ptrs /\ Len(t.entries) \in Nat
  BY WritesAssumption DEF TrackerType
<1>2. ASSUME NEW p \in Ptrs
      PROVE  f.obj[p].key <= last
  <2>1. CASE p = w.ptr
    BY <1>1, <2>1 DEF MovesObj, KeysKnown, Fit
  <2>2. CASE p # w.ptr
    BY <2>2 DEF MovesObj, KeysKnown
  <2> QED
    BY <2>1, <2>2
<1>3. ASSUME NEW p \in Ptrs, f.tr.byPtr[p] # Nil
      PROVE  f.tr.entries[f.tr.byPtr[p]].key = f.obj[p].key
  <2>1. CASE p = w.ptr /\ Registers(w)
    BY <2>1 DEF MovesMap
  <2>2. CASE ~(p = w.ptr /\ Registers(w))
    <3>1. f.tr.byPtr[p] = t.byPtr[p]
      BY <1>3, <2>2 DEF MovesMap
    <3>2. t.byPtr[p] \in 1 .. Len(t.entries)
      BY <1>1, <1>3, <3>1 DEF TrackerType, Nil
    <3>3. f.tr.entries[f.tr.byPtr[p]].key = o[p].key
      BY <1>3, <3>1, <3>2 DEF MovesMap, KeysKnown
    <3>4. f.obj[p].key = o[p].key
      BY <1>1, <2>2 DEF MovesObj, Fit, Registers
    <3> QED
      BY <3>3, <3>4
  <2> QED
    BY <2>1, <2>2
<1> QED
  BY <1>2, <1>3 DEF KeysKnown

\* The state of a message in which the statement after d is about to be completed with f.
Completable(s, o, t, ws, rs, d, last) ==
    /\ TrackerType(t, Row) /\ MapOK(t)
    /\ Independent(ws) /\ Fits(s, o, t, ws, d) /\ Returned(s, o, t, ws, rs, d, last)
    /\ Batched(s) => KeysKnown(o, t, last)
    /\ ~Batched(s) => Len(ws) <= 1
    /\ d \in Nat /\ d + 1 \in DOMAIN ws /\ d + 1 \in DOMAIN rs /\ rs \in Seq(Outcome)
    /\ Counted(ws[d + 1], rs[d + 1])

\* With batching on, the key an instance is tracked under has no holder.
LEMMA NoneDisplaced ==
    ASSUME NEW s, NEW o, NEW t, NEW ws, NEW rs, NEW d, NEW last, NEW f, NEW e,
           Completable(s, o, t, ws, rs, d, last), MovesObj(f, o, ws[d + 1], rs[d + 1]),
           Batched(s), Registers(ws[d + 1])
    PROVE  ~(e # Nil /\ e \in 1 .. Len(t.entries) /\ t.byPtr[t.entries[e].ptr] = e
               /\ t.entries[e].key = f.obj[ws[d + 1].ptr].key)
<1> SUFFICES ASSUME e # Nil, e \in 1 .. Len(t.entries), t.byPtr[t.entries[e].ptr] = e,
                    t.entries[e].key = f.obj[ws[d + 1].ptr].key
             PROVE  FALSE
  OBVIOUS
<1> DEFINE w == ws[d + 1]
           k == t.entries[e].key
<1>1. TrackerType(t, Row) /\ MapOK(t) /\ d \in Nat /\ d + 1 > d /\ d + 1 \in DOMAIN ws /\ d + 1 \in DOMAIN rs
  BY DEF Completable
<1>2. k \in Keys /\ t.byKey[k] = e
  <2>1. t.entries[e].ptr \in Ptrs /\ k \in Keys
    BY <1>1, EntryOK
  <2> QED
    BY <1>1, <2>1 DEF MapOK
<1>3. w.ptr # NoPtr
  BY <1>1 DEF Completable, Independent, Registers, ByKey
<1>4. CASE w.kind = "insert"
  <2>1. k = rs[d + 1].key
    BY <1>3, <1>4 DEF MovesObj
  <2>2. Fresh(o, t, ws, rs, d, last, d + 1)
    BY <1>1, <1>4 DEF Completable, Returned
  <2> QED
    BY <1>1, <1>2, <2>1, <2>2 DEF Fresh
<1>5. CASE w.kind = "update" /\ w.entry = Nil
  <2>1. k = w.key
    BY <1>3, <1>5 DEF MovesObj
  <2>2. find(t, w.key) = Nil
    BY <1>1, <1>3, <1>5 DEF Completable, Fits
  <2> QED
    BY <1>2, <2>1, <2>2 DEF find
<1> QED
  BY <1>4, <1>5 DEF Registers

\* An entry dropped by a statement is not of an instance that another one registers.
LEMMA DroppedLasts ==
    ASSUME NEW s, NEW o, NEW t, NEW ws, NEW rs, NEW d, NEW last, NEW f, NEW e,
           Completable(s, o, t, ws, rs, d, last), MovesObj(f, o, ws[d + 1], rs[d + 1]),
           Dropped(e, f, t, ws[d + 1])
    PROVE  t.entries[e].ptr \notin Registering(ws)
<1> DEFINE w == ws[d + 1]
           q == t.entries[e].ptr
<1> SUFFICES ASSUME NEW k \in DOMAIN ws, Registers(ws[k]), q = ws[k].ptr
             PROVE  FALSE
  BY DEF Registering
<1>1. /\ TrackerType(t, Row) /\ MapOK(t) /\ d \in Nat /\ d + 1 \in DOMAIN ws /\ d + 1 \in DOMAIN rs
      /\ ws \in Seq(Statement) /\ rs \in Seq(Outcome) /\ Independent(ws)
  BY DEF Completable, Independent
<1>2. e \in 1 .. Len(t.entries) /\ t.byPtr[q] = e /\ e # Nil
  BY DEF Dropped, Nil
<1>3. q \in Ptrs /\ q # NoPtr
  BY <1>1, <1>2, EntryOK, WritesAssumption
<1>4. CASE k = d + 1
  BY <1>2, <1>4 DEF Dropped, Registers, Nil
<1>5. CASE k # d + 1
  <2>1. Batched(s)
    <3> SUFFICES ASSUME ~Batched(s) PROVE FALSE
      OBVIOUS
    <3>1. Len(ws) \in Nat /\ Len(ws) <= 1 /\ k \in 1 .. Len(ws) /\ d + 1 \in 1 .. Len(ws)
      BY <1>1 DEF Completable
    <3> QED
      BY <1>1, <1>5, <3>1
  <2>2. q # w.ptr
    BY <1>1, <1>3, <1>5 DEF Independent
  <2>3. CASE Registers(w)
    BY <1>2, <2>1, <2>2, <2>3, NoneDisplaced DEF Dropped, Registers
  <2>4. CASE w.kind = "deleteByKey" /\ t.entries[e].key = w.key
    <3>1. o[q].key = w.key /\ w.key \in Keys
      BY <1>2, <1>3, <2>1, <2>4 DEF Completable, KeysKnown, Counted
    <3>2. w.key # 0
      BY <3>1, KeysAssumption
    <3>3. ws[k].kind # "command" /\ w.kind # "command"
      BY <2>4 DEF Registers
    <3>4. w.key # ws[k].key
      BY <1>1, <1>5, <3>2, <3>3 DEF Independent
    <3>5. k \in Nat /\ (k <= d \/ k > d)
      BY <1>1
    <3>6. CASE k > d
      BY <1>3, <3>1, <3>4, <3>6 DEF Completable, Fits
    <3>7. CASE k <= d
      <4>1. k \in DOMAIN rs
        BY <1>1, <3>7
      <4>2. CASE ws[k].kind = "insert"
        <5>1. Fresh(o, t, ws, rs, d, last, k)
          BY <2>1, <4>1, <4>2 DEF Completable, Returned
        <5> QED
          BY <1>1, <3>1, <3>7, <5>1 DEF Fresh
      <4>3. CASE ws[k].kind # "insert"
        BY <1>3, <3>1, <3>4, <3>7, <4>1, <4>3 DEF Completable, Returned
      <4> QED
        BY <4>2, <4>3
    <3> QED
      BY <3>5, <3>6, <3>7
  <2> QED
    BY <2>2, <2>3, <2>4 DEF Dropped
<1> QED
  BY <1>4, <1>5

\* Two statements of a message have different instances.
LEMMA OtherPtr ==
    ASSUME NEW ws, Independent(ws), NEW i \in DOMAIN ws, NEW j \in DOMAIN ws, i # j, ws[i].ptr # NoPtr
    PROVE  ws[i].ptr # ws[j].ptr /\ ws[i].ptr \in Ptrs
<1>1. ws[i] \in Statement
  BY DEF Independent
<1> QED
  BY <1>1 DEF Independent, Statement

\* The statements still to be completed fit the memory after a completion.
LEMMA CompleteFits ==
    ASSUME NEW s, NEW o, NEW t, NEW ws, NEW rs, NEW d, NEW last, NEW f,
           Completable(s, o, t, ws, rs, d, last), MovesObj(f, o, ws[d + 1], rs[d + 1]), MovesMap(f, t, ws[d + 1])
    PROVE  Fits(s, f.obj, f.tr, ws, d + 1)
<1> SUFFICES ASSUME NEW i \in DOMAIN ws, i > d + 1, ws[i].ptr # NoPtr
             PROVE  /\ f.obj[ws[i].ptr].key = ws[i].key
                    /\ f.tr.byPtr[ws[i].ptr] = ws[i].entry
                    /\ Batched(s) /\ ws[i].kind = "update" /\ ws[i].entry = Nil => find(f.tr, ws[i].key) = Nil
  BY DEF Fits
<1> DEFINE w == ws[d + 1]
           p == ws[i].ptr
<1>1. /\ TrackerType(t, Row) /\ MapOK(t) /\ d \in Nat /\ d + 1 \in DOMAIN ws /\ d + 1 \in DOMAIN rs
      /\ ws \in Seq(Statement) /\ rs \in Seq(Outcome) /\ Independent(ws) /\ i \in Nat
  BY DEF Completable, Independent
<1>2. i # d + 1 /\ i > d
  BY <1>1
<1>3. Batched(s)
  <2> SUFFICES ASSUME ~Batched(s) PROVE FALSE
    OBVIOUS
  <2>1. Len(ws) \in Nat /\ Len(ws) <= 1 /\ i \in 1 .. Len(ws)
    BY <1>1 DEF Completable
  <2> QED
    BY <1>1, <2>1
<1>4. p # w.ptr /\ p \in Ptrs
  BY <1>1, <1>2, OtherPtr
<1>5. o[p].key = ws[i].key /\ t.byPtr[p] = ws[i].entry
      /\ (ws[i].kind = "update" /\ ws[i].entry = Nil => find(t, ws[i].key) = Nil)
  BY <1>2, <1>3 DEF Completable, Fits
<1>6. f.obj[p] = o[p]
  BY <1>4 DEF MovesObj
<1>7. ws[i].kind # "command"
  BY <1>1 DEF Independent, ByKey
<1>8. f.tr.byPtr[p] = t.byPtr[p]
  <2> SUFFICES ASSUME f.tr.byPtr[p] # t.byPtr[p] PROVE FALSE
    OBVIOUS
  <2>1. f.tr.byPtr[p] = Nil /\ f.undo = <<t.byPtr[p]>>
    BY <1>4 DEF MovesMap
  <2>2. PICK e : e = t.byPtr[p]
    OBVIOUS
  <2>3. e # Nil /\ t.entries[e].ptr = p /\ t.entries[e].key = o[p].key
    BY <1>1, <1>3, <1>4, <2>1, <2>2 DEF MapOK, Completable, KeysKnown
  <2>4. Dropped(e, f, t, w)
    <3>1. \E x : f.undo = <<x>> /\ Dropped(x, f, t, w)
      BY <2>1 DEF MovesMap
    <3> QED
      BY <2>1, <2>2, <3>1
  <2>5. CASE Registers(w)
    BY <1>3, <2>3, <2>4, <2>5, NoneDisplaced DEF Dropped, Registers
  <2>6. CASE w.kind = "deleteByKey" /\ t.entries[e].key = w.key
    <3>1. w.key \in Keys /\ w.key # 0
      BY <2>6, KeysAssumption DEF Completable, Counted
    <3> QED
      BY <1>1, <1>2, <1>5, <1>7, <2>3, <2>6, <3>1 DEF Independent
  <2> QED
    BY <1>4, <2>3, <2>4, <2>5, <2>6 DEF Dropped
<1>9. ASSUME ws[i].kind = "update", ws[i].entry = Nil
      PROVE  find(f.tr, ws[i].key) = Nil
  <2> SUFFICES ASSUME ws[i].key \in Keys, f.tr.byKey[ws[i].key] # Nil PROVE FALSE
    BY DEF find
  <2>1. t.byKey[ws[i].key] = Nil
    BY <1>5, <1>9 DEF find
  <2>2. Registers(w) /\ ws[i].key = f.obj[w.ptr].key
    BY <1>1, <2>1, MovedKeys
  <2>3. w.ptr # NoPtr /\ ws[i].key # 0
    BY <1>1, <2>2, KeysAssumption DEF Independent, Registers, ByKey
  <2>4. CASE w.kind = "insert"
    <3>1. Fresh(o, t, ws, rs, d, last, d + 1)
      BY <1>1, <1>3, <2>4 DEF Completable, Returned
    <3> QED
      BY <2>2, <2>3, <2>4, <3>1 DEF MovesObj, Fresh
  <2>5. CASE w.kind = "update"
    BY <1>1, <1>2, <1>7, <2>2, <2>3, <2>5 DEF MovesObj, Independent
  <2> QED
    BY <2>2, <2>4, <2>5 DEF Registers
<1> QED
  BY <1>5, <1>6, <1>8, <1>9

\* What the statements returned is still true after a completion.
LEMMA CompleteReturned ==
    ASSUME NEW s, NEW o, NEW t, NEW ws, NEW rs, NEW d, NEW last, NEW f,
           Completable(s, o, t, ws, rs, d, last), MovesObj(f, o, ws[d + 1], rs[d + 1]), MovesMap(f, t, ws[d + 1])
    PROVE  Returned(s, f.obj, f.tr, ws, rs, d + 1, last)
<1> DEFINE w == ws[d + 1]
<1>1. /\ TrackerType(t, Row) /\ MapOK(t) /\ d \in Nat /\ d + 1 \in DOMAIN ws /\ d + 1 \in DOMAIN rs
      /\ ws \in Seq(Statement) /\ rs \in Seq(Outcome) /\ Independent(ws)
      /\ Returned(s, o, t, ws, rs, d, last)
  BY DEF Completable, Independent
<1>2. ASSUME NEW i \in DOMAIN rs, ws[i].ptr # NoPtr, i <= d + 1
      PROVE  f.obj[ws[i].ptr].key = IF ws[i].kind = "insert"
                                    THEN IF i <= d THEN o[ws[i].ptr].key ELSE rs[i].key
                                    ELSE ws[i].key
  <2>1. i \in DOMAIN ws /\ i \in Nat
    BY <1>1 DEF Returned
  <2>2. CASE i = d + 1
    BY <1>1, <1>2, <2>2 DEF MovesObj
  <2>3. CASE i # d + 1
    <3>1. i <= d
      BY <1>1, <1>2, <2>1, <2>3
    <3>2. ws[i].ptr # w.ptr /\ ws[i].ptr \in Ptrs
      BY <1>1, <1>2, <2>1, <2>3, OtherPtr
    <3>3. f.obj[ws[i].ptr] = o[ws[i].ptr]
      BY <3>2 DEF MovesObj
    <3> QED
      BY <1>1, <1>2, <3>1, <3>3 DEF Returned
  <2> QED
    BY <2>2, <2>3
<1>3. ASSUME NEW i \in DOMAIN rs, Batched(s), ws[i].kind = "insert"
      PROVE  Fresh(f.obj, f.tr, ws, rs, d + 1, last, i)
  <2>1. Fresh(o, t, ws, rs, d, last, i) /\ i \in DOMAIN ws /\ i \in Nat /\ rs[i].key \in Keys
    BY <1>1, <1>3 DEF Returned
  <2>2. ws[i].ptr # NoPtr
    BY <1>1, <1>3, <2>1 DEF Independent, ByKey
  <2>3. i <= d + 1 => f.obj[ws[i].ptr].key = rs[i].key
    BY <1>2, <1>3, <2>1, <2>2 DEF Fresh
  <2>4. ASSUME i > d + 1, f.tr.byKey[rs[i].key] # Nil
        PROVE  FALSE
    <3>1. i # d + 1 /\ i > d
      BY <1>1, <2>1, <2>4
    <3>2. t.byKey[rs[i].key] = Nil
      BY <2>1, <3>1 DEF Fresh
    <3>3. Registers(w) /\ rs[i].key = f.obj[w.ptr].key
      BY <1>1, <2>1, <2>4, <3>2, MovedKeys
    <3>4. w.ptr # NoPtr
      BY <1>1, <3>3 DEF Independent, Registers, ByKey
    <3>5. CASE w.kind = "insert"
      BY <1>1, <2>1, <3>1, <3>3, <3>4, <3>5 DEF MovesObj, Fresh
    <3>6. CASE w.kind # "insert"
      BY <1>1, <2>1, <3>3, <3>4, <3>6 DEF MovesObj, Fresh
    <3> QED
      BY <3>5, <3>6
  <2> QED
    BY <2>1, <2>3, <2>4 DEF Fresh
<1>4. ASSUME NEW i \in DOMAIN rs, i <= d + 1, ws[i].kind # "insert", ws[i].ptr # NoPtr
      PROVE  f.obj[ws[i].ptr].key = ws[i].key
  BY <1>2, <1>4
<1> QED
  BY <1>1, <1>3, <1>4 DEF Returned

-----------------------------------------------------------------------------
(* The three steps of a statement. *)

Rows == [Keys -> Row \cup {NoRow}]

\* Every stored key is one the database has given out.
Stored(tb, last) == \A k \in Keys : tb[k] # NoRow => k <= last

Executed(r, tb, last, w) ==
    /\ r.table \in Rows
    /\ r.lastKey \in Nat /\ last <= r.lastKey
    /\ r.key \in Nat /\ r.affected \in {0, 1}
    /\ w.kind = "insert" => r.key \in Keys /\ r.key <= r.lastKey /\ (~KeyReuse => r.key = last + 1)
    /\ w.kind \notin {"insert", "command"} /\ r.affected > 0 => w.key \in Keys
    /\ Stored(tb, last) => Stored(r.table, r.lastKey)

\* The larger of two numbers.
LEMMA MaxOfTwo ==
    ASSUME NEW a \in Nat, NEW b \in Nat
    PROVE  Max({a, b}) \in Nat /\ a <= Max({a, b}) /\ b <= Max({a, b})
<1>1. \E x \in {a, b} : \A y \in {a, b} : x >= y
  OBVIOUS
<1>2. Max({a, b}) \in {a, b} /\ \A y \in {a, b} : Max({a, b}) >= y
  BY <1>1 DEF Max
<1> QED
  BY <1>2

\* What the database does with a statement it can run.
LEMMA ExecuteOK ==
    ASSUME NEW tb \in Rows, NEW last \in Nat, NEW w \in Statement, Executable(tb, last, w)
    PROVE  Executed(execute(tb, last, w), tb, last, w)
<1> DEFINE r == execute(tb, last, w)
           key == NextKey(tb, last)
<1>1. \A k \in Keys : k \in Nat /\ k # 0
  BY KeysAssumption
<1>2. key \in Keys \cup {0} /\ key \in Nat /\ (key # 0 /\ ~KeyReuse => key = last + 1)
  BY <1>1 DEF NextKey
<1>3. /\ w.key \in Nat /\ w.ver \in Nat /\ w.val \in Vals /\ w.del \in BOOLEAN /\ w.stamp \in Nat
  BY DEF Statement
<1>4. CASE w.kind = "insert"
  <2>1. PICK x : x = [ver |-> w.ver, val |-> w.val, del |-> w.del, stamp |-> w.stamp]
    OBVIOUS
  <2>2. x \in Row
    BY <1>3, <2>1 DEF Row
  <2>3. key \in Keys
    BY <1>2, <1>4 DEF Executable
  <2>4. PICK m : m = Max({last, key})
    OBVIOUS
  <2>5. m \in Nat /\ last <= m /\ key <= m
    BY <1>2, <2>4, MaxOfTwo
  <2>6. /\ r.table = [tb EXCEPT ![key] = [ver |-> w.ver, val |-> w.val, del |-> w.del, stamp |-> w.stamp]]
        /\ r.lastKey = Max({last, key}) /\ r.key = key /\ r.affected = 1
    BY <1>4 DEF execute, Updates
  <2> HIDE DEF r, key
  <2>7. r.table = [tb EXCEPT ![key] = x] /\ r.lastKey = m /\ r.key = key /\ r.affected = 1
    BY <2>1, <2>4, <2>6
  <2>8. r.table \in Rows
    BY <2>2, <2>3, <2>7 DEF Rows
  <2>9. Stored(tb, last) => Stored(r.table, r.lastKey)
    <3> SUFFICES ASSUME Stored(tb, last), NEW k \in Keys, r.table[k] # NoRow PROVE k <= m
      BY <2>7 DEF Stored
    <3>1. CASE k = key
      BY <2>5, <3>1
    <3>2. CASE k # key
      <4>1. tb[k] # NoRow
        BY <2>7, <3>2 DEF Rows
      <4> QED
        BY <1>1, <2>5, <4>1 DEF Stored
    <3> QED
      BY <3>1, <3>2
  <2>10. r.key \in Keys /\ r.key <= r.lastKey /\ (~KeyReuse => r.key = last + 1)
    BY <1>1, <1>2, <2>3, <2>5, <2>7
  <2>11. r.lastKey \in Nat /\ last <= r.lastKey /\ r.key \in Nat /\ r.affected \in {0, 1}
    BY <1>2, <2>5, <2>7
  <2>12. Executed(r, tb, last, w)
    BY <1>4, <2>8, <2>9, <2>10, <2>11 DEF Executed
  <2> QED
    BY <2>12 DEF r
<1>5. CASE w.kind # "insert"
  <2>1. PICK hit : hit = Matches(tb, w)
    OBVIOUS
  <2>2. PICK x \in Row \cup {NoRow} : r.table = IF Matches(tb, w) THEN [tb EXCEPT ![w.key] = x] ELSE tb
    <3>1. CASE w.kind \in Updates /\ Matches(tb, w)
      <4>1. tb[w.key] \in Row
        BY <3>1 DEF Matches, Rows
      <4>2. w.ver + 1 \in Nat
        BY <1>3
      <4>3. Written(tb[w.key], w.set, w, w.ver + 1) \in Row
        BY <1>3, <4>1, <4>2, WrittenOK
      <4>4. r.table = [tb EXCEPT ![w.key] = Written(tb[w.key], w.set, w, w.ver + 1)]
        BY <1>5, <3>1 DEF execute
      <4> QED
        BY <3>1, <4>3, <4>4
    <3>2. CASE w.kind \notin Updates /\ Matches(tb, w)
      <4>1. r.table = [tb EXCEPT ![w.key] = NoRow]
        BY <1>5, <3>2 DEF execute
      <4> QED
        BY <3>2, <4>1
    <3>3. CASE ~Matches(tb, w)
      <4>1. r.table = tb
        BY <1>5, <3>3 DEF execute
      <4> QED
        BY <3>3, <4>1
    <3> QED
      BY <3>1, <3>2, <3>3
  <2>3. r.lastKey = last /\ r.key = 0 /\ r.affected = (IF Matches(tb, w) THEN 1 ELSE 0)
    BY <1>5 DEF execute
  <2> HIDE DEF r
  <2>4. Matches(tb, w) => w.key \in Keys /\ tb[w.key] # NoRow
    BY DEF Matches
  <2>5. r.table \in Rows /\ (Stored(tb, last) => Stored(r.table, r.lastKey))
    BY <2>2, <2>3, <2>4 DEF Rows, Stored
  <2>6. r.affected \in {0, 1} /\ (r.affected > 0 => w.key \in Keys)
    BY <2>3, <2>4
  <2> QED
    BY <1>5, <2>3, <2>5, <2>6 DEF Executed, r
<1> QED
  BY <1>4, <1>5

\* The instances after a prepare step on p.
Stamped(o2, o, p) ==
    /\ o2 \in [Ptrs -> Instance]
    /\ \A q \in Ptrs : o2[q].val = o[q].val /\ o2[q].key = o[q].key /\ (q # p => o2[q] = o[q])

\* The statement of an operation on an instance.
Prepares(w, o, t, p) ==
    /\ w.ptr = p /\ w.key = o[p].key /\ w.entry = t.byPtr[p]
    /\ w.kind = "none" \/ (w \in Statement /\ w.kind \notin ByKey)
    /\ w.kind = "none" => find(t, o[p].key) = t.byPtr[p] /\ Marked(o, w) = o
    /\ w.kind = "update" /\ w.entry = Nil => find(t, o[p].key) = Nil
    /\ Stamped(Marked(o, w), o, p)

\* What a prepare step leaves on its instance.
LEMMA MarkedOK ==
    ASSUME NEW o \in [Ptrs -> Instance], steps \in Nat, NEW w, w.ptr \in Ptrs
    PROVE  Stamped(Marked(o, w), o, w.ptr) /\ Prepared(w.kind, o[w.ptr]) \in Instance
<1> DEFINE p == w.ptr
<1>1. PICK i : i = Prepared(w.kind, o[p])
  OBVIOUS
<1>2. PICK a : a = IF Hooks /\ w.kind \in Updates THEN [o[p] EXCEPT !.stamp = steps] ELSE o[p]
  OBVIOUS
<1>3. o[p] \in Instance
  OBVIOUS
<1>4. a \in Instance /\ a.val = o[p].val /\ a.key = o[p].key
  BY <1>2, <1>3 DEF Instance
<1>5. i = IF w.kind = "softDelete" THEN [a EXCEPT !.del = TRUE] ELSE a
  BY <1>1, <1>2 DEF Prepared, now
<1>6. i \in Instance /\ i.val = o[p].val /\ i.key = o[p].key
  BY <1>4, <1>5 DEF Instance
<1>7. Marked(o, w) = [o EXCEPT ![p] = i]
  BY <1>1, WritesAssumption DEF Marked
<1> QED
  BY <1>1, <1>6, <1>7 DEF Stamped

\* A bound statement.
LEMMA BoundOK ==
    ASSUME NEW o \in [Ptrs -> Instance], NEW t, TrackerType(t, Row), steps \in Nat, NEW p \in Ptrs,
           NEW kind \in {"insert", "update", "updateOnly", "softDelete", "delete"}, NEW set \in SUBSET Columns,
           kind = "update" /\ t.byPtr[p] = Nil => find(t, o[p].key) = Nil
    PROVE  Prepares(Bound(kind, set, o, t, p), o, t, p)
<1> DEFINE w == Bound(kind, set, o, t, p)
<1>1. PICK i : i = Prepared(kind, o[p])
  OBVIOUS
<1>2. w = [kind |-> kind, ptr |-> p, key |-> i.key, ver |-> i.ver, val |-> i.val, del |-> i.del,
           stamp |-> i.stamp, set |-> stampSet(set), entry |-> t.byPtr[p]]
  BY <1>1 DEF Bound
<1>3. w.ptr = p /\ w.kind = kind /\ w.entry = t.byPtr[p] /\ w.key = i.key
  BY <1>2
<1> HIDE DEF w
<1>4. Stamped(Marked(o, w), o, p) /\ i \in Instance
  BY <1>1, <1>3, MarkedOK
<1>5. Marked(o, w) = [o EXCEPT ![p] = i]
  BY <1>1, <1>3, WritesAssumption DEF Marked
<1>6. i.key = o[p].key
  BY <1>4, <1>5 DEF Stamped
<1>7. i.key \in Nat /\ i.ver \in Nat /\ i.val \in Vals /\ i.del \in BOOLEAN /\ i.stamp \in Nat
  BY <1>4 DEF Instance
<1>8. stampSet(set) \in SUBSET {"val", "del", "stamp"} /\ t.byPtr[p] \in Nat
  BY DEF stampSet, Columns, TrackerType
<1>9. kind \in {"insert", "update", "updateOnly", "softDelete", "delete"} \cup ByKey /\ p \in Ptrs \cup {NoPtr}
  OBVIOUS
<1>10. w \in Statement
  BY <1>2, <1>7, <1>8, <1>9 DEF Statement
<1>11. kind \notin ByKey /\ kind # "none"
  BY DEF ByKey
<1> QED
  BY <1>3, <1>4, <1>6, <1>10, <1>11 DEF w, Prepares

\* The prepare step of an operation on an instance, when it is not refused.
LEMMA PrepareOK ==
    ASSUME NEW o \in [Ptrs -> Instance], NEW t, TrackerType(t, Row), MapOK(t), steps \in Nat,
           NEW op \in Operation, op.ptr # NoPtr, prepare(o, t, op).kind # "refused"
    PROVE  Prepares(prepare(o, t, op), o, t, op.ptr) /\ op.ptr \in Ptrs
<1> DEFINE p == op.ptr
           w == prepare(o, t, op)
<1>1. op.kind \in {"insert", "update", "updateOnly", "delete"} /\ p \in Ptrs
  BY DEF Operation
<1>2. \A kind, set : Bound(kind, set, o, t, p).kind = kind
  BY DEF Bound
<1>4. CASE op.kind = "insert"
  <2>1. w = Bound("insert", Columns, o, t, p)
    BY <1>4 DEF prepare, prepareInsert
  <2>2. Prepares(Bound("insert", Columns, o, t, p), o, t, p)
    BY <1>1, BoundOK
  <2> QED
    BY <1>1, <2>1, <2>2
<1>5. ASSUME UOW002(o, t, p), op.kind # "insert"
      PROVE  FALSE
  BY <1>1, <1>2, <1>5 DEF prepare, prepareUpdate, prepareUpdateOnly, prepareDeleteEntity, RefusedFor
<1>6. CASE op.kind = "update"
  <2>1. ~UOW002(o, t, p)
    BY <1>5, <1>6
  <2>2. w = IF t.byPtr[p] # Nil THEN prepareTrackedUpdate(o, t, p) ELSE Bound("update", Columns, o, t, p)
    BY <1>6, <2>1 DEF prepare, prepareUpdate
  <2>3. CASE t.byPtr[p] = Nil
    <3>1. find(t, o[p].key) = Nil
      BY <2>1, <2>3 DEF UOW002
    <3>2. Prepares(Bound("update", Columns, o, t, p), o, t, p)
      BY <1>1, <3>1, BoundOK
    <3> QED
      BY <1>1, <2>2, <2>3, <3>2
  <2>4. CASE t.byPtr[p] # Nil
    <3>1. PICK changed : changed = {c \in Columns : t.snap[t.byPtr[p]][c] # o[p][c]}
      OBVIOUS
    <3>2. w = Bound(IF changed = {} THEN "none" ELSE "update", changed, o, t, p) /\ changed \in SUBSET Columns
      BY <2>2, <2>4, <3>1 DEF prepareTrackedUpdate
    <3>3. CASE changed # {}
      <4>1. Prepares(Bound("update", changed, o, t, p), o, t, p)
        BY <1>1, <2>4, <3>2, BoundOK
      <4> QED
        BY <1>1, <3>2, <3>3, <4>1
    <3>4. CASE changed = {}
      <4>1. w = Bound("none", changed, o, t, p)
        BY <3>2, <3>4
      <4>2. Prepared("none", o[p]) = o[p]
        BY DEF Prepared, Updates
      <4>3. w.kind = "none" /\ w.ptr = p /\ w.key = o[p].key /\ w.entry = t.byPtr[p]
        BY <4>1, <4>2 DEF Bound
      <4> HIDE DEF w
      <4>4. Marked(o, w) = o
        BY <1>1, <4>2, <4>3, WritesAssumption DEF Marked
      <4>5. Stamped(o, o, p)
        BY DEF Stamped
      <4>6. t.entries[t.byPtr[p]].key = o[p].key /\ t.byKey[o[p].key] = t.byPtr[p]
        BY <1>1, <2>1, <2>4 DEF UOW002, MapOK
      <4>7. o[p].key \in Keys
        <5>1. t.byPtr[p] \in 1 .. Len(t.entries)
          BY <1>1, <2>4 DEF TrackerType, Nil
        <5> QED
          BY <4>6, <5>1, EntryOK
      <4>8. find(t, o[p].key) = t.byPtr[p]
        BY <4>6, <4>7 DEF find
      <4> QED
        BY <1>1, <4>3, <4>4, <4>5, <4>8 DEF Prepares, w
    <3> QED
      BY <3>3, <3>4
  <2> QED
    BY <2>3, <2>4
<1>7. CASE op.kind = "updateOnly"
  <2>1. w = Bound("updateOnly", {"val"}, o, t, p)
    BY <1>5, <1>7 DEF prepare, prepareUpdateOnly
  <2>2. {"val"} \in SUBSET Columns
    BY DEF Columns
  <2>3. Prepares(Bound("updateOnly", {"val"}, o, t, p), o, t, p)
    BY <1>1, <2>2, BoundOK
  <2> QED
    BY <1>1, <2>1, <2>3
<1>8. CASE op.kind = "delete"
  <2>1. w = IF Hooks THEN Bound("softDelete", {"del"}, o, t, p) ELSE Bound("delete", {}, o, t, p)
    BY <1>5, <1>8 DEF prepare, prepareDeleteEntity, prepareSoftDeleteEntity
  <2>2. {"del"} \in SUBSET Columns /\ {} \in SUBSET Columns
    BY DEF Columns
  <2>3. Prepares(Bound("softDelete", {"del"}, o, t, p), o, t, p)
    BY <1>1, <2>2, BoundOK
  <2>4. Prepares(Bound("delete", {}, o, t, p), o, t, p)
    BY <1>1, <2>2, BoundOK
  <2> QED
    BY <1>1, <2>1, <2>3, <2>4
<1> QED
  BY <1>1, <1>4, <1>6, <1>7, <1>8

\* The prepare step of an operation on a key.
LEMMA PrepareKeyed ==
    ASSUME NEW o, NEW t, NEW op \in Operation, op.ptr = NoPtr, prepare(o, t, op).kind # "refused"
    PROVE  LET w == prepare(o, t, op) IN
           /\ w \in Statement /\ w.kind \in ByKey /\ w.ptr = NoPtr /\ w.key = op.key /\ w.kind = op.kind
           /\ Marked(o, w) = o
<1> DEFINE w == prepare(o, t, op)
<1>1. op.kind \in ByKey /\ op.key \in Keys
  BY WritesAssumption DEF Operation, ByKey
<1>2. w = Keyed(op.kind, op.key)
  <2>1. Keyed("refused", op.key).kind = "refused"
    BY DEF Keyed
  <2> QED
    BY <1>1, <2>1 DEF ByKey, prepare, prepareDeleteByKey, BatchExecute
<1>3. op.key \in Nat /\ Seed.val \in Vals /\ Nil \in Nat /\ {} \in SUBSET {"val", "del", "stamp"}
      /\ FALSE \in BOOLEAN /\ NoPtr \in Ptrs \cup {NoPtr}
  BY <1>1, KeysAssumption, SeedOK DEF Row, Nil
<1>4. Keyed(op.kind, op.key) \in Statement
  BY <1>1, <1>3 DEF Keyed, Statement
<1>5. w.kind = op.kind /\ w.ptr = NoPtr /\ w.key = op.key
  BY <1>2 DEF Keyed
<1> QED
  BY <1>1, <1>2, <1>4, <1>5 DEF Marked

-----------------------------------------------------------------------------
(* The invariant. *)

\* The sessions the undo of a batch is sound for: with batching on, the application assigns no key
\* and the database reuses none.  In the others the journal can restore an entry of an instance that
\* a later statement of the same message has registered again.
KeysStable == \A s \in Sessions : Batched(s) => "keyEdits" \notin s.options /\ "keyReuse" \notin s.options

\* The instances, the map and the rows.
World(s, o, t, tb, last) ==
    /\ o \in [Ptrs -> Instance]
    /\ TrackerType(t, Row) /\ MapOK(t)
    /\ tb \in Rows /\ last \in Nat
    /\ Batched(s) => KeysKnown(o, t, last) /\ Stored(tb, last)

WorldInv ==
    /\ session \in Sessions
    /\ World(session, obj, tr, table, lastKey)
    /\ saved \in Rows /\ (Batched(session) => Stored(saved, lastKey))
    /\ steps \in Nat

\* The prepared statements whose message is not complete yet.
Pending == message \o held

QueueInv ==
    /\ done \in Nat /\ ops \in Seq(Operation)
    /\ held \in Seq(Statement) /\ message \in Seq(Statement)
    /\ results \in Seq(Outcome) /\ journal \in Seq(Closure)
    /\ Batched(session) => /\ \A i \in DOMAIN ops : ops[i].key <= lastKey
                           /\ \A i \in DOMAIN Pending : Pending[i].key <= lastKey

\* Where a send can be, and what it then holds.
ControlInv ==
    /\ phase \in {"idle", "next", "prepare", "add", "send", "commit"}
    /\ phase = "add" \/ (phase = "send" /\ after = "add") => Len(held) = 1
    /\ ~(phase = "add" \/ (phase = "send" /\ after = "add")) => held = <<>>
    /\ phase \in {"idle", "commit"} => message = <<>>
    /\ phase = "idle" => tx # "call"
    /\ phase # "send" => results = <<>> /\ done = 0
    /\ phase = "send" => /\ after \in {"prepare", "add", "next", "commit"}
                         /\ done < Len(message) /\ done <= Len(results) /\ Len(results) <= Len(message)
    /\ phase = "prepare" \/ (phase = "send" /\ after = "prepare") => ops # <<>>
    /\ phase = "prepare" => ~DependsOnMessage(Last(ops))
    /\ ~Batched(session) => Len(Pending) <= 1 /\ (phase # "send" => message = <<>>)

StatementsInv ==
    /\ Independent(Pending)
    /\ Fits(session, obj, tr, Pending, done)
    /\ Returned(session, obj, tr, Pending, results, done, lastKey)

StartInv ==
    /\ Memory(start)
    /\ Batched(session) => KeysKnown(start.obj, start.tr, lastKey)
    /\ phase # "idle" /\ tx = "call" => saved = start.table

\* At every point of a send, the journal leads back to its start.
GroupInv == phase # "idle" => \E b, B, C : Group(journal, obj, tr, Pending, done, start, b, B, C)

Inv == WorldInv /\ QueueInv /\ ControlInv /\ StatementsInv /\ StartInv /\ GroupInv

\* The invariant holds at first.
LEMMA InitInv == Init => Inv
<1> SUFFICES ASSUME Init PROVE Inv
  OBVIOUS
<1>1. New \in Instance
  <2>1. Seed.ver \in Nat /\ Seed.val \in Vals /\ Seed.del \in BOOLEAN /\ Seed.stamp \in Nat
    BY SeedOK DEF Row
  <2> QED
    BY <2>1 DEF New, Holding, Instance
<1>2. New.key = 0
  BY DEF New, Holding
<1>3. Cardinality(SeedKeys) \in Nat
  <2>1. IsFiniteSet(SeedKeys)
    BY WritesAssumption, FS_Subset
  <2> QED
    BY <2>1, FS_CardinalityType
<1>4. TrackerType(tr, Row) /\ MapOK(tr)
  BY NewTrackerOK DEF Init
<1>5. table \in Rows /\ saved \in Rows /\ Stored(table, lastKey) /\ Stored(saved, lastKey)
  <2>1. table \in Rows
    BY SeedOK DEF Init, Rows
  <2>2. \A k \in Keys : table[k] # NoRow => k \in SeedKeys
    BY DEF Init
  <2>3. \A k \in SeedKeys : k <= Cardinality(SeedKeys)
    BY <1>3, WritesAssumption
  <2> QED
    BY <2>1, <2>2, <2>3 DEF Init, Stored
<1>6. obj \in [Ptrs -> Instance] /\ lastKey \in Nat /\ KeysKnown(obj, tr, lastKey)
  BY <1>1, <1>2, <1>3 DEF Init, KeysKnown, newTracker
<1>7. WorldInv
  BY <1>4, <1>5, <1>6 DEF WorldInv, World, Init
<1>8. Pending = <<>> /\ ops = <<>> /\ results = <<>>
  BY DEF Pending, Init
<1>9. QueueInv
  BY <1>8 DEF QueueInv, Init
<1>10. ControlInv
  BY <1>8 DEF ControlInv, Init
<1>11. StatementsInv
  BY <1>8 DEF StatementsInv, Independent, Fits, Returned
<1>12. StartInv
  BY <1>4, <1>6 DEF StartInv, Memory, Init, Start
<1>13. GroupInv
  BY DEF GroupInv, Init
<1> QED
  BY <1>7, <1>9, <1>10, <1>11, <1>12, <1>13 DEF Inv

-----------------------------------------------------------------------------
(* The application between calls. *)

\* The key of an operation is a number.
LEMMA OperationKey ==
    ASSUME NEW op \in Operation
    PROVE  op.key \in Nat
<1>1. op.key = 0 \/ op.key \in Keys
  BY DEF Operation
<1>2. Keys \subseteq Nat /\ 0 \in Nat
  BY KeysAssumption
<1> QED
  BY <1>1, <1>2

\* A step between calls keeps the invariant if the instances, the map and the rows stay well formed.
LEMMA IdleStep ==
    ASSUME Inv, phase = "idle", UNCHANGED <<session, plan>>, tx' \in {tx, "none", "caller"}, steps' \in Nat,
           World(session, obj', tr', table', lastKey'), lastKey <= lastKey',
           saved' \in Rows, Batched(session) => Stored(saved', lastKey')
    PROVE  Inv'
<1>1. /\ phase' = "idle" /\ after' = after /\ ops' = ops /\ held' = held /\ message' = message
      /\ results' = results /\ done' = done /\ journal' = journal /\ start' = start /\ session' = session
  BY DEF plan
<1>2. held = <<>> /\ message = <<>> /\ results = <<>> /\ done = 0
  BY DEF Inv, ControlInv
<1>3. Pending = <<>> /\ Pending' = <<>> /\ DOMAIN <<>> = {}
  BY <1>1, <1>2 DEF Pending
<1>4. WorldInv'
  BY <1>1 DEF Inv, WorldInv
<1>5. \A k \in Nat : k <= lastKey => k <= lastKey'
  <2>1. lastKey \in Nat /\ lastKey' \in Nat
    BY DEF Inv, WorldInv, World
  <2>2. PICK n \in Nat : n = lastKey'
    BY <2>1
  <2> QED
    BY <2>1, <2>2
<1>6. QueueInv'
  <2>1. \A i \in DOMAIN ops : ops[i].key \in Nat
    <3>1. \A i \in DOMAIN ops : ops[i] \in Operation
      BY DEF Inv, QueueInv
    <3> QED
      BY <3>1, OperationKey
  <2> QED
    BY <1>1, <1>3, <1>5, <2>1 DEF Inv, QueueInv
<1>7. ControlInv'
  BY <1>1, <1>3 DEF Inv, ControlInv
<1>8. StatementsInv'
  BY <1>1, <1>2, <1>3 DEF StatementsInv, Independent, Fits, Returned
<1>9. StartInv'
  <2>1. Batched(session) => KeysKnown(start.obj, start.tr, lastKey')
    <3>1. \A p \in Ptrs : start.obj[p].key \in Nat
      BY DEF Inv, StartInv, Memory, Instance
    <3> QED
      BY <1>5, <3>1 DEF Inv, StartInv, KeysKnown
  <2> QED
    BY <1>1, <2>1 DEF Inv, StartInv
<1>10. GroupInv'
  BY <1>1 DEF GroupInv
<1> QED
  BY <1>4, <1>6, <1>7, <1>8, <1>9, <1>10 DEF Inv

\* A registration keeps every tracked instance under its own key.
LEMMA RegisteredKnown ==
    ASSUME NEW u, NEW t, NEW p \in Ptrs, NEW k \in Keys, NEW o, NEW o2, NEW last, Registered(u, t, p, k),
           TrackerType(t, Row), KeysKnown(o, t, last), o2[p].key = k, k <= last, \A q \in Ptrs : q # p => o2[q] = o[q]
    PROVE  KeysKnown(o2, u, last)
<1>1. ASSUME NEW q \in Ptrs, u.byPtr[q] # Nil
      PROVE  u.entries[u.byPtr[q]].key = o2[q].key
  <2>1. CASE q = p
    BY <2>1 DEF Registered
  <2>2. CASE q # p
    <3>1. u.byPtr[q] = t.byPtr[q]
      BY <1>1, <2>2 DEF Registered
    <3>2. t.byPtr[q] \in 1 .. Len(t.entries)
      BY <1>1, <3>1 DEF TrackerType, Nil
    <3>3. u.entries[t.byPtr[q]] = t.entries[t.byPtr[q]]
      BY <3>2 DEF Registered
    <3>4. t.entries[t.byPtr[q]].key = o[q].key
      BY <1>1, <3>1 DEF KeysKnown
    <3> QED
      BY <2>2, <3>1, <3>3, <3>4
  <2> QED
    BY <2>1, <2>2
<1> QED
  BY <1>1 DEF KeysKnown

\* An instance holding a row.
LEMMA HoldingOK ==
    ASSUME NEW k \in Nat, NEW row, row.ver \in Nat, row.val \in Vals, row.del \in BOOLEAN, row.stamp \in Nat
    PROVE  Holding(k, row) \in Instance /\ Holding(k, row).key = k
BY DEF Holding, Instance

\* A stored row is a row, under a key the database gave out.
LEMMA StoredRow ==
    ASSUME WorldInv, NEW k \in Keys, table[k] # NoRow
    PROVE  table[k] \in Row /\ (Batched(session) => k <= lastKey) /\ k \in Nat
BY KeysAssumption DEF WorldInv, World, Rows, Stored

\* An instance of the application changes and keeps its key.
LEMMA SameKeys ==
    ASSUME WorldInv, NEW o \in [Ptrs -> Instance], \A p \in Ptrs : o[p].key = obj[p].key
    PROVE  World(session, o, tr, table, lastKey)
BY DEF WorldInv, World, KeysKnown

\* Edit keeps the invariant.
LEMMA EditInv ==
    ASSUME KeysStable, Inv, NEW p \in Ptrs, Edit(p)
    PROVE  Inv'
<1>1. WorldInv /\ obj \in [Ptrs -> Instance] /\ obj[p] \in Instance /\ lastKey \in Nat /\ steps \in Nat
  BY DEF Inv, WorldInv, World
<1>2. CASE \E v \in Vals \ {obj[p].val} : obj' = [obj EXCEPT ![p].val = v]
  <2>1. PICK v \in Vals : obj' = [obj EXCEPT ![p].val = v]
    BY <1>2
  <2>2. PICK i : i = [obj[p] EXCEPT !.val = v]
    OBVIOUS
  <2>3. i \in Instance /\ i.key = obj[p].key
    BY <1>1, <2>2 DEF Instance
  <2>4. PICK o : o = [obj EXCEPT ![p] = i]
    OBVIOUS
  <2>5. obj' = o
    BY <2>1, <2>2, <2>4
  <2>6. o \in [Ptrs -> Instance] /\ \A q \in Ptrs : o[q].key = obj[q].key
    BY <1>1, <2>3, <2>4
  <2>7. World(session, o, tr, table, lastKey)
    BY <1>1, <2>6, SameKeys
  <2> QED
    BY <1>1, <2>5, <2>7, IdleStep DEF Edit, Step, data, Inv, WorldInv
<1>3. CASE KeyEdits /\ \E k \in (0 .. lastKey) \ {obj[p].key} : obj' = [obj EXCEPT ![p].key = k]
  <2>1. PICK k \in 0 .. lastKey : obj' = [obj EXCEPT ![p].key = k]
    BY <1>3
  <2>2. PICK i : i = [obj[p] EXCEPT !.key = k]
    OBVIOUS
  <2>3. i \in Instance
    BY <1>1, <2>2 DEF Instance
  <2>4. PICK o : o = [obj EXCEPT ![p] = i]
    OBVIOUS
  <2>5. obj' = o
    BY <2>1, <2>2, <2>4
  <2>6. o \in [Ptrs -> Instance]
    BY <1>1, <2>3, <2>4
  <2>7. ~Batched(session)
    BY <1>1, <1>3 DEF KeysStable, KeyEdits, WorldInv
  <2>8. World(session, o, tr, table, lastKey)
    BY <1>1, <2>6, <2>7 DEF World, WorldInv
  <2> QED
    BY <1>1, <2>5, <2>8, IdleStep DEF Edit, Step, data, Inv, WorldInv
<1> QED
  BY <1>2, <1>3 DEF Edit

\* A read keeps the invariant.
LEMMA ReadInv ==
    ASSUME Inv, NEW k \in Keys, Read(k)
    PROVE  Inv'
<1>1. WorldInv /\ World(session, obj, tr, table, lastKey) /\ lastKey \in Nat /\ steps \in Nat /\ table[k] # NoRow
  BY DEF Inv, WorldInv, World, Read
<1>2. CASE UNCHANGED memory
  BY <1>1, <1>2, IdleStep DEF Read, Step, memory, data, Inv, WorldInv
<1>3. CASE \E p \in Ptrs \ born : Materialize(p, k)
  <2>1. PICK p \in Ptrs : Materialize(p, k)
    BY <1>3
  <2>2. PICK o : o = [obj EXCEPT ![p] = Holding(k, table[k])]
    OBVIOUS
  <2>3. PICK t : t = register(tr, p, k, table[k])
    OBVIOUS
  <2>4. obj' = o /\ tr' = t
    BY <2>1, <2>2, <2>3 DEF Materialize
  <2>5. table[k] \in Row /\ (Batched(session) => k <= lastKey) /\ k \in Nat
    BY <1>1, StoredRow
  <2>6. Holding(k, table[k]) \in Instance /\ Holding(k, table[k]).key = k
    BY <2>5, HoldingOK DEF Row
  <2>7. o \in [Ptrs -> Instance] /\ o[p].key = k /\ \A q \in Ptrs : q # p => o[q] = obj[q]
    BY <1>1, <2>2, <2>6 DEF World
  <2>8. Registered(t, tr, p, k) /\ TrackerType(tr, Row)
    BY <1>1, <2>3, <2>5, RegisterParts DEF World
  <2>9. Batched(session) => KeysKnown(o, t, lastKey)
    BY <1>1, <2>5, <2>7, <2>8, RegisteredKnown DEF World
  <2>10. World(session, o, t, table, lastKey)
    BY <1>1, <2>7, <2>8, <2>9 DEF World, Registered
  <2> QED
    BY <1>1, <2>4, <2>10, IdleStep DEF Read, Step, data, Inv, WorldInv
<1> QED
  BY <1>2, <1>3 DEF Read

\* Refresh keeps the invariant.
LEMMA RefreshInv ==
    ASSUME Inv, NEW p \in Ptrs, Refresh(p)
    PROVE  Inv'
<1>1. WorldInv /\ World(session, obj, tr, table, lastKey) /\ lastKey \in Nat /\ steps \in Nat
  BY DEF Inv, WorldInv, World
<1>2. CASE UNCHANGED <<obj, tr>>
  BY <1>1, <1>2, IdleStep DEF Refresh, Step, data, Inv, WorldInv
<1>3. CASE ~UNCHANGED <<obj, tr>>
  <2>1. PICK k : k = obj[p].key
    OBVIOUS
  <2>2. /\ k \in Keys /\ table[k] # NoRow
        /\ obj' = [obj EXCEPT ![p] = Holding(k, table[k])]
        /\ tr' = IF tr.byPtr[p] = Nil THEN tr ELSE [tr EXCEPT !.snap[tr.byPtr[p]] = table[k]]
    BY <1>3, <2>1 DEF Refresh
  <2>3. table[k] \in Row /\ k \in Nat
    BY <1>1, <2>2, StoredRow
  <2>4. PICK o : o = [obj EXCEPT ![p] = Holding(k, table[k])]
    OBVIOUS
  <2>5. Holding(k, table[k]) \in Instance /\ Holding(k, table[k]).key = k
    BY <2>3, HoldingOK DEF Row
  <2>6. o \in [Ptrs -> Instance] /\ \A q \in Ptrs : o[q].key = obj[q].key
    BY <1>1, <2>1, <2>4, <2>5 DEF World
  <2>7. PICK t : t = IF tr.byPtr[p] = Nil THEN tr ELSE [tr EXCEPT !.snap[tr.byPtr[p]] = table[k]]
    OBVIOUS
  <2>8. TrackerType(t, Row) /\ MapOK(t) /\ t.entries = tr.entries /\ t.byPtr = tr.byPtr
    <3>1. CASE tr.byPtr[p] = Nil
      BY <1>1, <2>7, <3>1 DEF World
    <3>2. CASE tr.byPtr[p] # Nil
      <4>1. PICK e : e = tr.byPtr[p]
        OBVIOUS
      <4>2. e \in 1 .. Len(tr.entries) /\ TrackerType(tr, Row) /\ MapOK(tr)
        BY <1>1, <3>2, <4>1 DEF World, TrackerType, Nil
      <4>3. Resnapped([tr EXCEPT !.snap[e] = table[k]], tr, e)
        BY <2>3, <4>2, SnapshotParts
      <4> QED
        BY <2>7, <3>2, <4>1, <4>3 DEF Resnapped
    <3> QED
      BY <3>1, <3>2
  <2>9. World(session, o, t, table, lastKey)
    BY <1>1, <2>6, <2>8 DEF World, KeysKnown
  <2>10. obj' = o /\ tr' = t
    BY <2>2, <2>4, <2>7
  <2> QED
    BY <1>1, <2>9, <2>10, IdleStep DEF Refresh, Step, data, Inv, WorldInv
<1> QED
  BY <1>2, <1>3

\* Detach keeps the invariant.
LEMMA DetachInv ==
    ASSUME Inv, NEW p \in Ptrs, Detach(p)
    PROVE  Inv'
<1>1. World(session, obj, tr, table, lastKey) /\ lastKey \in Nat /\ steps \in Nat
  BY DEF Inv, WorldInv, World
<1>2. PICK t : t = forgetIfAny(tr, tr.byPtr[p])
  OBVIOUS
<1>3. tr' = t
  BY <1>2 DEF Detach, forgetIfAny
<1>4. /\ TrackerType(tr, Row) /\ MapOK(tr) /\ tr.byPtr[p] \in 0 .. Len(tr.entries)
      /\ tr.byPtr[p] # Nil => tr.entries[tr.byPtr[p]].ptr = p
  BY <1>1 DEF World, TrackerType, MapOK
<1>5. tr.byPtr[p] # Nil => tr.byPtr[tr.entries[tr.byPtr[p]].ptr] \in {Nil, tr.byPtr[p]}
  BY <1>4
<1>6. /\ TrackerType(t, Row) /\ MapOK(t) /\ t.entries = tr.entries
      /\ \A q \in Ptrs : t.byPtr[q] = IF tr.byPtr[p] # Nil /\ q = tr.entries[tr.byPtr[p]].ptr THEN Nil ELSE tr.byPtr[q]
  BY <1>2, <1>4, <1>5, ForgetIfAnyParts
<1>7. World(session, obj, t, table, lastKey)
  BY <1>1, <1>6 DEF World, KeysKnown
<1> QED
  BY <1>1, <1>3, <1>7, IdleStep DEF Detach, Step, data, Inv, WorldInv

\* Merge keeps the invariant.
LEMMA MergeInv ==
    ASSUME Inv, NEW p \in Ptrs, Merge(p)
    PROVE  Inv'
<1>1. WorldInv /\ World(session, obj, tr, table, lastKey) /\ lastKey \in Nat /\ steps \in Nat
      /\ obj \in [Ptrs -> Instance] /\ TrackerType(tr, Row) /\ MapOK(tr)
  BY DEF Inv, WorldInv, World
<1>2. PICK k \in Keys : k = obj[p].key
  BY DEF Merge
<1>3. CASE find(tr, k) # Nil
  <2>1. PICK e : e = tr.byKey[k]
    OBVIOUS
  <2>2. PICK q : q = tr.entries[e].ptr
    OBVIOUS
  <2>3. q \in Ptrs
    <3>1. e \in 1 .. Len(tr.entries)
      BY <1>1, <1>3, <2>1 DEF find, TrackerType, Nil
    <3> QED
      BY <1>1, <2>2, <3>1, EntryOK
  <2>4. PICK o : o = [obj EXCEPT ![q] = Holding(obj[q].key, obj[p])]
    OBVIOUS
  <2>5. obj' = o /\ tr' = tr
    BY <1>2, <1>3, <2>1, <2>2, <2>4 DEF Merge, find
  <2>6. obj[q] \in Instance /\ obj[p] \in Instance
    BY <1>1, <2>3
  <2>7. Holding(obj[q].key, obj[p]) \in Instance /\ Holding(obj[q].key, obj[p]).key = obj[q].key
    BY <2>6, HoldingOK DEF Instance
  <2>8. o \in [Ptrs -> Instance] /\ \A x \in Ptrs : o[x].key = obj[x].key
    BY <1>1, <2>3, <2>4, <2>7
  <2>9. World(session, o, tr, table, lastKey)
    BY <1>1, <2>8, SameKeys
  <2> QED
    BY <1>1, <2>5, <2>9, IdleStep DEF Merge, Step, data, Inv, WorldInv
<1>4. CASE find(tr, k) = Nil /\ table[k] = NoRow
  BY <1>1, <1>2, <1>4, IdleStep DEF Merge, Step, memory, data, Inv, WorldInv
<1>5. CASE find(tr, k) = Nil /\ table[k] # NoRow
  <2>1. PICK q \in Ptrs : obj' = [obj EXCEPT ![q] = obj[p]] /\ tr' = register(tr, q, k, table[k])
    BY <1>2, <1>5 DEF Merge
  <2>2. PICK o : o = [obj EXCEPT ![q] = obj[p]]
    OBVIOUS
  <2>3. PICK t : t = register(tr, q, k, table[k])
    OBVIOUS
  <2>4. table[k] \in Row /\ (Batched(session) => k <= lastKey)
    BY <1>1, <1>5, StoredRow
  <2>5. o \in [Ptrs -> Instance] /\ o[q].key = k /\ \A x \in Ptrs : x # q => o[x] = obj[x]
    BY <1>1, <1>2, <2>2
  <2>6. Registered(t, tr, q, k)
    BY <1>1, <2>3, <2>4, RegisterParts
  <2>7. Batched(session) => KeysKnown(o, t, lastKey)
    BY <1>1, <2>4, <2>5, <2>6, RegisteredKnown DEF World
  <2>8. World(session, o, t, table, lastKey)
    BY <1>1, <2>5, <2>6, <2>7 DEF World, Registered
  <2> QED
    BY <1>1, <2>1, <2>2, <2>3, <2>8, IdleStep DEF Merge, Step, data, Inv, WorldInv
<1> QED
  BY <1>3, <1>4, <1>5

\* Another session changes a row.
LEMMA OutsideInv ==
    ASSUME Inv, NEW k \in Keys, Outside(k)
    PROVE  Inv'
<1>1. WorldInv /\ World(session, obj, tr, table, lastKey) /\ lastKey \in Nat /\ steps \in Nat
      /\ table \in Rows /\ table[k] # NoRow
  BY DEF Inv, WorldInv, World, Outside
<1>2. PICK x \in Row \cup {NoRow} : table' = [table EXCEPT ![k] = x]
  <2>1. table[k] \in Row
    BY <1>1, StoredRow
  <2>2. CASE \E v \in Vals :
               table' = [table EXCEPT ![k] = [ver |-> @.ver + 1, val |-> v, del |-> @.del, stamp |-> @.stamp]]
    <3>1. PICK v \in Vals :
            table' = [table EXCEPT ![k] = [ver |-> @.ver + 1, val |-> v, del |-> @.del, stamp |-> @.stamp]]
      BY <2>2
    <3>2. PICK y : y = [ver |-> table[k].ver + 1, val |-> v, del |-> table[k].del, stamp |-> table[k].stamp]
      OBVIOUS
    <3>3. y \in Row
      BY <2>1, <3>2 DEF Row
    <3>4. table' = [table EXCEPT ![k] = y]
      BY <3>1, <3>2
    <3> QED
      BY <3>3, <3>4
  <2>3. CASE table' = [table EXCEPT ![k] = NoRow]
    BY <2>3
  <2> QED
    BY <2>2, <2>3 DEF Outside
<1>3. PICK tb : tb = [table EXCEPT ![k] = x]
  OBVIOUS
<1>4. tb \in Rows /\ (Stored(table, lastKey) => Stored(tb, lastKey))
  BY <1>1, <1>3 DEF Rows, Stored
<1>5. World(session, obj, tr, tb, lastKey)
  BY <1>1, <1>4 DEF World
<1>6. /\ obj' = obj /\ tr' = tr /\ lastKey' = lastKey /\ UNCHANGED <<session, plan, tx, saved>>
      /\ steps' \in Nat /\ phase = "idle" /\ table' = tb
  BY <1>1, <1>2, <1>3 DEF Outside, Step, memory
<1>7. saved \in Rows /\ (Batched(session) => Stored(saved, lastKey)) /\ lastKey <= lastKey
  BY <1>1 DEF WorldInv
<1> QED
  BY <1>5, <1>6, <1>7, IdleStep

\* The application makes an instance; the caller's transaction begins and ends.
LEMMA ScopeInv ==
    ASSUME Inv, Begin \/ Commit \/ Rollback \/ \E p \in Ptrs : Make(p)
    PROVE  Inv'
<1>1. /\ World(session, obj, tr, table, lastKey) /\ lastKey \in Nat /\ steps \in Nat /\ saved \in Rows /\ table \in Rows
      /\ Batched(session) => Stored(saved, lastKey) /\ Stored(table, lastKey)
  BY DEF Inv, WorldInv, World
<1>2. CASE Begin
  BY <1>1, <1>2, IdleStep DEF Begin, Step, memory, data
<1>3. CASE Commit
  BY <1>1, <1>3, IdleStep DEF Commit, Step, memory, data
<1>4. CASE Rollback
  <2>1. World(session, obj, tr, saved, lastKey)
    BY <1>1 DEF World
  <2> QED
    BY <1>1, <1>4, <2>1, IdleStep DEF Rollback, Step, memory
<1>5. CASE \E p \in Ptrs : Make(p)
  BY <1>1, <1>5, IdleStep DEF Make, Step, data
<1> QED
  BY <1>2, <1>3, <1>4, <1>5

\* The instance of a prepared statement.
LEMMA PreparedFit ==
    ASSUME WorldInv, NEW op \in Operation, prepare(obj, tr, op).kind \notin {"refused", "none"}
    PROVE  LET w == prepare(obj, tr, op) IN
           /\ Fit(w, Marked(obj, w), tr)
           /\ Marked(obj, w) \in [Ptrs -> Instance] /\ \A q \in Ptrs : Marked(obj, w)[q].key = obj[q].key
<1> DEFINE w == prepare(obj, tr, op)
<1>1. obj \in [Ptrs -> Instance] /\ TrackerType(tr, Row) /\ MapOK(tr) /\ steps \in Nat
  BY DEF WorldInv, World
<1>2. CASE op.ptr = NoPtr
  <2>1. w \in Statement /\ w.kind \in ByKey /\ w.ptr = NoPtr /\ Marked(obj, w) = obj
    BY <1>2, PrepareKeyed
  <2> QED
    BY <1>1, <2>1 DEF Fit
<1>3. CASE op.ptr # NoPtr
  <2>1. Prepares(w, obj, tr, op.ptr) /\ op.ptr \in Ptrs
    BY <1>1, <1>3, PrepareOK
  <2> HIDE DEF w
  <2>2. w.kind # "none"
    BY DEF w
  <2> QED
    BY <1>3, <2>1, <2>2 DEF Prepares, Stamped, Fit, w
<1> QED
  BY <1>2, <1>3

\* A judged statement matched a row, or needed none.
LEMMA JudgedCounted ==
    ASSUME NEW w, NEW r, judge(w, r) = "ok", w.kind = "insert" => r.key \in Keys,
           w.kind \notin {"insert", "command"} /\ r.affected > 0 => w.key \in Keys
    PROVE  Counted(w, r)
<1>1. r.affected > 0 \/ w.kind \in {"insert", "command"}
  BY DEF judge
<1> QED
  BY <1>1 DEF Counted

\* An immediate write keeps the invariant.
LEMMA ImmediateInv ==
    ASSUME KeysStable, Inv, NEW op \in Operation, ImmediateCall(op)
    PROVE  Inv'
<1> DEFINE w == prepare(obj, tr, op)
           r == execute(table, lastKey, w)
           o == Marked(obj, w)
           f == finish(o, tr, w, r)
<1>1. /\ WorldInv /\ World(session, obj, tr, table, lastKey) /\ lastKey \in Nat /\ steps \in Nat /\ table \in Rows
      /\ TrackerType(tr, Row) /\ MapOK(tr)
  BY DEF Inv, WorldInv, World
<1>2. CASE obj' = obj /\ tr' = tr /\ table' = table /\ lastKey' = lastKey
  BY <1>1, <1>2, IdleStep DEF ImmediateCall, Step, Inv, WorldInv
<1>3. CASE ~(obj' = obj /\ tr' = tr /\ table' = table /\ lastKey' = lastKey)
  <2>1. /\ w.kind \notin {"refused", "none"} /\ judge(w, r) = "ok" /\ Executable(table, lastKey, w)
        /\ obj' = f.obj /\ tr' = f.tr /\ table' = r.table /\ lastKey' = r.lastKey
    BY <1>3 DEF ImmediateCall, Immediate, Start
  <2>2. Fit(w, o, tr) /\ o \in [Ptrs -> Instance] /\ \A q \in Ptrs : o[q].key = obj[q].key
    BY <1>1, <2>1, PreparedFit
  <2>3. w \in Statement
    BY <2>2 DEF Fit
  <2> HIDE DEF w, o
  <2>4. Executed(r, table, lastKey, w)
    BY <1>1, <2>1, <2>3, ExecuteOK
  <2> HIDE DEF r
  <2>5. Counted(w, r)
    BY <2>1, <2>4, JudgedCounted DEF Executed
  <2>6. MovesObj(f, o, w, r) /\ MovesMap(f, tr, w)
    BY <1>1, <2>2, <2>5, FinishMoves
  <2> HIDE DEF f
  <2>7. r.lastKey \in Nat /\ lastKey <= r.lastKey /\ r.table \in Rows /\ (w.kind = "insert" => r.key <= r.lastKey)
        /\ (Stored(table, lastKey) => Stored(r.table, r.lastKey))
    BY <2>4 DEF Executed
  <2>8. Batched(session) => KeysKnown(f.obj, f.tr, r.lastKey)
    <3> SUFFICES ASSUME Batched(session) PROVE KeysKnown(f.obj, f.tr, r.lastKey)
      OBVIOUS
    <3>1. \A q \in Ptrs : obj[q].key \in Nat
      BY <1>1 DEF World, Instance
    <3>2. KeysKnown(o, tr, r.lastKey)
      BY <1>1, <2>2, <2>7, <3>1 DEF World, KeysKnown
    <3> QED
      BY <1>1, <2>2, <2>6, <2>7, <3>2, MovedKnown
  <2>9. World(session, f.obj, f.tr, r.table, r.lastKey)
    BY <1>1, <2>6, <2>7, <2>8 DEF World, MovesObj, MovesMap
  <2>10. saved \in Rows /\ (Batched(session) => Stored(saved, r.lastKey))
    <3>1. \A k \in Keys : k \in Nat
      BY KeysAssumption
    <3> QED
      BY <1>1, <2>7, <3>1 DEF WorldInv, Stored
  <2>11. UNCHANGED <<session, plan, tx, saved>> /\ steps' \in Nat /\ phase = "idle"
    BY <1>1 DEF ImmediateCall, Step
  <2> QED
    BY <2>1, <2>7, <2>9, <2>10, <2>11, IdleStep
<1> QED
  BY <1>2, <1>3

-----------------------------------------------------------------------------
(* Batch.Send. *)

\* A step that moves statements about and changes nothing else.
LEMMA PlanStep ==
    ASSUME Inv, phase # "idle",
           UNCHANGED <<session, obj, tr, table, lastKey, tx, saved, results, done, journal, start, steps>>,
           Pending' = Pending, QueueInv', ControlInv'
    PROVE  Inv'
<1>1. WorldInv'
  BY DEF Inv, WorldInv
<1>2. StatementsInv'
  BY DEF Inv, StatementsInv
<1>3. StartInv'
  BY DEF Inv, StartInv
<1>4. GroupInv'
  <2>1. \E b, B, C : Group(journal, obj, tr, Pending, done, start, b, B, C)
    BY DEF Inv, GroupInv
  <2> QED
    BY <2>1 DEF GroupInv
<1> QED
  BY <1>1, <1>2, <1>3, <1>4 DEF Inv

\* A send begins with an empty journal.
LEMMA SendInv ==
    ASSUME Inv, Send
    PROVE  Inv'
<1>1. /\ World(session, obj, tr, table, lastKey) /\ lastKey \in Nat /\ steps \in Nat /\ table \in Rows
      /\ obj \in [Ptrs -> Instance] /\ TrackerType(tr, Row) /\ MapOK(tr)
  BY DEF Inv, WorldInv, World
<1>2. /\ phase = "idle" /\ phase' = "next" /\ steps' = steps + 1
      /\ ops' = <<>> /\ journal' = <<>> /\ start' = Start(obj, tr, table, lastKey)
      /\ UNCHANGED <<session, obj, tr, table, lastKey, held, message, results, done>>
      /\ (tx' = "call" /\ saved' = table) \/ (tx # "none" /\ tx' = tx /\ saved' = saved)
  BY DEF Send, Step, memory, data
<1>3. message = <<>> /\ held = <<>> /\ results = <<>> /\ done = 0
  BY <1>2 DEF Inv, ControlInv
<1>4. Pending' = <<>> /\ Pending = <<>>
  BY <1>2, <1>3 DEF Pending
<1>5. WorldInv'
  <2>1. saved' \in Rows /\ (Batched(session) => Stored(saved', lastKey))
    BY <1>1, <1>2 DEF Inv, WorldInv, World
  <2> QED
    BY <1>1, <1>2, <2>1 DEF Inv, WorldInv
<1>6. QueueInv'
  BY <1>2, <1>3, <1>4 DEF Inv, QueueInv
<1>7. ControlInv'
  BY <1>2, <1>3, <1>4 DEF Inv, ControlInv
<1>8. StatementsInv'
  BY <1>2, <1>3, <1>4 DEF Inv, StatementsInv
<1>9. start'.obj = obj /\ start'.tr = tr /\ start'.table = table
  BY <1>2 DEF Start
<1>10. tx # "call"
  BY <1>2 DEF Inv, ControlInv
<1>11. StartInv'
  BY <1>1, <1>2, <1>9, <1>10 DEF StartInv, Memory, World
<1>12. GroupInv'
  <2>1. PICK S : S = start' /\ S.obj = obj /\ S.tr = tr
    BY <1>9
  <2>2. Group(<<>>, obj, tr, <<>>, 0, S, 0, [obj |-> obj, tr |-> tr], {})
    BY <1>1, <2>1, StartGroup
  <2>3. Group(<<>>, obj', tr', Pending', done', start', 0, [obj |-> obj, tr |-> tr], {})
    BY <1>2, <1>3, <1>4, <2>1, <2>2
  <2> QED
    BY <1>2, <2>3 DEF GroupInv
<1> QED
  BY <1>5, <1>6, <1>7, <1>8, <1>11, <1>12 DEF Inv

\* Taking an operation: a message it depends on goes out first.
LEMMA TakeInv ==
    ASSUME Inv, NEW op \in Available, Take(op)
    PROVE  Inv'
<1>1. /\ phase = "next" /\ ops' = Append(ops, op)
      /\ \/ DependsOnMessage(op) /\ phase' = "send" /\ after' = "prepare"
         \/ ~DependsOnMessage(op) /\ phase' = "prepare" /\ after' = after
      /\ UNCHANGED <<session, obj, tr, table, lastKey, tx, saved, held, message, results, done, journal, start, steps>>
  BY DEF Take, memory, data
<1>2. Pending' = Pending
  BY <1>1 DEF Pending
<1>3. op \in Operation /\ op.key <= lastKey
  BY DEF Available
<1>4. ops \in Seq(Operation) /\ ops' \in Seq(Operation) /\ Last(ops') = op /\ ops' # <<>>
  BY <1>1, <1>3 DEF Inv, QueueInv, Last
<1>5. QueueInv'
  BY <1>1, <1>2, <1>3, <1>4 DEF Inv, QueueInv
<1>6. held = <<>> /\ results = <<>> /\ done = 0 /\ message \in Seq(Statement)
  BY <1>1 DEF Inv, ControlInv, QueueInv
<1>7. ControlInv'
  <2>1. CASE DependsOnMessage(op)
    <3>1. Len(message) > 0 /\ message # <<>>
      BY <1>6, <2>1 DEF DependsOnMessage
    <3>2. Batched(session)
      BY <1>1, <3>1 DEF Inv, ControlInv
    <3> QED
      BY <1>1, <1>4, <1>6, <2>1, <3>1, <3>2 DEF ControlInv
  <2>2. CASE ~DependsOnMessage(op)
    <3>1. ~DependsOnMessage(op)'
      BY <1>1, <2>2 DEF DependsOnMessage, keyNow
    <3>2. ~DependsOnMessage(Last(ops))'
      BY <1>4, <3>1 DEF DependsOnMessage, keyNow
    <3>3. ~Batched(session) => Len(Pending) <= 1 /\ message = <<>>
      BY <1>1 DEF Inv, ControlInv
    <3> QED
      BY <1>1, <1>2, <1>4, <1>6, <2>2, <3>2, <3>3 DEF ControlInv
  <2> QED
    BY <2>1, <2>2
<1> QED
  BY <1>1, <1>2, <1>5, <1>7, PlanStep

\* The message goes out without the held statement.
LEMMA OverflowInv ==
    ASSUME Inv, Overflow
    PROVE  Inv'
<1>1. /\ phase = "add" /\ phase' = "send" /\ after' = "add" /\ message # <<>>
      /\ UNCHANGED <<session, obj, tr, table, lastKey, tx, saved, ops, held, message, results, done, journal, start, steps>>
  BY DEF Overflow, memory, data
<1>2. Pending' = Pending
  BY <1>1 DEF Pending
<1>3. QueueInv'
  BY <1>1, <1>2 DEF Inv, QueueInv
<1>4. message \in Seq(Statement) /\ Len(held) = 1 /\ results = <<>> /\ done = 0
  BY <1>1 DEF Inv, QueueInv, ControlInv
<1>5. Len(message) > 0
  BY <1>1, <1>4
<1>6. ControlInv'
  BY <1>1, <1>2, <1>4, <1>5 DEF Inv, ControlInv
<1> QED
  BY <1>1, <1>2, <1>3, <1>6, PlanStep

\* A sequence of one statement.
LEMMA Single ==
    ASSUME NEW S, NEW s \in Seq(S), Len(s) = 1
    PROVE  s[1] \in S /\ s = <<s[1]>>
<1>1. s[1] \in S
  BY LenProperties, ElementOfSeq
<1>2. <<s[1]>> \in Seq(S) /\ Len(<<s[1]>>) = 1 /\ <<s[1]>>[1] = s[1]
  BY <1>1
<1>3. \A i \in 1 .. Len(s) : s[i] = <<s[1]>>[i]
  BY <1>2
<1> HIDE <1>2
<1>4. Len(s) = Len(<<s[1]>>) /\ <<s[1]>> \in Seq(S)
  BY <1>2
<1> QED
  BY <1>1, <1>3, <1>4, SeqEqual

\* The held statement joins the message.
LEMMA AddInv ==
    ASSUME Inv, Add
    PROVE  Inv'
<1>1. /\ phase = "add" /\ message' = Append(message, held[1]) /\ held' = <<>>
      /\ (Batched(session) /\ phase' = "next") \/ (phase' = "send" /\ after' = "next")
      /\ UNCHANGED <<session, obj, tr, table, lastKey, tx, saved, ops, results, done, journal, start, steps>>
  BY DEF Add, memory, data, AutoBatching, Batched
<1>2. /\ message \in Seq(Statement) /\ held \in Seq(Statement) /\ Len(held) = 1
      /\ results = <<>> /\ done = 0
  BY <1>1 DEF Inv, QueueInv, ControlInv
<1>3. Pending' = Pending
  <2>1. PICK w : w = held[1]
    OBVIOUS
  <2>2. w \in Statement /\ held = <<w>>
    BY <1>2, <2>1, Single
  <2>3. message \o <<w>> = Append(message, w)
    BY <1>2, <2>2
  <2>4. message' \o <<>> = message'
    BY <1>1, <1>2, <2>1, <2>2
  <2> QED
    BY <1>1, <2>1, <2>2, <2>3, <2>4 DEF Pending
<1>4. message' \in Seq(Statement) /\ Len(message') = Len(message) + 1 /\ Len(message) \in Nat
  <2>1. held[1] \in Statement
    BY <1>2
  <2> QED
    BY <1>1, <1>2, <2>1
<1>5. QueueInv'
  BY <1>1, <1>3, <1>4 DEF Inv, QueueInv
<1>6. ControlInv'
  BY <1>1, <1>2, <1>3, <1>4 DEF Inv, ControlInv
<1> QED
  BY <1>1, <1>3, <1>5, <1>6, PlanStep

\* The last message goes out, or the call commits.
LEMMA DrainInv ==
    ASSUME Inv, Drain
    PROVE  Inv'
<1>1. /\ phase = "next"
      /\ (message = <<>> /\ phase' = "commit") \/ (message # <<>> /\ phase' = "send" /\ after' = "commit")
      /\ UNCHANGED <<session, obj, tr, table, lastKey, tx, saved, ops, held, message, results, done, journal, start, steps>>
  BY DEF Drain, memory, data
<1>2. Pending' = Pending
  BY <1>1 DEF Pending
<1>3. QueueInv'
  BY <1>1, <1>2 DEF Inv, QueueInv
<1>4. message \in Seq(Statement) /\ held = <<>> /\ results = <<>> /\ done = 0
  BY <1>1 DEF Inv, QueueInv, ControlInv
<1>5. message # <<>> => Len(message) > 0 /\ Batched(session)
  BY <1>1, <1>4 DEF Inv, ControlInv
<1>6. ControlInv'
  BY <1>1, <1>2, <1>4, <1>5 DEF Inv, ControlInv
<1> QED
  BY <1>1, <1>2, <1>3, <1>6, PlanStep

\* With a larger counter every key is still known.
LEMMA KnownLater ==
    ASSUME NEW o \in [Ptrs -> Instance], NEW t, NEW last \in Nat, NEW more \in Nat, last <= more, KeysKnown(o, t, last)
    PROVE  KeysKnown(o, t, more)
<1>1. \A p \in Ptrs : o[p].key \in Nat
  BY DEF Instance
<1> QED
  BY <1>1 DEF KeysKnown

\* With a larger counter every stored key is still below it.
LEMMA StoredLater ==
    ASSUME NEW tb, NEW last \in Nat, NEW more \in Nat, last <= more, Stored(tb, last)
    PROVE  Stored(tb, more)
BY KeysAssumption DEF Stored

\* A key the database has not given out yet is not in the map.
LEMMA UnknownKey ==
    ASSUME NEW o \in [Ptrs -> Instance], NEW t, TrackerType(t, Row), MapOK(t), NEW last \in Nat, KeysKnown(o, t, last),
           NEW k \in Keys, k = last + 1
    PROVE  t.byKey[k] = Nil
<1> SUFFICES ASSUME t.byKey[k] # Nil PROVE FALSE
  OBVIOUS
<1>1. PICK e \in 1 .. Len(t.entries) : e = t.byKey[k]
  BY DEF TrackerType, Nil
<1>2. PICK p : p = t.entries[e].ptr
  OBVIOUS
<1>3. p \in Ptrs
  BY <1>1, <1>2, EntryOK
<1>4. t.byPtr[p] = e /\ t.entries[e].key = k
  BY <1>1, <1>2 DEF MapOK
<1>5. o[p].key = k /\ o[p].key <= last
  BY <1>1, <1>3, <1>4 DEF KeysKnown, Nil
<1> QED
  BY <1>5

\* The keys of statements and of results are numbers.
LEMMA StatementAt ==
    ASSUME NEW ws \in Seq(Statement), NEW i \in DOMAIN ws
    PROVE  ws[i] \in Statement /\ ws[i].key \in Nat
<1>1. ws[i] \in Statement
  OBVIOUS
<1> QED
  BY <1>1 DEF Statement

\* The key of a result is a number.
LEMMA OutcomeAt ==
    ASSUME NEW rs \in Seq(Outcome), NEW i \in DOMAIN rs
    PROVE  rs[i].key \in Nat
<1>1. rs[i] \in Outcome
  OBVIOUS
<1> QED
  BY <1>1 DEF Outcome

\* A result joins those of the message.
LEMMA ReturnedGrows ==
    ASSUME NEW s, NEW o \in [Ptrs -> Instance], NEW t, TrackerType(t, Row), MapOK(t), NEW ws \in Seq(Statement),
           NEW rs \in Seq(Outcome), NEW d \in Nat, d <= Len(rs), NEW last \in Nat, NEW more \in Nat, last <= more,
           Returned(s, o, t, ws, rs, d, last), NEW x \in Outcome, NEW n, n = Len(rs) + 1, n \in DOMAIN ws,
           ws[n].kind = "insert" => x.key \in Keys /\ x.key <= more /\ (Batched(s) => x.key = last + 1),
           ws[n].kind \notin {"insert", "command"} /\ x.affected > 0 => ws[n].key \in Keys,
           Batched(s) => KeysKnown(o, t, last) /\ \A j \in DOMAIN ws : ws[j].key <= last
    PROVE  Returned(s, o, t, ws, Append(rs, x), d, more)
<1>1. PICK qs : qs = Append(rs, x)
  OBVIOUS
<1>2. /\ n \in Nat /\ d < n /\ Len(qs) = n /\ qs[n] = x /\ DOMAIN qs = 1 .. n /\ DOMAIN rs = 1 .. n - 1
      /\ \A i \in DOMAIN rs : qs[i] = rs[i] /\ i # n
  BY <1>1
<1>3. \A i \in DOMAIN rs : Batched(s) /\ ws[i].kind = "insert" => Fresh(o, t, ws, qs, d, more, i)
  <2> SUFFICES ASSUME NEW i \in DOMAIN rs, Batched(s), ws[i].kind = "insert"
               PROVE  Fresh(o, t, ws, qs, d, more, i)
    OBVIOUS
  <2>1. Fresh(o, t, ws, rs, d, last, i)
    BY DEF Returned
  <2>2. rs[i].key \in Nat /\ qs[i] = rs[i]
    BY <1>2, OutcomeAt
  <2>3. rs[i].key <= more
    BY <2>1, <2>2 DEF Fresh
  <2>4. \A j \in DOMAIN qs : i # j /\ ws[j].kind = "insert" => qs[i].key # qs[j].key
    <3> SUFFICES ASSUME NEW j \in DOMAIN qs, i # j, ws[j].kind = "insert" PROVE qs[i].key # qs[j].key
      OBVIOUS
    <3>1. CASE j = n
      <4>1. qs[j].key = last + 1
        BY <1>2, <3>1
      <4>2. rs[i].key <= last
        BY <2>1 DEF Fresh
      <4> QED
        BY <2>2, <4>1, <4>2
    <3>2. CASE j # n
      <4>1. j \in DOMAIN rs /\ qs[j] = rs[j]
        BY <1>2, <3>2
      <4> QED
        BY <2>1, <2>2, <4>1 DEF Fresh
    <3> QED
      BY <3>1, <3>2
  <2> QED
    BY <2>1, <2>2, <2>3, <2>4 DEF Fresh
<1>4. Batched(s) /\ ws[n].kind = "insert" => Fresh(o, t, ws, qs, d, more, n)
  <2> SUFFICES ASSUME Batched(s), ws[n].kind = "insert" PROVE Fresh(o, t, ws, qs, d, more, n)
    OBVIOUS
  <2>1. x.key \in Keys /\ x.key = last + 1 /\ x.key <= more /\ qs[n] = x
    BY <1>2
  <2>2. t.byKey[x.key] = Nil
    BY <2>1, UnknownKey
  <2>3. \A j \in DOMAIN ws : ws[j].key # x.key
    <3>1. \A j \in DOMAIN ws : ws[j].key \in Nat
      BY StatementAt
    <3> QED
      BY <2>1, <3>1
  <2>4. \A j \in DOMAIN qs : n # j /\ ws[j].kind = "insert" => x.key # qs[j].key
    <3> SUFFICES ASSUME NEW j \in DOMAIN qs, n # j, ws[j].kind = "insert" PROVE x.key # qs[j].key
      OBVIOUS
    <3>1. j \in DOMAIN rs /\ qs[j] = rs[j]
      BY <1>2
    <3>2. rs[j].key <= last
      BY <3>1 DEF Returned, Fresh
    <3>3. rs[j].key \in Nat
      BY <3>1, OutcomeAt
    <3> QED
      BY <2>1, <3>1, <3>2, <3>3
  <2> QED
    BY <1>2, <2>1, <2>2, <2>3, <2>4 DEF Fresh
<1>5. \A i \in DOMAIN qs :
        /\ i \in DOMAIN ws
        /\ ws[i].kind = "insert" => qs[i].key \in Keys
        /\ ws[i].kind \notin {"insert", "command"} /\ qs[i].affected > 0 => ws[i].key \in Keys
        /\ Batched(s) /\ ws[i].kind = "insert" => Fresh(o, t, ws, qs, d, more, i)
        /\ i <= d /\ ws[i].kind # "insert" /\ ws[i].ptr # NoPtr => o[ws[i].ptr].key = ws[i].key
  <2> SUFFICES ASSUME NEW i \in DOMAIN qs
               PROVE  /\ i \in DOMAIN ws
                      /\ ws[i].kind = "insert" => qs[i].key \in Keys
                      /\ ws[i].kind \notin {"insert", "command"} /\ qs[i].affected > 0 => ws[i].key \in Keys
                      /\ Batched(s) /\ ws[i].kind = "insert" => Fresh(o, t, ws, qs, d, more, i)
                      /\ i <= d /\ ws[i].kind # "insert" /\ ws[i].ptr # NoPtr => o[ws[i].ptr].key = ws[i].key
    OBVIOUS
  <2>1. CASE i = n
    BY <1>2, <1>4, <2>1
  <2>2. CASE i # n
    <3>1. i \in DOMAIN rs /\ qs[i] = rs[i]
      BY <1>2, <2>2
    <3> QED
      BY <1>3, <3>1 DEF Returned
  <2> QED
    BY <2>1, <2>2
<1>6. Returned(s, o, t, ws, qs, d, more)
  BY <1>5 DEF Returned
<1> QED
  BY <1>1, <1>6

\* A statement of the message runs: its key is one no map and no statement knows.
LEMMA ExecuteInv ==
    ASSUME KeysStable, Inv, Execute
    PROVE  Inv'
<1> DEFINE n == Len(results) + 1
           w == message[n]
           r == execute(table, lastKey, w)
           x == [key |-> r.key, affected |-> r.affected]
<1>1. /\ WorldInv /\ World(session, obj, tr, table, lastKey) /\ lastKey \in Nat /\ table \in Rows
      /\ obj \in [Ptrs -> Instance] /\ TrackerType(tr, Row) /\ MapOK(tr)
  BY DEF Inv, WorldInv, World
<1>2. /\ phase = "send" /\ Len(results) < Len(message) /\ Executable(table, lastKey, w)
      /\ table' = r.table /\ lastKey' = r.lastKey /\ results' = Append(results, x)
      /\ UNCHANGED <<session, obj, tr, tx, saved, phase, after, ops, held, message, done, journal, start, steps>>
  BY DEF Execute, Running, memory
<1>3. /\ message \in Seq(Statement) /\ held \in Seq(Statement) /\ results \in Seq(Outcome) /\ done \in Nat
      /\ done <= Len(results) /\ done < Len(message)
  BY <1>2 DEF Inv, QueueInv, ControlInv
<1>4. /\ Pending \in Seq(Statement) /\ n \in DOMAIN Pending /\ Pending[n] = w /\ w \in Statement /\ n = Len(results) + 1
  BY <1>2, <1>3 DEF Pending
<1>5. Pending' = Pending
  BY <1>2 DEF Pending
<1>6. Executed(r, table, lastKey, w)
  BY <1>1, <1>2, <1>4, ExecuteOK
<1>7. ~KeyReuse \/ ~Batched(session)
  BY <1>1 DEF KeysStable, KeyReuse, WorldInv
<1> HIDE DEF n, w, r
<1>8. /\ r.lastKey \in Nat /\ lastKey <= r.lastKey /\ r.table \in Rows /\ x \in Outcome
      /\ x.key = r.key /\ x.affected = r.affected
      /\ Stored(table, lastKey) => Stored(r.table, r.lastKey)
  BY <1>6 DEF Executed, Outcome
<1>9. /\ w.kind = "insert" => x.key \in Keys /\ x.key <= r.lastKey /\ (Batched(session) => x.key = lastKey + 1)
      /\ w.kind \notin {"insert", "command"} /\ x.affected > 0 => w.key \in Keys
  BY <1>6, <1>7, <1>8 DEF Executed
<1> HIDE DEF x
<1>10. \A i \in DOMAIN Pending : Pending[i].key \in Nat
  BY <1>4, StatementAt
<1>11. Returned(session, obj, tr, Pending, Append(results, x), done, r.lastKey)
  <2>1. Returned(session, obj, tr, Pending, results, done, lastKey)
    BY DEF Inv, StatementsInv
  <2>2. Batched(session) => KeysKnown(obj, tr, lastKey) /\ \A j \in DOMAIN Pending : Pending[j].key <= lastKey
    BY <1>1 DEF World, Inv, QueueInv
  <2> QED
    BY <1>1, <1>3, <1>4, <1>8, <1>9, <2>1, <2>2, ReturnedGrows
<1>12. StatementsInv'
  BY <1>2, <1>5, <1>11 DEF Inv, StatementsInv
<1>13. WorldInv'
  <2>1. World(session, obj, tr, r.table, r.lastKey)
    BY <1>1, <1>8, KnownLater DEF World
  <2>2. Batched(session) => Stored(saved, r.lastKey)
    BY <1>1, <1>8, StoredLater DEF WorldInv
  <2> QED
    BY <1>1, <1>2, <2>1, <2>2 DEF WorldInv
<1>14. QueueInv'
  <2>1. results' \in Seq(Outcome)
    BY <1>2, <1>3, <1>8
  <2>2. Batched(session) => (\A i \in DOMAIN ops : ops[i].key <= r.lastKey)
    <3>1. \A i \in DOMAIN ops : ops[i].key \in Nat
      BY OperationKey DEF Inv, QueueInv
    <3> QED
      BY <1>1, <1>8, <3>1 DEF Inv, QueueInv
  <2>3. Batched(session) => (\A i \in DOMAIN Pending : Pending[i].key <= r.lastKey)
    BY <1>1, <1>8, <1>10 DEF Inv, QueueInv
  <2> QED
    BY <1>2, <1>5, <2>1, <2>2, <2>3 DEF Inv, QueueInv
<1>15. ControlInv'
  <2>1. Len(results') = Len(results) + 1 /\ Len(results) \in Nat /\ Len(message) \in Nat
    BY <1>2, <1>3, <1>8
  <2>2. done <= Len(results') /\ Len(results') <= Len(message)
    BY <1>2, <1>3, <2>1
  <2> QED
    BY <1>2, <1>5, <2>2 DEF Inv, ControlInv
<1>16. StartInv'
  <2>1. Batched(session) => KeysKnown(start.obj, start.tr, r.lastKey)
    BY <1>1, <1>8, KnownLater DEF Inv, StartInv, Memory
  <2> QED
    BY <1>2, <2>1 DEF Inv, StartInv
<1>17. GroupInv'
  BY <1>2, <1>5 DEF Inv, GroupInv
<1> QED
  BY <1>12, <1>13, <1>14, <1>15, <1>16, <1>17 DEF Inv

-----------------------------------------------------------------------------
(* The end of a call. *)

\* A call that ends leaves nothing of its own behind.
LEMMA CallEnds ==
    ASSUME Inv, phase' = "idle", EndCall, UNCHANGED <<session, lastKey, saved, steps>>, tx' # "call",
           held' = <<>>, message' = <<>>, results' = <<>>, done' = 0,
           World(session, obj', tr', table', lastKey')
    PROVE  Inv'
<1>1. Pending' = <<>>
  BY DEF Pending
<1>2. ops' = <<>> /\ journal' = <<>> /\ start'.obj = obj' /\ start'.tr = tr'
  BY DEF EndCall, Start
<1>3. WorldInv'
  BY DEF Inv, WorldInv
<1>4. QueueInv'
  BY <1>1, <1>2 DEF QueueInv
<1>5. ControlInv'
  BY <1>1, <1>2 DEF ControlInv
<1>6. StatementsInv'
  BY <1>1 DEF StatementsInv, Independent, Fits, Returned
<1>7. StartInv'
  <2>1. Memory(start')
    BY <1>2 DEF Memory, World
  <2>2. Batched(session) => KeysKnown(start'.obj, start'.tr, lastKey')
    BY <1>2 DEF World
  <2> QED
    BY <2>1, <2>2 DEF StartInv, Memory, KeysKnown
<1>8. GroupInv'
  BY DEF GroupInv
<1> QED
  BY <1>3, <1>4, <1>5, <1>6, <1>7, <1>8 DEF Inv

\* A call that commits.
LEMMA CommitCallInv ==
    ASSUME Inv, CommitCall
    PROVE  Inv'
<1>1. /\ phase = "commit" /\ phase' = "idle" /\ EndCall /\ tx' # "call"
      /\ UNCHANGED <<session, obj, tr, table, lastKey, saved, held, message, results, done, steps>>
  BY DEF CommitCall, memory, data
<1>2. held = <<>> /\ message = <<>> /\ results = <<>> /\ done = 0
  BY <1>1 DEF Inv, ControlInv
<1>3. World(session, obj', tr', table', lastKey')
  BY <1>1 DEF Inv, WorldInv
<1> QED
  BY <1>1, <1>2, <1>3, CallEnds

\* A map that is back has what it had, entry by entry.
LEMMA MapBack ==
    ASSUME NEW u, NEW T, TrackerType(T, Row), Near(u, T, {}, {}, {})
    PROVE  /\ \A p \in Ptrs : u.byPtr[p] = T.byPtr[p]
           /\ \A p \in Ptrs : T.byPtr[p] # Nil => /\ u.entries[T.byPtr[p]] = T.entries[T.byPtr[p]]
                                                  /\ u.snap[T.byPtr[p]] = T.snap[T.byPtr[p]]
           /\ View(u) = View(T)
<1>1. \A p \in Ptrs : u.byPtr[p] = T.byPtr[p]
  BY DEF Near
<1>2. \A p \in Ptrs : T.byPtr[p] # Nil => T.byPtr[p] \in 1 .. Len(T.entries)
  BY DEF TrackerType, Nil
<1>3. \A e \in 1 .. Len(T.entries) : u.entries[e] = T.entries[e] /\ u.snap[e] = T.snap[e]
  BY DEF Near
<1>4. \A p \in Ptrs : T.byPtr[p] # Nil => /\ u.entries[T.byPtr[p]] = T.entries[T.byPtr[p]]
                                          /\ u.snap[T.byPtr[p]] = T.snap[T.byPtr[p]]
  BY <1>2, <1>3
<1>5. View(u) = View(T)
  BY <1>1, <1>4 DEF View
<1> QED
  BY <1>1, <1>4, <1>5

\* The journal of a call leads back to its start.
LEMMA CallUndone ==
    ASSUME Inv, phase # "idle"
    PROVE  Restored(Undone, start)
<1>1. PICK b, B, C : Group(journal, obj, tr, Pending, done, start, b, B, C)
  BY DEF Inv, GroupInv
<1>2. journal \in Seq(Closure)
  BY DEF Inv, QueueInv
<1>3. PICK m : m = [obj |-> obj, tr |-> tr]
  OBVIOUS
<1>4. PICK F : F = Registering(Pending)
  OBVIOUS
<1>5. /\ b \in 0 .. Len(journal) /\ Memory(B) /\ About(journal, b, B, F) /\ Reaches(journal, b, B, C, F, start)
      /\ Back(m, B, C \cup Writes(journal, b, Len(journal)), Drops(journal, b, Len(journal)), F)
  BY <1>1, <1>3, <1>4 DEF Group
<1>6. Restored(rollback(journal, Len(journal), m), start)
  BY <1>2, <1>5, MessageUndone
<1> QED
  BY <1>3, <1>6 DEF Undone

\* The world after an undone call, with either the rows it left or the rows of its start.
LEMMA UndoneWorld ==
    ASSUME Inv, phase # "idle", NEW tb \in {table, saved}
    PROVE  World(session, Undone.obj, Undone.tr, tb, lastKey)
<1>1. Undone.obj = start.obj /\ Near(Undone.tr, start.tr, {}, {}, {})
  BY CallUndone DEF Restored
<1>2. start.obj \in [Ptrs -> Instance] /\ TrackerType(start.tr, Row)
  BY DEF Inv, StartInv, Memory
<1>3. PICK u : u = Undone.tr
  OBVIOUS
<1>4. TrackerType(u, Row) /\ MapOK(u)
  BY <1>1, <1>3 DEF Near
<1>5. Batched(session) => KeysKnown(start.obj, u, lastKey)
  <2>1. Batched(session) => KeysKnown(start.obj, start.tr, lastKey)
    BY DEF Inv, StartInv
  <2>2. \A p \in Ptrs : u.byPtr[p] = start.tr.byPtr[p]
    BY <1>1, <1>2, <1>3, MapBack
  <2>3. \A p \in Ptrs : start.tr.byPtr[p] # Nil => u.entries[start.tr.byPtr[p]] = start.tr.entries[start.tr.byPtr[p]]
    BY <1>1, <1>2, <1>3, MapBack
  <2> QED
    BY <2>1, <2>2, <2>3 DEF KeysKnown
<1>6. tb \in Rows /\ lastKey \in Nat /\ (Batched(session) => Stored(tb, lastKey))
  BY DEF Inv, WorldInv, World
<1> QED
  BY <1>1, <1>2, <1>3, <1>4, <1>5, <1>6 DEF World

\* A call that fails before its commit.
LEMMA FailInv ==
    ASSUME Inv, phase # "idle", NEW code, Fail(code)
    PROVE  Inv'
<1>1. /\ obj' = Undone.obj /\ tr' = Undone.tr /\ phase' = "idle" /\ EndCall /\ tx' # "call"
      /\ held' = <<>> /\ message' = <<>> /\ results' = <<>> /\ done' = 0
      /\ UNCHANGED <<session, lastKey, saved, steps>>
  BY DEF Fail
<1>2. table' \in {table, saved}
  BY DEF Fail
<1>3. World(session, Undone.obj, Undone.tr, table', lastKey)
  BY <1>2, UndoneWorld
<1>4. World(session, obj', tr', table', lastKey')
  BY <1>1, <1>3
<1> QED
  BY <1>1, <1>4, CallEnds

\* A call whose commit reports an error.
LEMMA CommitFailsInv ==
    ASSUME Inv, CommitFails
    PROVE  Inv'
<1>1. /\ phase = "commit" /\ obj' = Undone.obj /\ tr' = Undone.tr /\ phase' = "idle" /\ EndCall /\ tx' # "call"
      /\ UNCHANGED <<session, lastKey, saved, held, message, results, done, steps>> /\ table' \in {table, saved}
  BY DEF CommitFails
<1>2. held = <<>> /\ message = <<>> /\ results = <<>> /\ done = 0
  BY <1>1 DEF Inv, ControlInv
<1>3. World(session, Undone.obj, Undone.tr, table', lastKey)
  BY <1>1, UndoneWorld
<1>4. World(session, obj', tr', table', lastKey')
  BY <1>1, <1>3
<1> QED
  BY <1>1, <1>2, <1>4, CallEnds

-----------------------------------------------------------------------------
(* A completed statement. *)

\* What is true of a message and the held statement is true of the held statement.
LEMMA HeldPart ==
    ASSUME NEW ms \in Seq(Statement), NEW hs \in Seq(Statement), NEW s, NEW o, NEW t,
           Independent(ms \o hs), Fits(s, o, t, ms \o hs, Len(ms))
    PROVE  /\ Independent(hs) /\ Fits(s, o, t, hs, 0)
           /\ PtrsOf(hs) \subseteq PtrsOf(ms \o hs) /\ PtrsOf(hs) \subseteq Ptrs
           /\ Registering(hs) \subseteq Registering(ms \o hs)
<1>1. PICK ws : ws = ms \o hs
  OBVIOUS
<1>2. PICK m \in Nat : m = Len(ms)
  BY LenProperties
<1>3. \A i \in DOMAIN hs : i \in Nat /\ m + i \in DOMAIN ws /\ ws[m + i] = hs[i] /\ m + i > m
  BY <1>1, <1>2
<1>4. Independent(ws) /\ Fits(s, o, t, ws, m)
  BY <1>1, <1>2
<1>5. Independent(hs)
  <2>1. \A i \in DOMAIN hs : hs[i].ptr = NoPtr <=> hs[i].kind \in ByKey
    BY <1>3, <1>4 DEF Independent
  <2>2. \A i, j \in DOMAIN hs : i # j => m + i # m + j
    BY <1>3
  <2>3. \A i, j \in DOMAIN hs : i # j /\ hs[i].ptr = hs[j].ptr => hs[i].ptr = NoPtr
    BY <1>3, <1>4, <2>2 DEF Independent
  <2>4. \A i, j \in DOMAIN hs :
          i # j /\ hs[i].kind # "command" /\ hs[j].kind # "command" /\ hs[i].key # 0 => hs[i].key # hs[j].key
    BY <1>3, <1>4, <2>2 DEF Independent
  <2> QED
    BY <2>1, <2>3, <2>4 DEF Independent
<1>6. Fits(s, o, t, hs, 0)
  BY <1>3, <1>4 DEF Fits
<1>7. PtrsOf(hs) \subseteq PtrsOf(ws)
  BY <1>3 DEF PtrsOf
<1>8. PtrsOf(hs) \subseteq Ptrs
  <2>1. \A i \in DOMAIN hs : hs[i].ptr \in Ptrs \cup {NoPtr}
    <3> SUFFICES ASSUME NEW i \in DOMAIN hs PROVE hs[i].ptr \in Ptrs \cup {NoPtr}
      OBVIOUS
    <3>1. hs[i] \in Statement
      BY StatementAt
    <3> QED
      BY <3>1 DEF Statement
  <2> QED
    BY <2>1 DEF PtrsOf
<1>9. Registering(hs) \subseteq Registering(ws)
  BY <1>3 DEF Registering
<1> QED
  BY <1>1, <1>5, <1>6, <1>7, <1>8, <1>9

\* The statement whose result is judged next can be completed.
LEMMA NextCompletable ==
    ASSUME Inv, Completing, judge(message[done + 1], results[done + 1]) = "ok"
    PROVE  /\ Completable(session, obj, tr, Pending, results, done, lastKey)
           /\ Pending[done + 1] = message[done + 1]
           /\ Fit(message[done + 1], obj, tr)
           /\ Batched(session) /\ message[done + 1].kind = "insert" => results[done + 1].key <= lastKey
<1> DEFINE n == done + 1
<1>1. /\ message \in Seq(Statement) /\ held \in Seq(Statement) /\ results \in Seq(Outcome) /\ done \in Nat
      /\ done < Len(results) /\ Len(results) <= Len(message)
  BY DEF Inv, QueueInv, ControlInv, Completing
<1>2. n \in DOMAIN message /\ n \in DOMAIN results /\ n \in DOMAIN Pending /\ Pending[n] = message[n] /\ n > done
  BY <1>1 DEF Pending
<1>3. Independent(Pending) /\ Fits(session, obj, tr, Pending, done) /\ Returned(session, obj, tr, Pending, results, done, lastKey)
  BY DEF Inv, StatementsInv
<1> HIDE DEF n
<1>4. /\ message[n].kind = "insert" => results[n].key \in Keys
      /\ message[n].kind \notin {"insert", "command"} /\ results[n].affected > 0 => message[n].key \in Keys
      /\ Batched(session) /\ message[n].kind = "insert" => results[n].key <= lastKey
  BY <1>2, <1>3 DEF Returned, Fresh
<1>5. judge(message[n], results[n]) = "ok"
  BY DEF n
<1>6. Counted(message[n], results[n])
  BY <1>4, <1>5, JudgedCounted
<1>7. message[n] \in Statement
  BY <1>1, <1>2, StatementAt
<1>8. Fit(message[n], obj, tr)
  BY <1>2, <1>3, <1>7 DEF Fit, Fits, Independent
<1>9. /\ TrackerType(tr, Row) /\ MapOK(tr) /\ (Batched(session) => KeysKnown(obj, tr, lastKey))
      /\ ~Batched(session) => Len(Pending) <= 1
  BY DEF Inv, WorldInv, World, ControlInv
<1>10. Completable(session, obj, tr, Pending, results, done, lastKey)
  BY <1>1, <1>2, <1>3, <1>6, <1>9 DEF Completable, n
<1> QED
  BY <1>2, <1>4, <1>8, <1>10 DEF n

\* What a completion does to the memory and to the journal.
CompletedGroup(f, K) ==
    /\ \E b, B, C : Group(K, f.obj, f.tr, Pending, done + 1, start, b, B, C)
    /\ K \in Seq(Closure)
    /\ Fits(session, f.obj, f.tr, Pending, done + 1)
    /\ Returned(session, f.obj, f.tr, Pending, results, done + 1, lastKey)
    /\ World(session, f.obj, f.tr, table, lastKey)

\* The completion of a judged statement.
LEMMA CompletedStatement ==
    ASSUME Inv, Completing, judge(message[done + 1], results[done + 1]) = "ok",
           NEW f, f = finish(obj, tr, message[done + 1], results[done + 1]),
           NEW K, K = journal \o [i \in DOMAIN f.undo |-> restoreLater(f.undo[i])]
    PROVE  CompletedGroup(f, K)
<1>1. PICK w : w = message[done + 1]
  OBVIOUS
<1>2. PICK r : r = results[done + 1]
  OBVIOUS
<1>3. /\ Completable(session, obj, tr, Pending, results, done, lastKey)
      /\ Pending[done + 1] = w /\ Fit(w, obj, tr)
      /\ Batched(session) /\ w.kind = "insert" => r.key <= lastKey
  BY <1>1, <1>2, NextCompletable
<1>4. /\ World(session, obj, tr, table, lastKey) /\ obj \in [Ptrs -> Instance] /\ TrackerType(tr, Row) /\ MapOK(tr)
      /\ table \in Rows /\ lastKey \in Nat
  BY DEF Inv, WorldInv, World
<1>5. Counted(w, r) /\ done \in Nat /\ done + 1 \in DOMAIN Pending
  BY <1>2, <1>3 DEF Completable
<1>6. MovesObj(f, obj, w, r) /\ MovesMap(f, tr, w)
  BY <1>1, <1>2, <1>3, <1>4, <1>5, FinishMoves
<1>7. /\ MovesObj(f, obj, Pending[done + 1], results[done + 1])
      /\ MovesMap(f, tr, Pending[done + 1])
  BY <1>2, <1>3, <1>6
<1>8. \A e : f.undo = <<e>> => Dropped(e, f, tr, Pending[done + 1])
  BY <1>3, <1>6 DEF MovesMap
<1>9. \A e : f.undo = <<e>> => tr.entries[e].ptr \notin Registering(Pending)
  BY <1>3, <1>7, <1>8, DroppedLasts
<1>10. f.undo = <<>> \/ \E e \in Nat : f.undo = <<e>>
  BY <1>6 DEF MovesMap, Dropped
<1>11. journal \in Seq(Closure) /\ Pending \in Seq(Statement)
  BY DEF Inv, QueueInv, StatementsInv, Independent
<1>12. Grown(K, journal, f)
  BY <1>10, <1>11, JournalGrows
<1>13. K \in Seq(Closure)
  BY <1>12 DEF Grown
<1>14. PICK b, B, C : Group(journal, obj, tr, Pending, done, start, b, B, C)
  BY DEF Inv, GroupInv, Completing
<1>15. Group(K, f.obj, f.tr, Pending, done + 1, start, b, B, C)
  BY <1>5, <1>7, <1>9, <1>11, <1>12, <1>14, CompleteGroup
<1>16. Fits(session, f.obj, f.tr, Pending, done + 1)
  BY <1>3, <1>7, CompleteFits
<1>17. Returned(session, f.obj, f.tr, Pending, results, done + 1, lastKey)
  BY <1>3, <1>7, CompleteReturned
<1>18. Batched(session) => KeysKnown(f.obj, f.tr, lastKey)
  BY <1>3, <1>4, <1>6, MovedKnown DEF World
<1>19. World(session, f.obj, f.tr, table, lastKey)
  BY <1>4, <1>6, <1>18 DEF World, MovesObj, MovesMap
<1> QED
  BY <1>13, <1>15, <1>16, <1>17, <1>19 DEF CompletedGroup

\* A completion, and the end of the message after the last one.
LEMMA CompleteInv ==
    ASSUME Inv, Complete
    PROVE  Inv'
<1> DEFINE f == finish(obj, tr, message[done + 1], results[done + 1])
           K == journal \o [i \in DOMAIN f.undo |-> restoreLater(f.undo[i])]
<1>1. /\ Completing /\ judge(message[done + 1], results[done + 1]) = "ok"
      /\ obj' = f.obj /\ tr' = f.tr /\ journal' = K
      /\ UNCHANGED <<session, table, lastKey, tx, saved, after, ops, held, start, steps>>
      /\ \/ /\ done + 1 = Len(message)
            /\ phase' = after /\ message' = <<>> /\ results' = <<>> /\ done' = 0
         \/ done + 1 # Len(message) /\ done' = done + 1 /\ UNCHANGED <<phase, message, results>>
  BY DEF Complete, data
<1>2. CompletedGroup(f, K)
  BY <1>1, CompletedStatement
<1> HIDE DEF f, K
<1>3. /\ phase = "send" /\ message \in Seq(Statement) /\ held \in Seq(Statement) /\ results \in Seq(Outcome)
      /\ done \in Nat /\ done < Len(results) /\ Len(results) <= Len(message) /\ Len(message) \in Nat /\ Len(results) \in Nat
  BY <1>1 DEF Inv, QueueInv, ControlInv, Completing
<1>4. WorldInv'
  BY <1>1, <1>2 DEF Inv, WorldInv, CompletedGroup
<1>5. StartInv'
  <2>1. phase' # "idle" /\ phase # "idle"
    BY <1>1, <1>3 DEF Inv, ControlInv
  <2> QED
    BY <1>1, <2>1 DEF Inv, StartInv
<1>6. PICK b, B, C : Group(K, f.obj, f.tr, Pending, done + 1, start, b, B, C)
  BY <1>2 DEF CompletedGroup
<1>7. K \in Seq(Closure)
  BY <1>2 DEF CompletedGroup
<1>8. CASE done + 1 # Len(message)
  <2>1. Pending' = Pending /\ done' = done + 1 /\ UNCHANGED <<phase, message, results>>
    BY <1>1, <1>8 DEF Pending
  <2>2. QueueInv'
    BY <1>1, <1>3, <1>7, <2>1 DEF Inv, QueueInv
  <2>3. ControlInv'
    BY <1>1, <1>3, <1>8, <2>1 DEF Inv, ControlInv
  <2>4. StatementsInv'
    BY <1>1, <1>2, <2>1 DEF Inv, StatementsInv, CompletedGroup
  <2>5. GroupInv'
    BY <1>1, <1>6, <2>1 DEF GroupInv
  <2> QED
    BY <1>4, <1>5, <2>2, <2>3, <2>4, <2>5 DEF Inv
<1>9. CASE done + 1 = Len(message)
  <2>1. phase' = after /\ message' = <<>> /\ results' = <<>> /\ done' = 0
    BY <1>1, <1>3, <1>9
  <2>2. Pending' = held
    BY <1>1, <1>3, <2>1 DEF Pending
  <2>3. Independent(message \o held) /\ Fits(session, f.obj, f.tr, message \o held, Len(message))
    BY <1>2, <1>9 DEF Inv, StatementsInv, CompletedGroup, Pending
  <2>4. /\ Independent(held) /\ Fits(session, f.obj, f.tr, held, 0)
        /\ PtrsOf(held) \subseteq PtrsOf(Pending) /\ PtrsOf(held) \subseteq Ptrs
        /\ Registering(held) \subseteq Registering(Pending)
    BY <1>3, <2>3, HeldPart DEF Pending
  <2>5. Group(K, f.obj, f.tr, held, 0, start, Len(K), [obj |-> f.obj, tr |-> f.tr], PtrsOf(held))
    BY <1>6, <1>7, <2>4, RebaseGroup
  <2>6. GroupInv'
    BY <1>1, <2>1, <2>2, <2>5 DEF GroupInv
  <2>7. StatementsInv'
    <3>1. Returned(session, f.obj, f.tr, held, <<>>, 0, lastKey)
      BY DEF Returned
    <3> QED
      BY <1>1, <2>1, <2>2, <2>4, <3>1 DEF StatementsInv
  <2>8. \A i \in DOMAIN held : Len(message) + i \in DOMAIN Pending /\ Pending[Len(message) + i] = held[i]
    BY <1>3 DEF Pending
  <2>9. QueueInv'
    <3>1. Batched(session) => \A i \in DOMAIN held : held[i].key <= lastKey
      BY <2>8 DEF Inv, QueueInv
    <3> QED
      BY <1>1, <1>7, <2>1, <2>2, <3>1 DEF Inv, QueueInv
  <2>10. ControlInv'
    <3>1. after \in {"prepare", "add", "next", "commit"}
      BY <1>3 DEF Inv, ControlInv
    <3>2. (after = "add" => Len(held) = 1) /\ (after # "add" => held = <<>>)
      BY <1>3 DEF Inv, ControlInv
    <3>3. ~DependsOnMessage(Last(ops))'
      BY <2>1 DEF DependsOnMessage
    <3>4. Len(held) <= 1
      <4>1. CASE Len(held) = 1
        BY <4>1
      <4>2. CASE held = <<>>
        BY <4>2
      <4> QED
        BY <3>2, <4>1, <4>2
    <3> QED
      BY <1>1, <1>3, <2>1, <2>2, <3>1, <3>2, <3>3, <3>4 DEF Inv, ControlInv
  <2> QED
    BY <1>4, <1>5, <2>6, <2>7, <2>9, <2>10 DEF Inv
<1> QED
  BY <1>8, <1>9

-----------------------------------------------------------------------------
(* A prepared statement. *)

\* The message about to take an operation that does not depend on it.
Unrelated(op) ==
    /\ op.ptr # NoPtr => \A i \in DOMAIN message : message[i].ptr # op.ptr
    /\ keyNow(op) # 0 => \A i \in DOMAIN message : message[i].kind # "command" => message[i].key # keyNow(op)

\* The state in which an operation prepares.
LEMMA PrepareState ==
    ASSUME Inv, phase = "prepare"
    PROVE  /\ Last(ops) \in Operation /\ (Batched(session) => Last(ops).key <= lastKey)
           /\ held = <<>> /\ results = <<>> /\ done = 0 /\ Pending = message /\ message \in Seq(Statement)
           /\ message # <<>> => Batched(session)
           /\ Unrelated(Last(ops))
<1>1. ops \in Seq(Operation) /\ ops # <<>> /\ ~DependsOnMessage(Last(ops))
  BY DEF Inv, QueueInv, ControlInv
<1>2. Len(ops) \in DOMAIN ops
  BY <1>1
<1>3. Last(ops) = ops[Len(ops)] /\ Last(ops) \in Operation
  BY <1>1, <1>2 DEF Last
<1>4. Batched(session) => Last(ops).key <= lastKey
  BY <1>2, <1>3 DEF Inv, QueueInv
<1>5. held = <<>> /\ results = <<>> /\ done = 0 /\ message \in Seq(Statement) /\ (message # <<>> => Batched(session))
  BY DEF Inv, QueueInv, ControlInv
<1>6. Pending = message
  BY <1>5 DEF Pending
<1>7. Unrelated(Last(ops))
  BY <1>1 DEF Unrelated, DependsOnMessage
<1> QED
  BY <1>3, <1>4, <1>5, <1>6, <1>7

\* The closure of an operation.
LEMMA RecordWriteOK ==
    ASSUME WorldInv, NEW p \in Ptrs
    PROVE  recordWrite(p) \in Closure /\ Recorded(recordWrite(p), obj, tr, p)
<1>1. PICK i \in Instance : i = obj[p]
  BY DEF WorldInv, World
<1>2. i.key \in Nat /\ i.ver \in Nat /\ i.del \in BOOLEAN /\ i.stamp \in Nat
  BY DEF Instance
<1>3. TrackerType(tr, Row)
  BY DEF WorldInv, World
<1>4. PICK e \in Nat : e = tr.byPtr[p] /\ (e # Nil => e \in 1 .. Len(tr.snap))
  BY <1>3 DEF TrackerType, Nil
<1>5. PICK s \in Row : s = IF e = Nil THEN Seed ELSE tr.snap[e]
  BY <1>3, <1>4, SeedOK DEF TrackerType
<1>6. PICK h \in Nat : h = find(tr, i.key)
  BY <1>3 DEF TrackerType, find, Nil
<1>7. recordWrite(p) = [kind |-> "write", ptr |-> p, key |-> i.key, ver |-> i.ver, del |-> i.del,
                        stamp |-> i.stamp, entry |-> e, snap |-> s, holder |-> h]
  BY <1>1, <1>4, <1>5, <1>6 DEF recordWrite
<1>8. recordWrite(p) \in Closure
  BY <1>2, <1>7 DEF Closure
<1>9. Recorded(recordWrite(p), obj, tr, p)
  BY <1>1, <1>4, <1>5, <1>6, <1>7 DEF Recorded
<1> QED
  BY <1>8, <1>9

\* A statement joins a message whose statements are about other instances and keys.
LEMMA IndependentGrows ==
    ASSUME NEW ws, Independent(ws), NEW w \in Statement, w.ptr = NoPtr <=> w.kind \in ByKey,
           w.ptr # NoPtr => \A i \in DOMAIN ws : ws[i].ptr # w.ptr,
           w.kind # "command" /\ w.key # 0 => \A i \in DOMAIN ws : ws[i].kind # "command" => ws[i].key # w.key
    PROVE  Independent(Append(ws, w))
<1>1. PICK vs : vs = Append(ws, w)
  OBVIOUS
<1>2. PICK n \in Nat : n = Len(ws) + 1
  BY LenProperties DEF Independent
<1>3. /\ vs \in Seq(Statement) /\ DOMAIN vs = DOMAIN ws \cup {n} /\ n \notin DOMAIN ws /\ vs[n] = w
      /\ \A i \in DOMAIN ws : vs[i] = ws[i]
  BY <1>1, <1>2 DEF Independent
<1>4. \A i \in DOMAIN vs : vs[i].ptr = NoPtr <=> vs[i].kind \in ByKey
  BY <1>3 DEF Independent
<1>5. \A i, j \in DOMAIN vs : i # j /\ vs[i].ptr = vs[j].ptr => vs[i].ptr = NoPtr
  BY <1>3 DEF Independent
<1>6. \A i, j \in DOMAIN vs :
        i # j /\ vs[i].kind # "command" /\ vs[j].kind # "command" /\ vs[i].key # 0 => vs[i].key # vs[j].key
  BY <1>3 DEF Independent
<1> QED
  BY <1>1, <1>3, <1>4, <1>5, <1>6 DEF Independent

\* vs are the statements of a message ws with one more.
Joined(vs, ws, w) ==
    /\ \A k \in DOMAIN ws : k \in DOMAIN vs /\ vs[k] = ws[k]
    /\ Len(ws) + 1 \in DOMAIN vs /\ vs[Len(ws) + 1] = w
    /\ DOMAIN vs = DOMAIN ws \cup {Len(ws) + 1}
    /\ PtrsOf(vs) = PtrsOf(ws) \cup ({w.ptr} \ {NoPtr})
    /\ Registering(vs) = Registering(ws) \cup (IF Registers(w) THEN {w.ptr} ELSE {})

\* A statement joins a message.
LEMMA MessageGrows ==
    ASSUME NEW ws, Independent(ws), NEW w \in Statement, w.ptr = NoPtr <=> w.kind \in ByKey,
           NEW vs, vs = Append(ws, w)
    PROVE  Joined(vs, ws, w)
<1>1. PICK n \in Nat : n = Len(ws) + 1
  BY LenProperties DEF Independent
<1>2. /\ DOMAIN vs = DOMAIN ws \cup {n} /\ n \notin DOMAIN ws /\ vs[n] = w
      /\ \A i \in DOMAIN ws : vs[i] = ws[i]
  BY <1>1 DEF Independent
<1>3. PtrsOf(vs) = PtrsOf(ws) \cup ({w.ptr} \ {NoPtr})
  BY <1>2 DEF PtrsOf
<1>4. Registering(vs) = Registering(ws) \cup (IF Registers(w) THEN {w.ptr} ELSE {})
  BY <1>2 DEF Registering
<1> QED
  BY <1>1, <1>2, <1>3, <1>4 DEF Joined

\* A statement that registers is about an instance.
LEMMA RegisteringPtrs ==
    ASSUME NEW ws, Independent(ws)
    PROVE  Registering(ws) \subseteq PtrsOf(ws)
BY DEF Registering, PtrsOf, Registers, Independent, ByKey

\* A statement about a key joins the message.
LEMMA KeyedGroup ==
    ASSUME NEW J, NEW o, NEW t, NEW ws, NEW S, NEW b, NEW B, NEW C,
           Group(J, o, t, ws, 0, S, b, B, C),
           NEW vs, \A k \in DOMAIN ws : k \in DOMAIN vs /\ vs[k] = ws[k],
           PtrsOf(vs) = PtrsOf(ws), Registering(vs) = Registering(ws)
    PROVE  Group(J, o, t, vs, 0, S, b, B, C)
<1>1. Accounted(J, b, B, vs)
  BY DEF Group, Accounted
<1> QED
  BY <1>1 DEF Group

\* An operation on a key prepares.
LEMMA PrepareKeyedInv ==
    ASSUME Inv, Prepare, Last(ops).ptr = NoPtr
    PROVE  Inv'
<1> DEFINE op == Last(ops)
           w == prepare(obj, tr, op)
<1>1. /\ phase = "prepare" /\ w.kind # "refused" /\ journal' = journal /\ obj' = Marked(obj, w)
      /\ (w.kind = "none" /\ phase' = "next" /\ held' = held) \/ (w.kind # "none" /\ phase' = "add" /\ held' = <<w>>)
      /\ UNCHANGED <<session, tr, table, lastKey, tx, saved, after, ops, message, results, done, start, steps>>
  BY DEF Prepare, data
<1>2. /\ op \in Operation /\ (Batched(session) => op.key <= lastKey)
      /\ held = <<>> /\ results = <<>> /\ done = 0 /\ Pending = message /\ message \in Seq(Statement)
      /\ message # <<>> => Batched(session)
      /\ Unrelated(op)
  BY <1>1, PrepareState
<1>3. w \in Statement /\ w.kind \in ByKey /\ w.ptr = NoPtr /\ w.key = op.key /\ w.kind = op.kind /\ Marked(obj, w) = obj
  BY <1>1, <1>2, PrepareKeyed
<1> HIDE DEF op, w
<1>4. obj' = obj /\ phase' = "add" /\ held' = <<w>> /\ w.kind # "none"
  BY <1>1, <1>3 DEF ByKey
<1>5. PICK vs : vs = Append(message, w)
  OBVIOUS
<1>6. Pending' = vs
  <2>1. message \o <<w>> = Append(message, w)
    BY <1>2, <1>3
  <2> QED
    BY <1>1, <1>4, <1>5, <2>1 DEF Pending
<1>7. Independent(message)
  BY <1>2 DEF Inv, StatementsInv
<1>8. /\ \A k \in DOMAIN message : k \in DOMAIN vs /\ vs[k] = message[k]
      /\ Len(message) + 1 \in DOMAIN vs /\ vs[Len(message) + 1] = w
      /\ DOMAIN vs = DOMAIN message \cup {Len(message) + 1}
      /\ PtrsOf(vs) = PtrsOf(message) \cup ({w.ptr} \ {NoPtr})
      /\ Registering(vs) = Registering(message) \cup (IF Registers(w) THEN {w.ptr} ELSE {})
  <2>1. Joined(vs, message, w)
    BY <1>3, <1>5, <1>7, MessageGrows
  <2> QED
    BY <2>1 DEF Joined
<1>9. PtrsOf(vs) = PtrsOf(message) /\ Registering(vs) = Registering(message)
  BY <1>3, <1>8 DEF Registers, ByKey
<1>10. Independent(vs)
  <2>1. op.ptr = NoPtr
    BY DEF op
  <2>2. w.kind # "command" => keyNow(op) = w.key
    BY <1>3, <2>1 DEF keyNow
  <2> QED
    BY <1>2, <1>3, <1>5, <1>7, <2>2, IndependentGrows DEF Unrelated
<1>11. Fits(session, obj, tr, vs, 0)
  <2>1. Fits(session, obj, tr, message, 0)
    BY <1>2 DEF Inv, StatementsInv
  <2> QED
    BY <1>3, <1>8, <2>1 DEF Fits
<1>12. StatementsInv'
  <2>1. Returned(session, obj, tr, vs, <<>>, 0, lastKey)
    BY DEF Returned
  <2> QED
    BY <1>1, <1>2, <1>4, <1>6, <1>10, <1>11, <2>1 DEF StatementsInv
<1>13. GroupInv'
  <2>1. PICK b, B, C : Group(journal, obj, tr, message, 0, start, b, B, C)
    BY <1>1, <1>2 DEF Inv, GroupInv
  <2>2. Group(journal, obj, tr, vs, 0, start, b, B, C)
    BY <1>8, <1>9, <2>1, KeyedGroup
  <2> QED
    BY <1>1, <1>2, <1>4, <1>6, <2>2 DEF GroupInv
<1>14. WorldInv'
  BY <1>1, <1>4 DEF Inv, WorldInv
<1>15. QueueInv'
  <2>1. Batched(session) => \A i \in DOMAIN vs : vs[i].key <= lastKey
    BY <1>2, <1>3, <1>8 DEF Inv, QueueInv
  <2>2. <<w>> \in Seq(Statement)
    BY <1>3
  <2> QED
    BY <1>1, <1>4, <1>6, <2>1, <2>2 DEF Inv, QueueInv
<1>16. ControlInv'
  <2>1. Len(<<w>>) = 1
    OBVIOUS
  <2>2. ~Batched(session) => message = <<>> /\ Len(vs) <= 1
    BY <1>2, <1>5
  <2>3. Len(held') = 1 /\ (~Batched(session') => Len(Pending') <= 1 /\ message' = <<>>)
    BY <1>1, <1>4, <1>6, <2>1, <2>2
  <2>4. results' = <<>> /\ done' = 0
    BY <1>1, <1>2
  <2> QED
    BY <1>4, <2>3, <2>4 DEF ControlInv
<1>17. StartInv'
  BY <1>1, <1>4 DEF Inv, StartInv
<1> QED
  BY <1>12, <1>13, <1>14, <1>15, <1>16, <1>17 DEF Inv

\* Where the holder of an instance's key cannot be: among the instances of a message that it does not
\* depend on.
LEMMA HolderElsewhere ==
    ASSUME Inv, phase = "prepare", NEW op \in Operation, Unrelated(op), NEW p \in Ptrs, p = op.ptr,
           NEW h, h = find(tr, obj[p].key), h # Nil
    PROVE  tr.entries[h].ptr \notin Registering(message)
<1> SUFFICES ASSUME NEW i \in DOMAIN message, Registers(message[i]), message[i].ptr = tr.entries[h].ptr
             PROVE  FALSE
  BY DEF Registering
<1>1. /\ Pending = message /\ done = 0 /\ message \in Seq(Statement) /\ (message # <<>> => Batched(session))
  BY PrepareState
<1>2. Batched(session) /\ i > 0
  BY <1>1
<1>3. TrackerType(tr, Row) /\ MapOK(tr) /\ KeysKnown(obj, tr, lastKey)
  BY <1>2 DEF Inv, WorldInv, World
<1>4. PICK k \in Keys : k = obj[p].key /\ h = tr.byKey[k]
  BY DEF find, Nil
<1>5. h \in 1 .. Len(tr.entries)
  BY <1>3, <1>4 DEF TrackerType, Nil
<1>6. PICK q : q = tr.entries[h].ptr
  OBVIOUS
<1>7. q \in Ptrs
  BY <1>3, <1>5, <1>6, EntryOK
<1>8. tr.byPtr[q] = h /\ tr.entries[h].key = k
  BY <1>3, <1>4, <1>6 DEF MapOK
<1>9. obj[q].key = k
  BY <1>3, <1>7, <1>8 DEF KeysKnown
<1>10. q # NoPtr /\ p # NoPtr
  BY <1>7, WritesAssumption
<1>11. obj[q].key = message[i].key
  BY <1>1, <1>2, <1>6, <1>10 DEF Inv, StatementsInv, Fits
<1>12. keyNow(op) = k /\ k # 0
  BY <1>4, <1>10, KeysAssumption DEF keyNow
<1>13. message[i].kind # "command"
  BY DEF Registers
<1> QED
  BY <1>9, <1>11, <1>12, <1>13 DEF Unrelated

\* No statement of the message is about the key an instance is tracked under.
LEMMA KeyElsewhere ==
    ASSUME Inv, phase = "prepare", NEW op \in Operation, Unrelated(op), NEW p \in Ptrs, p = op.ptr, tr.byPtr[p] # Nil,
           NEW i \in DOMAIN message, message[i].ptr # NoPtr
    PROVE  message[i].key # tr.entries[tr.byPtr[p]].key
<1>1. /\ Pending = message /\ message \in Seq(Statement) /\ (message # <<>> => Batched(session))
  BY PrepareState
<1>2. Batched(session)
  BY <1>1
<1>3. TrackerType(tr, Row) /\ KeysKnown(obj, tr, lastKey)
  BY <1>2 DEF Inv, WorldInv, World
<1>4. PICK e \in 1 .. Len(tr.entries) : e = tr.byPtr[p]
  BY <1>3 DEF TrackerType, Nil
<1>5. tr.entries[e].key \in Keys
  BY <1>3, <1>4, EntryOK
<1>6. tr.entries[e].key = obj[p].key /\ p # NoPtr
  BY <1>3, <1>4, WritesAssumption DEF KeysKnown
<1>7. keyNow(op) = tr.entries[e].key /\ keyNow(op) # 0
  BY <1>5, <1>6, KeysAssumption DEF keyNow
<1>8. message[i].kind # "command"
  BY <1>1 DEF Inv, StatementsInv, Independent, ByKey
<1> QED
  BY <1>4, <1>7, <1>8 DEF Unrelated

\* The group of a prepared operation on an instance: its closure joins the journal, and vs is the
\* message with its statement, if it has one.
LEMMA PreparedGroup ==
    ASSUME Inv, phase = "prepare", NEW op \in Operation, op.ptr # NoPtr, Unrelated(op), NEW w, NEW p \in Ptrs, p = op.ptr,
           Prepares(w, obj, tr, p), NEW vs,
           \/ w.kind = "none" /\ vs = message
           \/ w.kind # "none" /\ vs = Append(message, w)
    PROVE  \E b, B, C : Group(Append(journal, recordWrite(p)), Marked(obj, w), tr, vs, 0, start, b, B, C)
<1>1. Pending = message /\ done = 0 /\ message \in Seq(Statement) /\ WorldInv /\ Independent(message) /\ journal \in Seq(Closure)
  BY PrepareState DEF Inv, StatementsInv, QueueInv
<1>2. PICK b, B, C : Group(journal, obj, tr, message, 0, start, b, B, C)
  BY <1>1 DEF Inv, GroupInv
<1>3. PICK j \in Closure : j = recordWrite(p) /\ Recorded(j, obj, tr, p)
  BY <1>1, RecordWriteOK
<1>4. PICK o2 : o2 = Marked(obj, w)
  OBVIOUS
<1>5. o2 \in [Ptrs -> Instance] /\ \A q \in Ptrs : o2[q].val = obj[q].val /\ (q # p => o2[q] = obj[q])
  BY <1>4 DEF Prepares, Stamped
<1>6. w.ptr = p /\ w.key = obj[p].key /\ p # NoPtr
  BY WritesAssumption DEF Prepares
<1>7. p \notin PtrsOf(message)
  BY DEF Unrelated, PtrsOf
<1>8. Registering(message) \subseteq PtrsOf(message)
  BY <1>1, RegisteringPtrs
<1>9. w.kind # "none" => w \in Statement /\ (w.ptr = NoPtr <=> w.kind \in ByKey)
  BY <1>6 DEF Prepares
<1>10. w.kind # "none" => Joined(vs, message, w)
  BY <1>1, <1>9, MessageGrows
<1>11. \A k \in DOMAIN message : k \in DOMAIN vs /\ vs[k] = message[k]
  BY <1>10 DEF Joined
<1>12. PtrsOf(message) \subseteq PtrsOf(vs) /\ PtrsOf(vs) \subseteq PtrsOf(message) \cup {p}
  BY <1>6, <1>10 DEF Joined
<1>13. Registering(message) \subseteq Registering(vs) /\ Registering(vs) \subseteq Registering(message) \cup {p}
  BY <1>6, <1>10 DEF Joined
<1>14. p \notin PtrsOf(vs) => o2[p] = obj[p]
  BY <1>4, <1>6, <1>10 DEF Joined, Prepares
<1>15. j.holder \notin {Nil, j.entry} =>
           /\ tr.entries[j.holder].ptr \notin Registering(message)
           /\ \E k \in DOMAIN vs : vs[k].ptr # NoPtr /\ vs[k].key = j.key
  <2> SUFFICES ASSUME j.holder \notin {Nil, j.entry}
               PROVE  /\ tr.entries[j.holder].ptr \notin Registering(message)
                      /\ \E k \in DOMAIN vs : vs[k].ptr # NoPtr /\ vs[k].key = j.key
    OBVIOUS
  <2>1. j.holder = find(tr, obj[p].key) /\ j.entry = tr.byPtr[p] /\ j.key = obj[p].key
    BY <1>3 DEF Recorded
  <2>2. tr.entries[j.holder].ptr \notin Registering(message)
    BY <2>1, HolderElsewhere
  <2>3. w.kind # "none"
    BY <2>1 DEF Prepares
  <2>4. Len(message) + 1 \in DOMAIN vs /\ vs[Len(message) + 1] = w
    BY <1>10, <2>3 DEF Joined
  <2> QED
    BY <1>6, <2>1, <2>2, <2>4
<1>16. tr.byPtr[p] # Nil => \A k \in DOMAIN message : message[k].ptr # NoPtr => message[k].key # tr.entries[tr.byPtr[p]].key
  BY KeyElsewhere
<1>17. Group(Append(journal, j), o2, tr, vs, 0, start, b, B, C)
  <2>1. OperationOf(obj, o2, tr, message, vs, p, j)
    BY <1>3, <1>5, <1>7, <1>8, <1>11, <1>12, <1>13, <1>14, <1>15, <1>16 DEF OperationOf
  <2> QED
    BY <1>1, <1>2, <2>1, PrepareGroup
<1> QED
  BY <1>3, <1>4, <1>17

\* The statements of the message with a prepared one.
LEMMA PreparedStatements ==
    ASSUME Inv, phase = "prepare", NEW op \in Operation, op.ptr # NoPtr, Unrelated(op), NEW w, NEW p \in Ptrs, p = op.ptr,
           Prepares(w, obj, tr, p), NEW vs,
           \/ w.kind = "none" /\ vs = message
           \/ w.kind # "none" /\ vs = Append(message, w)
    PROVE  /\ Independent(vs) /\ Fits(session, Marked(obj, w), tr, vs, 0)
           /\ Batched(session) => \A i \in DOMAIN vs : vs[i].key <= lastKey
<1>1. /\ Pending = message /\ done = 0 /\ message \in Seq(Statement)
      /\ Independent(message) /\ Fits(session, obj, tr, message, 0)
      /\ Batched(session) => KeysKnown(obj, tr, lastKey) /\ \A i \in DOMAIN message : message[i].key <= lastKey
  BY PrepareState DEF Inv, StatementsInv, QueueInv, WorldInv, World
<1>2. PICK o2 : o2 = Marked(obj, w)
  OBVIOUS
<1>3. \A q \in Ptrs : o2[q].key = obj[q].key
  BY <1>2 DEF Prepares, Stamped
<1>4. /\ w.ptr = p /\ w.key = obj[p].key /\ p # NoPtr /\ w.entry = tr.byPtr[p]
      /\ w.kind = "update" /\ w.entry = Nil => find(tr, w.key) = Nil
  BY WritesAssumption DEF Prepares
<1>5. \A i \in DOMAIN message : message[i].ptr \in Ptrs \cup {NoPtr}
  <2> SUFFICES ASSUME NEW i \in DOMAIN message PROVE message[i].ptr \in Ptrs \cup {NoPtr}
    OBVIOUS
  <2>1. message[i] \in Statement
    BY <1>1, StatementAt
  <2> QED
    BY <2>1 DEF Statement
<1>6. Fits(session, o2, tr, message, 0)
  BY <1>1, <1>3, <1>5 DEF Fits
<1>7. CASE w.kind = "none"
  BY <1>1, <1>2, <1>6, <1>7
<1>8. CASE w.kind # "none"
  <2>1. w \in Statement /\ (w.ptr = NoPtr <=> w.kind \in ByKey) /\ w.kind # "command" /\ vs = Append(message, w)
    BY <1>4, <1>8 DEF Prepares, ByKey
  <2>2. keyNow(op) = w.key
    BY <1>4 DEF keyNow
  <2>3. Independent(vs)
    BY <1>1, <1>4, <2>1, <2>2, IndependentGrows DEF Unrelated
  <2>4. Joined(vs, message, w)
    BY <1>1, <2>1, MessageGrows
  <2>5. Fits(session, o2, tr, vs, 0)
    <3> SUFFICES ASSUME NEW i \in DOMAIN vs, i > 0, vs[i].ptr # NoPtr
                 PROVE  /\ o2[vs[i].ptr].key = vs[i].key
                        /\ tr.byPtr[vs[i].ptr] = vs[i].entry
                        /\ Batched(session) /\ vs[i].kind = "update" /\ vs[i].entry = Nil => find(tr, vs[i].key) = Nil
      BY DEF Fits
    <3>1. CASE i \in DOMAIN message
      <4>1. vs[i] = message[i]
        BY <2>4, <3>1 DEF Joined
      <4> QED
        BY <1>6, <3>1, <4>1 DEF Fits
    <3>2. CASE i = Len(message) + 1
      <4>1. vs[i] = w
        BY <2>4, <3>2 DEF Joined
      <4> QED
        BY <1>3, <1>4, <4>1
    <3> QED
      BY <2>4, <3>1, <3>2 DEF Joined
  <2>6. Batched(session) => \A i \in DOMAIN vs : vs[i].key <= lastKey
    BY <1>1, <1>4, <2>4 DEF Joined, KeysKnown
  <2> QED
    BY <1>2, <2>3, <2>5, <2>6
<1> QED
  BY <1>7, <1>8

\* An operation prepares: its closure is recorded against the memory of the last message end.
LEMMA PrepareInv ==
    ASSUME Inv, Prepare
    PROVE  Inv'
<1> DEFINE op == Last(ops)
           w == prepare(obj, tr, op)
<1>1. CASE op.ptr = NoPtr
  BY <1>1, PrepareKeyedInv
<1>2. CASE op.ptr # NoPtr
  <2>1. /\ phase = "prepare" /\ w.kind # "refused" /\ journal' = Append(journal, recordWrite(op.ptr)) /\ obj' = Marked(obj, w)
        /\ (w.kind = "none" /\ phase' = "next" /\ held' = held) \/ (w.kind # "none" /\ phase' = "add" /\ held' = <<w>>)
        /\ UNCHANGED <<session, tr, table, lastKey, tx, saved, after, ops, message, results, done, start, steps>>
    BY <1>2 DEF Prepare, data
  <2>2. /\ op \in Operation
        /\ held = <<>> /\ results = <<>> /\ done = 0 /\ Pending = message /\ message \in Seq(Statement)
        /\ message # <<>> => Batched(session)
        /\ Unrelated(op)
    BY <2>1, PrepareState
  <2>3. WorldInv /\ obj \in [Ptrs -> Instance] /\ TrackerType(tr, Row) /\ MapOK(tr) /\ steps \in Nat
    BY DEF Inv, WorldInv, World
  <2>4. Prepares(w, obj, tr, op.ptr) /\ op.ptr \in Ptrs
    BY <1>2, <2>1, <2>2, <2>3, PrepareOK
  <2> HIDE DEF w, op
  <2>5. PICK p \in Ptrs : p = op.ptr
    BY <2>4
  <2>6. Prepares(w, obj, tr, p)
    BY <2>4, <2>5
  <2>7. PICK vs : (w.kind = "none" /\ vs = message) \/ (w.kind # "none" /\ vs = Append(message, w))
    OBVIOUS
  <2>8. Pending' = vs /\ held' \in Seq(Statement)
    <3>1. CASE w.kind = "none"
      BY <2>1, <2>2, <2>7, <3>1 DEF Pending
    <3>2. CASE w.kind # "none"
      <4>1. w \in Statement
        BY <2>6, <3>2 DEF Prepares
      <4>2. message \o <<w>> = Append(message, w) /\ <<w>> \in Seq(Statement)
        BY <2>2, <4>1
      <4> QED
        BY <2>1, <2>7, <3>2, <4>2 DEF Pending
    <3> QED
      BY <3>1, <3>2
  <2>9. \E b, B, C : Group(Append(journal, recordWrite(p)), Marked(obj, w), tr, vs, 0, start, b, B, C)
    BY <1>2, <2>1, <2>2, <2>5, <2>6, <2>7, PreparedGroup
  <2>10. GroupInv'
    BY <2>1, <2>2, <2>5, <2>8, <2>9 DEF GroupInv
  <2>11. /\ Independent(vs) /\ Fits(session, Marked(obj, w), tr, vs, 0)
         /\ Batched(session) => \A i \in DOMAIN vs : vs[i].key <= lastKey
    BY <1>2, <2>1, <2>2, <2>5, <2>6, <2>7, PreparedStatements
  <2>12. StatementsInv'
    <3>1. Returned(session, Marked(obj, w), tr, vs, <<>>, 0, lastKey)
      BY DEF Returned
    <3> QED
      BY <2>1, <2>2, <2>8, <2>11, <3>1 DEF StatementsInv
  <2>13. WorldInv'
    <3>1. Marked(obj, w) \in [Ptrs -> Instance] /\ \A q \in Ptrs : Marked(obj, w)[q].key = obj[q].key
      BY <2>6 DEF Prepares, Stamped
    <3>2. World(session, Marked(obj, w), tr, table, lastKey)
      BY <2>3, <3>1, SameKeys
    <3> QED
      BY <2>1, <2>3, <3>2 DEF WorldInv
  <2>14. QueueInv'
    <3>1. journal' \in Seq(Closure)
      <4>1. recordWrite(p) \in Closure /\ journal \in Seq(Closure)
        BY <2>3, RecordWriteOK DEF Inv, QueueInv
      <4> QED
        BY <2>1, <2>5, <4>1
    <3> QED
      BY <2>1, <2>8, <2>11, <3>1 DEF Inv, QueueInv
  <2>15. StartInv'
    BY <2>1 DEF Inv, StartInv
  <2>16. ControlInv'
    <3>1. results' = <<>> /\ done' = 0
      BY <2>1, <2>2
    <3>2. ~Batched(session) => message = <<>> /\ Len(vs) <= 1
      BY <2>2, <2>7
    <3>3. ~Batched(session') => Len(Pending') <= 1 /\ message' = <<>>
      BY <2>1, <2>8, <3>2
    <3>4. (phase' = "next" /\ held' = <<>>) \/ (phase' = "add" /\ Len(held') = 1)
      BY <2>1, <2>2
    <3> QED
      BY <3>1, <3>3, <3>4 DEF ControlInv
  <2> QED
    BY <2>10, <2>12, <2>13, <2>14, <2>15, <2>16 DEF Inv
<1> QED
  BY <1>1, <1>2

-----------------------------------------------------------------------------
(* The theorems. *)

\* Every step keeps the invariant.
LEMMA NextInv ==
    ASSUME KeysStable, Inv, [Next]_vars
    PROVE  Inv'
<1>1. CASE UNCHANGED vars
  <2>1. /\ UNCHANGED <<session, obj, tr, table, lastKey, tx, saved, results, done, journal, start, steps>>
        /\ UNCHANGED <<phase, after, ops, held, message>>
    BY <1>1 DEF vars
  <2>2. Pending' = Pending
    BY <2>1 DEF Pending
  <2>3. WorldInv'
    BY <2>1 DEF Inv, WorldInv
  <2>4. QueueInv'
    BY <2>1, <2>2 DEF Inv, QueueInv
  <2>5. ControlInv'
    BY <2>1, <2>2 DEF Inv, ControlInv, DependsOnMessage, keyNow
  <2>6. StatementsInv'
    BY <2>1, <2>2 DEF Inv, StatementsInv
  <2>7. StartInv'
    BY <2>1 DEF Inv, StartInv
  <2>8. GroupInv'
    BY <2>1, <2>2 DEF Inv, GroupInv
  <2> QED
    BY <2>3, <2>4, <2>5, <2>6, <2>7, <2>8 DEF Inv
<1>2. ASSUME NEW p \in Ptrs, Make(p) \/ Edit(p) \/ Refresh(p) \/ Detach(p) \/ Merge(p)
      PROVE  Inv'
  BY <1>2, ScopeInv, EditInv, RefreshInv, DetachInv, MergeInv
<1>3. ASSUME NEW k \in Keys, Read(k) \/ Outside(k)
      PROVE  Inv'
  BY <1>3, ReadInv, OutsideInv
<1>4. ASSUME NEW op \in Available, ImmediateCall(op) \/ Take(op)
      PROVE  Inv'
  <2>1. op \in Operation
    BY DEF Available
  <2> QED
    BY <1>4, <2>1, ImmediateInv, TakeInv
<1>5. CASE Begin \/ Commit \/ Rollback
  BY <1>5, ScopeInv
<1>6. CASE Send \/ Prepare \/ Overflow \/ Add \/ Drain
  BY <1>6, SendInv, PrepareInv, OverflowInv, AddInv, DrainInv
<1>7. CASE Execute \/ Complete \/ CommitCall \/ CommitFails
  BY <1>7, ExecuteInv, CompleteInv, CommitCallInv, CommitFailsInv
<1>8. CASE PrepareRefused \/ ExecuteFails \/ CompleteRefused
  <2>1. phase # "idle"
    BY <1>8 DEF PrepareRefused, ExecuteFails, Running, CompleteRefused, Completing
  <2>2. \E code : Fail(code)
    BY <1>8 DEF PrepareRefused, ExecuteFails, CompleteRefused
  <2> QED
    BY <2>1, <2>2, FailInv
<1> QED
  BY <1>1, <1>2, <1>3, <1>4, <1>5, <1>6, <1>7, <1>8 DEF Next

\* The invariant holds in every session whose keys are stable, whatever fails and whenever.
THEOREM SpecInv == KeysStable => (Spec => []Inv)
<1> SUFFICES ASSUME KeysStable PROVE Spec => []Inv
  OBVIOUS
<1>1. Init => Inv
  BY InitInv
<1>2. Inv /\ [Next]_vars => Inv'
  BY NextInv
<1> QED
  BY <1>1, <1>2, PTL DEF Spec

\* The tracker keeps one instance per key and one key per instance (OneInstancePerKey) after any
\* sequence of reads, writes, batches, failures, detaches and merges.
THEOREM OneInstance == KeysStable => (Spec => []OneInstancePerKey)
<1> SUFFICES ASSUME KeysStable PROVE Spec => []OneInstancePerKey
  OBVIOUS
<1>1. Inv => OneInstancePerKey
  BY DEF Inv, WorldInv, World, OneInstancePerKey
<1> QED
  BY <1>1, SpecInv, PTL

\* What a failed call leaves, one step.
UndoneStep ==
    phase # "idle" /\ phase' = "idle" /\ result' # "ok" =>
        /\ obj' = start.obj
        /\ View(tr') = View(start.tr)
        /\ tx = "call" /\ result' # "commit" => table' = start.table

\* A step that ends a call with an error gives the memory of its start back.
LEMMA FailureUndone ==
    ASSUME Inv, [Next]_vars
    PROVE  UndoneStep
<1> SUFFICES ASSUME phase # "idle", phase' = "idle", result' # "ok"
             PROVE  /\ obj' = start.obj
                    /\ View(tr') = View(start.tr)
                    /\ tx = "call" /\ result' # "commit" => table' = start.table
  BY DEF UndoneStep
<1>1. \/ PrepareRefused \/ ExecuteFails \/ CompleteRefused \/ CommitFails
  <2>1. ~UNCHANGED vars
    BY DEF vars
  <2>2. ~Step
    BY DEF Step
  <2>3. ~\E p \in Ptrs : Make(p) \/ Edit(p) \/ Refresh(p) \/ Detach(p) \/ Merge(p)
    BY <2>2 DEF Make, Edit, Refresh, Detach, Merge
  <2>4. ~\E k \in Keys : Read(k) \/ Outside(k)
    BY <2>2 DEF Read, Outside
  <2>5. ~\E op \in Available : ImmediateCall(op) \/ Take(op)
    BY <2>2 DEF ImmediateCall, Take
  <2>6. ~(Begin \/ Commit \/ Rollback \/ Send)
    BY <2>2 DEF Begin, Commit, Rollback, Send
  <2>7. ~(Prepare \/ Overflow \/ Add \/ Drain \/ Execute \/ CommitCall)
    BY DEF Prepare, Overflow, Add, Drain, Execute, Running, CommitCall
  <2>8. ~Complete
    BY DEF Complete, Completing, Inv, ControlInv
  <2> QED
    BY <2>1, <2>3, <2>4, <2>5, <2>6, <2>7, <2>8 DEF Next
<1>2. obj' = Undone.obj /\ tr' = Undone.tr
  BY <1>1 DEF PrepareRefused, ExecuteFails, CompleteRefused, CommitFails, Fail
<1>3. tx = "call" /\ result' # "commit" => table' = saved
  BY <1>1 DEF PrepareRefused, ExecuteFails, CompleteRefused, CommitFails, Fail
<1>4. Undone.obj = start.obj /\ Near(Undone.tr, start.tr, {}, {}, {})
  BY CallUndone DEF Restored
<1>5. View(Undone.tr) = View(start.tr)
  BY <1>4, MapBack DEF Inv, StartInv, Memory
<1>6. tx = "call" => saved = start.table
  BY DEF Inv, StartInv
<1> QED
  BY <1>2, <1>3, <1>4, <1>5, <1>6

\* A batch that fails, at whatever statement and for whatever reason, leaves the instances and the map
\* as they were when it was sent, and the rows too if the transaction was its own (FailedSendUndone).
THEOREM SendUndone == KeysStable => (Spec => FailedSendUndone)
<1> SUFFICES ASSUME KeysStable PROVE Spec => FailedSendUndone
  OBVIOUS
<1>1. Inv /\ [Next]_vars => UndoneStep
  BY FailureUndone
<1>2. Spec => [][UndoneStep]_vars
  BY <1>1, SpecInv, PTL DEF Spec
<1> QED
  BY <1>2 DEF FailedSendUndone, UndoneStep

=============================================================================
