-------------------------- MODULE Authoring_proofs --------------------------
(***************************************************************************)
(* What the commands do to the author's work: for every set of objects and *)
(* models, every number of versions and edits, and an interruption of the  *)
(* commit phase at any file.  What a diff finds and what a step contains   *)
(* play no part; that the planned steps are a sequence does, because the   *)
(* refusals speak of the set of its members and the commit phase of its    *)
(* places.                                                                 *)
(***************************************************************************)
EXTENDS Authoring, FiniteSetTheorems, TLAPS

\* The tree has a place for the root of every version and for a step of every object in it, and the Set
\* is no larger than the tree.
TreeInv ==
    /\ registered \in 0..MaxVersion
    /\ DOMAIN tree = {"root", "file", "snap"}
    /\ DOMAIN tree.root = Versions
    /\ DOMAIN tree.file = Versions
    /\ \A v \in Versions : DOMAIN tree.file[v] = Objects

-----------------------------------------------------------------------------
(***************************************************************************)
(* The planned steps are a sequence, and the commit phase its files        *)
(***************************************************************************)
\* Listed gives a sequence.
LEMMA ListedIsSequence ==
    ASSUME NEW order, NEW n \in Nat, DOMAIN order = 1..n, NEW set
    PROVE  \E m \in Nat : DOMAIN Listed(order, set) = 1..m
  <1> DEFINE at == {i \in DOMAIN order : order[i] \in set}
  <1>1. IsFiniteSet(1..n)
    BY FS_Interval
  <1>2. IsFiniteSet(at)
    BY <1>1, FS_Subset
  <1>3. Cardinality(at) \in Nat
    BY <1>2, FS_CardinalityType
  <1> QED
    BY <1>3 DEF Listed

\* A function on 1..n is a sequence of its values.
LEMMA IsSequence ==
    ASSUME NEW n \in Nat, NEW s, s = [i \in 1..n |-> s[i]]
    PROVE  s \in Seq(ToSet(s)) /\ Len(s) = n /\ DOMAIN s = 1..n
  <1>1. DOMAIN s = 1..n /\ \A i \in 1..n : s[i] \in ToSet(s)
    BY DEF ToSet
  <1>2. s \in [1..n -> ToSet(s)]
    BY <1>1
  <1> QED
    BY <1>2

\* Listing the members of a set in the order of a sequence gives a sequence.
LEMMA ListedIn ==
    ASSUME NEW S, NEW order \in Seq(S), NEW set
    PROVE  Listed(order, set) \in Seq(ToSet(Listed(order, set)))
  <1>1. Len(order) \in Nat /\ DOMAIN order = 1..Len(order)
    OBVIOUS
  <1>2. PICK m \in Nat : DOMAIN Listed(order, set) = 1..m
    BY <1>1, ListedIsSequence
  <1>3. Listed(order, set) = [i \in 1..m |-> Listed(order, set)[i]]
    BY <1>2 DEF Listed
  <1> QED
    BY <1>2, <1>3, IsSequence

\* A sequence is one of its own members.
LEMMA OfItsMembers ==
    ASSUME NEW S, NEW s \in Seq(S)
    PROVE  Len(s) \in Nat /\ s \in Seq(ToSet(s))
  <1>1. Len(s) \in Nat /\ s = [i \in 1..Len(s) |-> s[i]]
    OBVIOUS
  <1> QED
    BY <1>1, IsSequence

\* The empty sequence has no members.
LEMMA NoMembers == ToSet(<<>>) = {}
BY DEF ToSet

\* The concatenation of two sequences has the members of both.
LEMMA Concatenated ==
    ASSUME NEW S, NEW T, NEW s \in Seq(S), NEW t \in Seq(T)
    PROVE  s \o t \in Seq(S \cup T)
OBVIOUS

\* The steps a diff plans are a sequence of its own members.
LEMMA PlannedIsSequence ==
    ASSUME NEW v, NEW diffs
    PROVE  PlannedSteps(v, diffs) \in Seq(ToSet(PlannedSteps(v, diffs)))
  <1>1. EntityOrder \in Seq(Tables \cup Views) /\ TriggerOrder \in Seq(Triggers)
    BY AuthoringAssumption
  <1>2. PICK new : new = NewTables(v)
    OBVIOUS
  <1>3. new \in Seq(ToSet(new))
    BY <1>1, <1>2, ListedIn DEF NewTables
  <1>4. topologicalByForeignKey(new) = [i \in DOMAIN new |-> visitAll(new)[i]]
    BY DEF topologicalByForeignKey
  <1>5. PICK first : first = topologicalByForeignKey(new)
    OBVIOUS
  <1>6. Len(new) \in Nat /\ DOMAIN new = 1..Len(new)
    BY <1>3
  <1>7. first = [i \in 1..Len(new) |-> first[i]]
    BY <1>4, <1>5, <1>6
  <1>8. first \in Seq(ToSet(first))
    BY <1>6, <1>7, IsSequence
  <1>9. PICK modified : modified = ModifiedTables(diffs)
    OBVIOUS
  <1>10. modified \in Seq(ToSet(modified))
    BY <1>1, <1>9, ListedIn DEF ModifiedTables
  <1>11. PICK views : views = Listed(EntityOrder, {o \in Views : Changed(o, v)})
    OBVIOUS
  <1>12. views \in Seq(ToSet(views))
    BY <1>1, <1>11, ListedIn
  <1>13. PICK linked : linked = Listed(TriggerOrder, {g \in Triggers : Changed(g, v)})
    OBVIOUS
  <1>14. linked \in Seq(ToSet(linked))
    BY <1>1, <1>13, ListedIn
  <1>15. PICK removed : removed = Listed(TriggerOrder, triggerRemovals(v))
    OBVIOUS
  <1>16. removed \in Seq(ToSet(removed))
    BY <1>1, <1>15, ListedIn
  <1>17. PICK steps : steps = first \o modified \o views \o linked \o removed
    OBVIOUS
  <1>18. PlannedSteps(v, diffs) = steps
    BY <1>2, <1>5, <1>9, <1>11, <1>13, <1>15, <1>17 DEF PlannedSteps
  <1>19. PICK S : steps \in Seq(S)
    <2>1. first \o modified \in Seq(ToSet(first) \cup ToSet(modified))
      BY <1>8, <1>10, Concatenated
    <2>2. (first \o modified) \o views \in Seq((ToSet(first) \cup ToSet(modified)) \cup ToSet(views))
      BY <1>12, <2>1, Concatenated
    <2>3. ((first \o modified) \o views) \o linked
             \in Seq(((ToSet(first) \cup ToSet(modified)) \cup ToSet(views)) \cup ToSet(linked))
      BY <1>14, <2>2, Concatenated
    <2>4. (((first \o modified) \o views) \o linked) \o removed
             \in Seq((((ToSet(first) \cup ToSet(modified)) \cup ToSet(views)) \cup ToSet(linked)) \cup ToSet(removed))
      BY <1>16, <2>3, Concatenated
    <2> QED
      BY <1>17, <2>4
  <1>20. steps \in Seq(ToSet(steps))
    BY <1>19, OfItsMembers
  <1> QED
    BY <1>18, <1>20

\* What one operation of the commit phase may be: a step that is written is a planned one, and only an
\* amend deletes; a root is removed or written with the marker EmitRoot gives it.
FileOperation(w, v, amend, draft, steps) ==
    /\ w.place = "step" => amend \/ w.object \in ToSet(steps)
    /\ w.place = "root" => w.content = NoFile \/ w.content = EmitRoot(v, draft, steps)

\* Every operation of a commit phase is one of those.
LEMMA CommitOperations ==
    ASSUME NEW v, NEW amend \in BOOLEAN, NEW draft, NEW diffs, NEW steps, steps \in Seq(ToSet(steps))
    PROVE  LET plan == CommitPlan(v, amend, draft, steps, diffs)
           IN  /\ Len(plan) \in Nat
               /\ \A i \in 1..Len(plan) : FileOperation(plan[i], v, amend, draft, steps)
  <1> DEFINE Root(content) == <<[place |-> "root", object |-> "root", content |-> content]>>
             Op(w) == FileOperation(w, v, amend, draft, steps)
             Stale(place, objects, none) ==
                 [i \in DOMAIN Listed(EntityOrder \o TriggerOrder, objects) |->
                     [place |-> place, object |-> Listed(EntityOrder \o TriggerOrder, objects)[i], content |-> none]]
             Good(s) == Len(s) \in Nat /\ s \in Seq(ToSet(s)) /\ \A i \in 1..Len(s) : Op(s[i])
  <1>1. EntityOrder \o TriggerOrder \in Seq((Tables \cup Views) \cup Triggers)
    BY AuthoringAssumption, Concatenated
  <1>2. ASSUME NEW place \in {"step", "snapshot"}, NEW objects, NEW none, amend
        PROVE  Good(Stale(place, objects, none))
    <2>1. PICK names : names = Listed(EntityOrder \o TriggerOrder, objects)
      OBVIOUS
    <2>2. names \in Seq(ToSet(names))
      BY <1>1, <2>1, ListedIn
    <2>3. Len(names) \in Nat /\ DOMAIN names = 1..Len(names)
      BY <2>2
    <2>4. PICK s : s = Stale(place, objects, none)
      OBVIOUS
    <2>5. s = [i \in 1..Len(names) |-> [place |-> place, object |-> names[i], content |-> none]]
      BY <2>1, <2>3, <2>4
    <2>6. s \in Seq(ToSet(s)) /\ Len(s) = Len(names)
      BY <2>3, <2>5, IsSequence
    <2>7. \A i \in 1..Len(s) : s[i].place = place
      BY <2>5, <2>6
    <2>8. \A i \in 1..Len(s) : Op(s[i])
      BY <1>2, <2>7 DEF FileOperation
    <2> QED
      BY <2>3, <2>4, <2>6, <2>8
  <1>3. Good(<<>>)
    BY DEF ToSet
  <1>4. ASSUME NEW content, content = NoFile \/ content = EmitRoot(v, draft, steps)
        PROVE  Good(Root(content))
    <2>1. PICK w : w = [place |-> "root", object |-> "root", content |-> content]
      OBVIOUS
    <2>2. Op(w)
      BY <1>4, <2>1 DEF FileOperation
    <2>3. <<w>> \in Seq(ToSet(<<w>>)) /\ Len(<<w>>) = 1 /\ <<w>>[1] = w
      BY DEF ToSet
    <2>4. \A i \in 1..Len(<<w>>) : Op(<<w>>[i])
      BY <2>2, <2>3
    <2>5. Good(<<w>>)
      BY <2>3, <2>4
    <2> QED
      BY <2>1, <2>5
  <1>5. ASSUME NEW s, NEW t, Good(s), Good(t)
        PROVE  Good(s \o t)
    <2>1. /\ s \o t \in Seq(ToSet(s) \cup ToSet(t)) /\ Len(s \o t) = Len(s) + Len(t)
          /\ \A i \in 1..(Len(s) + Len(t)) : (s \o t)[i] = IF i <= Len(s) THEN s[i] ELSE t[i - Len(s)]
      BY <1>5, Concatenated
    <2>2. Len(s) \in Nat /\ Len(t) \in Nat
      BY <1>5
    <2>3. PICK u : u = s \o t
      OBVIOUS
    <2>4. ASSUME NEW i \in 1..Len(u)
          PROVE  Op(u[i])
      <3>1. CASE i <= Len(s)
        BY <1>5, <2>1, <2>2, <2>3, <3>1
      <3>2. CASE ~(i <= Len(s))
        <4>1. i - Len(s) \in 1..Len(t) /\ u[i] = t[i - Len(s)]
          BY <2>1, <2>2, <2>3, <3>2
        <4> QED
          BY <1>5, <4>1
      <3> QED
        BY <3>1, <3>2
    <2>5. PICK S : u \in Seq(S)
      BY <2>1, <2>3
    <2>6. Len(u) \in Nat /\ u \in Seq(ToSet(u))
      BY <2>5, OfItsMembers
    <2>7. Good(u)
      BY <2>4, <2>6
    <2> QED
      BY <2>3, <2>7
  <1>6. PICK writes : writes = [i \in DOMAIN steps |-> [place |-> "step", object |-> steps[i], content |-> EmitStep(steps[i], v, diffs)]]
    OBVIOUS
  <1>7. Good(writes)
    <2>1. Len(steps) \in Nat /\ DOMAIN steps = 1..Len(steps)
      OBVIOUS
    <2>2. writes = [i \in 1..Len(steps) |-> writes[i]]
      BY <1>6, <2>1
    <2>3. writes \in Seq(ToSet(writes)) /\ Len(writes) = Len(steps)
      BY <2>1, <2>2, IsSequence
    <2>4. ASSUME NEW i \in 1..Len(writes)
          PROVE  Op(writes[i])
      <3>1. writes[i].place = "step" /\ writes[i].object = steps[i] /\ steps[i] \in ToSet(steps)
        BY <1>6, <2>1, <2>3 DEF ToSet
      <3> QED
        BY <3>1 DEF FileOperation
    <2> QED
      BY <2>1, <2>3, <2>4
  <1>8. PICK deletions : deletions = (IF steps = <<>> THEN Root(NoFile) ELSE <<>>)
                            \o Stale("step", StepFiles(v) \ ToSet(steps), NoFile)
                            \o Stale("snapshot", {o \in Objects : tree.snap[v][o] # Absent}, Absent)
    OBVIOUS
  <1>9. PICK root : root = IF steps = <<>> THEN <<>> ELSE Root(EmitRoot(v, draft, steps))
    OBVIOUS
  <1>10. Good(root)
    BY <1>3, <1>4, <1>9
  <1>11. Good(IF amend THEN deletions ELSE <<>>)
    <2>1. CASE ~amend
      BY <1>3, <2>1
    <2>2. CASE amend
      <3>1. Good(IF steps = <<>> THEN Root(NoFile) ELSE <<>>)
        BY <1>3, <1>4
      <3>2. Good(Stale("step", StepFiles(v) \ ToSet(steps), NoFile))
        BY <1>2, <2>2
      <3>3. Good(Stale("snapshot", {o \in Objects : tree.snap[v][o] # Absent}, Absent))
        BY <1>2, <2>2
      <3> HIDE DEF Good, Stale, Root
      <3>4. Good((IF steps = <<>> THEN Root(NoFile) ELSE <<>>) \o Stale("step", StepFiles(v) \ ToSet(steps), NoFile))
        BY <1>5, <3>1, <3>2
      <3>5. Good(deletions)
        BY <1>5, <1>8, <3>3, <3>4
      <3> QED
        BY <2>2, <3>5
    <2> QED
      BY <2>1, <2>2
  <1>12. PICK plan : plan = ((IF amend THEN deletions ELSE <<>>) \o writes) \o root
    OBVIOUS
  <1>13. CommitPlan(v, amend, draft, steps, diffs) = plan
    BY <1>6, <1>8, <1>9, <1>12 DEF CommitPlan
  <1>14. Good(plan)
    <2> HIDE DEF Good
    <2>1. Good((IF amend THEN deletions ELSE <<>>) \o writes)
      BY <1>5, <1>7, <1>11
    <2> QED
      BY <1>5, <1>10, <1>12, <2>1
  <1> QED
    BY <1>13, <1>14

-----------------------------------------------------------------------------
(***************************************************************************)
(* One step of the specification                                           *)
(***************************************************************************)
\* A step file that is not the generator's stays as it is, or its author or a forced amend ran.
StepKept(v, o) ==
    /\ tree.file[v][o] # NoFile
    /\ ~tree.file[v][o].generated
    /\ tree'.file[v][o] # tree.file[v][o]
    => last'.cmd \in {"write", "amend by force", "interrupted by force"}

\* A version whose root stays loses the draft marker only in a review.
MarkerKept(v) ==
    /\ tree.root[v] # NoFile /\ tree'.root[v] # NoFile
    /\ tree.root[v].draft /\ ~tree'.root[v].draft
    => last'.cmd = "review"

Careful == (\A v \in Versions, o \in Objects : StepKept(v, o)) /\ \A v \in Versions : MarkerKept(v)

\* The empty tree is in shape.
LEMMA InitInv == Init => TreeInv
  <1> SUFFICES ASSUME Init PROVE TreeInv
    OBVIOUS
  <1>1. MaxVersion \in Nat
    BY AuthoringAssumption
  <1>2. registered = 0 /\ tree.root = [v \in Versions |-> NoFile] /\ tree.file = [v \in Versions |-> [o \in Objects |-> NoFile]]
    BY DEF Init
  <1>3. DOMAIN tree = {"root", "file", "snap"}
    BY DEF Init
  <1> QED
    BY <1>1, <1>2, <1>3 DEF TreeInv

\* A step that leaves the roots and the step files alone.
LEMMA FilesUntouched ==
    ASSUME TreeInv, registered' \in 0..MaxVersion,
           DOMAIN tree' = DOMAIN tree, tree'.root = tree.root, tree'.file = tree.file
    PROVE  TreeInv' /\ Careful
  <1>1. TreeInv'
    BY DEF TreeInv, Versions, Objects
  <1>2. Careful
    BY DEF Careful, StepKept, MarkerKept
  <1> QED
    BY <1>1, <1>2

\* runSnapshot and Shadow write nothing but snapshots.
LEMMA SnapshotsOnly ==
    ASSUME TreeInv, registered' = registered, NEW snap, tree' = [tree EXCEPT !.snap = snap]
    PROVE  TreeInv' /\ Careful
  <1>1. DOMAIN tree' = DOMAIN tree /\ tree'.root = tree.root /\ tree'.file = tree.file
    BY DEF TreeInv
  <1> QED
    BY <1>1, FilesUntouched DEF TreeInv

\* Register and Unregister touch no file.
LEMMA RegisterKeeps ==
    ASSUME TreeInv, Register \/ Unregister
    PROVE  TreeInv' /\ Careful
  <1>1. MaxVersion \in Nat /\ registered \in 0..MaxVersion
    BY AuthoringAssumption DEF TreeInv
  <1>2. registered' \in 0..MaxVersion
    BY <1>1 DEF Register, Unregister
  <1>3. tree' = tree
    BY DEF Register, Unregister
  <1> QED
    BY <1>2, <1>3, FilesUntouched

\* The author writes a step by hand: a root that is there stays as it is.
LEMMA HandWriteKeeps ==
    ASSUME TreeInv, NEW v \in Versions, NEW o \in Tables, HandWrite(v, o)
    PROVE  TreeInv' /\ Careful
  <1> DEFINE step == [generated |-> FALSE, up |-> <<[op |-> "rewrite", table |-> model.defs[o]]>>]
             root == [generated |-> FALSE, draft |-> FALSE, steps |-> <<o>>]
  <1>1. tree' = [tree EXCEPT !.file[v][o] = step, !.root[v] = IF @ = NoFile THEN root ELSE @]
    BY DEF HandWrite
  <1>2. PICK content : content = IF tree.root[v] = NoFile THEN root ELSE tree.root[v]
    OBVIOUS
  <1>3. PICK files : files = [tree.file[v] EXCEPT ![o] = step]
    OBVIOUS
  <1>4. /\ DOMAIN tree' = DOMAIN tree
        /\ tree'.root = [tree.root EXCEPT ![v] = content]
        /\ tree'.file = [tree.file EXCEPT ![v] = files]
    BY <1>1, <1>2, <1>3 DEF TreeInv
  <1>5. last'.cmd = "write"
    BY DEF HandWrite, Command, Quiet
  <1>6. registered' = registered
    BY DEF HandWrite
  <1>7. DOMAIN files = Objects
    BY <1>3 DEF TreeInv
  <1>8. TreeInv'
    BY <1>4, <1>6, <1>7 DEF TreeInv, Versions, Objects
  <1>9. ASSUME NEW w \in Versions
        PROVE  MarkerKept(w)
    <2>1. tree.root[w] # NoFile => tree'.root[w] = tree.root[w]
      BY <1>2, <1>4 DEF TreeInv
    <2> QED
      BY <2>1 DEF MarkerKept
  <1>10. \A w \in Versions, p \in Objects : StepKept(w, p)
    BY <1>5 DEF StepKept
  <1> QED
    BY <1>8, <1>9, <1>10 DEF Careful

\* The author reviews a draft: only a root changes.
LEMMA ReviewKeeps ==
    ASSUME TreeInv, NEW v \in Versions, Review(v)
    PROVE  TreeInv' /\ Careful
  <1>1. PICK content : content = [tree.root[v] EXCEPT !.draft = FALSE]
    OBVIOUS
  <1>2. /\ DOMAIN tree' = DOMAIN tree /\ tree'.file = tree.file
        /\ tree'.root = [tree.root EXCEPT ![v] = content]
    BY <1>1 DEF Review, TreeInv
  <1>3. last'.cmd = "review"
    BY DEF Review, Command, Quiet
  <1>4. registered' = registered
    BY DEF Review
  <1>5. TreeInv'
    BY <1>2, <1>4 DEF TreeInv, Versions, Objects
  <1>6. Careful
    BY <1>2, <1>3 DEF Careful, StepKept, MarkerKept
  <1> QED
    BY <1>5, <1>6

\* The file is the old one, or the content some operation on it left.
WrittenOne(done, place, object, old) ==
    \/ Written(done, place, object, old) = old
    \/ \E w \in done : w.place = place /\ w.object = object /\ Written(done, place, object, old) = w.content

\* A file of the commit phase is one of the two.
LEMMA WrittenIs ==
    ASSUME NEW done, NEW place, NEW object, NEW old
    PROVE  WrittenOne(done, place, object, old)
  <1> DEFINE its == {w \in done : w.place = place /\ w.object = object}
  <1>1. CASE its = {}
    BY <1>1 DEF Written, WrittenOne
  <1>2. CASE its # {}
    <2>1. PICK w : w = CHOOSE x \in its : TRUE
      OBVIOUS
    <2>2. w \in its
      BY <1>2, <2>1
    <2>3. Written(done, place, object, old) = w.content
      BY <1>2, <2>1 DEF Written
    <2> QED
      BY <2>2, <2>3 DEF WrittenOne
  <1> QED
    BY <1>1, <1>2

\* A commit phase, whole or interrupted: what it does to one version.
LEMMA CommitKeeps ==
    ASSUME TreeInv, registered' = registered, NEW v \in Versions,
           NEW amend \in BOOLEAN, NEW force \in BOOLEAN, NEW draft \in BOOLEAN, NEW steps, NEW done,
           \A w \in done : FileOperation(w, v, amend, draft, steps),
           ~OverwriteRefused(v, amend, steps),
           amend => ~HandWritten(v) \/ force,
           force => last'.cmd \in {"amend by force", "interrupted by force"},
           tree' = Committed(v, done)
    PROVE  TreeInv' /\ Careful
  <1>1. PICK content : content = Written(done, "root", "root", tree.root[v])
    OBVIOUS
  <1>2. PICK files : files = [o \in Objects |-> Written(done, "step", o, tree.file[v][o])]
    OBVIOUS
  <1>3. /\ DOMAIN tree' = DOMAIN tree
        /\ tree'.root = [tree.root EXCEPT ![v] = content]
        /\ tree'.file = [tree.file EXCEPT ![v] = files]
    BY <1>1, <1>2 DEF Committed, TreeInv
  <1>4. DOMAIN files = Objects
    BY <1>2
  <1>5. TreeInv'
    BY <1>3, <1>4 DEF TreeInv, Versions, Objects
  <1>6. ASSUME NEW w \in Versions, NEW o \in Objects
        PROVE  StepKept(w, o)
    <2> SUFFICES ASSUME tree.file[w][o] # NoFile, ~tree.file[w][o].generated, tree'.file[w][o] # tree.file[w][o]
                 PROVE  force
      BY DEF StepKept
    <2>1. w = v
      BY <1>3 DEF TreeInv
    <2>2. PICK old : old = tree.file[v][o]
      OBVIOUS
    <2>3. PICK d \in done : d.place = "step" /\ d.object = o
      <3>1. tree'.file[v] = files
        BY <1>3 DEF TreeInv
      <3>2. files[o] = Written(done, "step", o, old)
        BY <1>2, <2>2
      <3>3. Written(done, "step", o, old) # old
        BY <2>1, <2>2, <3>1, <3>2
      <3>4. WrittenOne(done, "step", o, old)
        BY WrittenIs
      <3> QED
        BY <3>3, <3>4 DEF WrittenOne
    <2>4. amend \/ o \in ToSet(steps)
      BY <2>3 DEF FileOperation
    <2>5. CASE amend
      <3>1. o \in StepFiles(v)
        BY <2>1 DEF StepFiles
      <3>2. HandWritten(v)
        BY <2>1, <3>1 DEF HandWritten
      <3> QED
        BY <2>5, <3>2
    <2>6. CASE ~amend
      <3>1. o \in ToSet(steps)
        BY <2>4, <2>6
      <3>2. steps # <<>>
        BY <3>1, NoMembers
      <3> QED
        BY <2>1, <2>6, <3>1, <3>2 DEF OverwriteRefused
    <2> QED
      BY <2>5, <2>6
  <1>7. ASSUME NEW w \in Versions
        PROVE  MarkerKept(w)
    <2> SUFFICES ASSUME tree.root[w] # NoFile, tree'.root[w] # NoFile, tree.root[w].draft, ~tree'.root[w].draft
                 PROVE  FALSE
      BY DEF MarkerKept
    <2>1. w = v /\ tree'.root[w] = content
      <3>1. CASE w = v
        BY <1>3, <3>1 DEF TreeInv
      <3>2. CASE w # v
        BY <1>3, <3>2 DEF TreeInv
      <3> QED
        BY <3>1, <3>2
    <2>2. PICK d \in done : d.place = "root" /\ content = d.content
      <3>1. PICK old : old = tree.root[v]
        OBVIOUS
      <3>2. content = Written(done, "root", "root", old)
        BY <1>1, <3>1
      <3>3. content # old
        BY <2>1, <3>1
      <3>4. WrittenOne(done, "root", "root", old)
        BY WrittenIs
      <3> QED
        BY <3>2, <3>3, <3>4 DEF WrittenOne
    <2>3. content = EmitRoot(v, draft, steps)
      BY <2>1, <2>2 DEF FileOperation
    <2>4. content.draft = (draft \/ (tree.root[v] # NoFile /\ tree.root[v].draft))
      BY <2>3 DEF EmitRoot
    <2> QED
      BY <2>1, <2>4
  <1> QED
    BY <1>5, <1>6, <1>7 DEF Careful

\* A diff or an amend that is refused touches nothing; one that is not commits what it planned.
LEMMA DiffKeeps ==
    ASSUME TreeInv, NEW amend \in BOOLEAN, NEW renames \in RenameFlags, ExecuteDiff(amend, renames)
    PROVE  TreeInv' /\ Careful
  <1>1. PICK v : v = IF amend THEN registered ELSE registered + 1
    OBVIOUS
  <1>2. PICK diffs : diffs = TableDiffs(v, renames)
    OBVIOUS
  <1>3. PICK steps : steps = PlannedSteps(v, diffs)
    OBVIOUS
  <1>4. registered' = registered /\ v <= MaxVersion
    BY <1>1 DEF ExecuteDiff
  <1>5. PICK force \in BOOLEAN, draft \in BOOLEAN, allowRemove \in BOOLEAN :
           /\ force => amend
           /\ IF (amend /\ ~locateVersionFiles(v, force)) \/ DiffRefused(v, amend, diffs, steps)
                 \/ (Destructive(v, diffs) /\ ~allowRemove)
              THEN UNCHANGED <<tree, odd>> /\ last' = Quiet
              ELSE Commit(v, amend, force, draft, steps, diffs)
    BY <1>1, <1>2, <1>3 DEF ExecuteDiff
  <1>6. CASE (amend /\ ~locateVersionFiles(v, force)) \/ DiffRefused(v, amend, diffs, steps)
             \/ (Destructive(v, diffs) /\ ~allowRemove)
    <2>1. tree' = tree
      BY <1>5, <1>6
    <2> QED
      BY <1>4, <2>1, FilesUntouched DEF TreeInv
  <1>7. CASE ~((amend /\ ~locateVersionFiles(v, force)) \/ DiffRefused(v, amend, diffs, steps)
               \/ (Destructive(v, diffs) /\ ~allowRemove))
    <2>1. PICK writes : writes = CommitPlan(v, amend, draft, steps, diffs)
      OBVIOUS
    <2>2. PICK done \in 0..Len(writes) :
             /\ tree' = Committed(v, {writes[i] : i \in 1..done})
             /\ Command(IF done = Len(writes) THEN DiffName(amend, force)
                        ELSE IF force THEN "interrupted by force" ELSE "interrupted", v, TRUE)
      BY <1>5, <1>7, <2>1 DEF Commit
    <2>3. steps \in Seq(ToSet(steps))
      BY <1>3, PlannedIsSequence
    <2>4. Len(writes) \in Nat /\ \A i \in 1..Len(writes) : FileOperation(writes[i], v, amend, draft, steps)
      BY <2>1, <2>3, CommitOperations
    <2>5. \A w \in {writes[i] : i \in 1..done} : FileOperation(w, v, amend, draft, steps)
      <3>0. Len(writes) \in Nat
        BY <2>4
      <3>1. done \in Nat /\ done <= Len(writes)
        BY <3>0
      <3>2. \A i \in 1..done : i \in 1..Len(writes)
        BY <3>0, <3>1
      <3> QED
        BY <2>4, <3>2
    <2>6. v \in Versions
      <3>1. MaxVersion \in Nat /\ registered \in 0..MaxVersion
        BY AuthoringAssumption DEF TreeInv
      <3>2. amend => v # 0
        BY <1>7 DEF locateVersionFiles
      <3> QED
        BY <1>1, <1>4, <3>1, <3>2 DEF Versions
    <2>7. ~OverwriteRefused(v, amend, steps)
      BY <1>7 DEF DiffRefused
    <2>8. amend => ~HandWritten(v) \/ force
      BY <1>7 DEF locateVersionFiles
    <2>9. force => last'.cmd \in {"amend by force", "interrupted by force"}
      BY <1>5, <2>2 DEF Command, Quiet, DiffName
    <2> QED
      BY <1>4, <2>2, <2>5, <2>6, <2>7, <2>8, <2>9, CommitKeeps
  <1> QED
    BY <1>6, <1>7

\* Every step keeps the tree in shape and the author's work.
LEMMA NextKeeps ==
    ASSUME TreeInv, [Next]_vars
    PROVE  TreeInv' /\ [Careful]_vars
  <1>1. CASE UNCHANGED vars
    <2>1. TreeInv'
      BY <1>1 DEF vars, TreeInv, Versions, Objects
    <2> QED
      BY <1>1, <2>1
  <1>2. ASSUME NEW m \in Models, EditModel(m)
        PROVE  TreeInv' /\ Careful
    BY <1>2, FilesUntouched DEF EditModel, TreeInv
  <1>3. CASE Register \/ Unregister
    BY <1>3, RegisterKeeps
  <1>4. ASSUME NEW v \in Versions, NEW o \in Tables, HandWrite(v, o)
        PROVE  TreeInv' /\ Careful
    BY <1>4, HandWriteKeeps
  <1>5. ASSUME NEW v \in Versions, Review(v)
        PROVE  TreeInv' /\ Careful
    BY <1>5, ReviewKeeps
  <1>6. ASSUME NEW o \in Tables, NEW index \in OutsideIndexes, Hotfix(o, index)
        PROVE  TreeInv' /\ Careful
    <2>1. tree' = tree /\ registered' = registered
      BY <1>6 DEF Hotfix
    <2> QED
      BY <2>1, FilesUntouched DEF TreeInv
  <1>7. CASE runDiff
    BY <1>7, DiffKeeps DEF runDiff
  <1>8. CASE runSnapshot
    <2>1. registered' = registered /\ \E snap : tree' = [tree EXCEPT !.snap = snap]
      BY <1>8 DEF runSnapshot
    <2> QED
      BY <2>1, SnapshotsOnly
  <1>9. CASE runShadow
    <2>1. registered' = registered /\ \E snap : tree' = [tree EXCEPT !.snap = snap]
      BY <1>9 DEF runShadow, Shadow
    <2> QED
      BY <2>1, SnapshotsOnly
  <1>10. ASSUME NEW force \in BOOLEAN, NEW allowDelete \in BOOLEAN, runMigrate(force, allowDelete)
         PROVE  TreeInv' /\ Careful
    <2>1. tree' = tree /\ registered' = registered
      BY <1>10 DEF runMigrate
    <2> QED
      BY <2>1, FilesUntouched DEF TreeInv
  <1> QED
    BY <1>1, <1>2, <1>3, <1>4, <1>5, <1>6, <1>7, <1>8, <1>9, <1>10 DEF Next

-----------------------------------------------------------------------------
\* No command but amend --force replaces or deletes a step file without the generator's header
\* (ExecuteDiff, locateVersionFiles), whatever is registered, half written or amended, for every model,
\* number of versions and point of interruption.
THEOREM AuthorsFilesKept == Spec => HandWrittenKept
  <1>1. Init => TreeInv
    BY InitInv
  <1>2. TreeInv /\ [Next]_vars => TreeInv'
    BY NextKeeps
  <1>3. TreeInv /\ [Next]_vars =>
           [\A v \in Versions, o \in Objects :
               /\ tree.file[v][o] # NoFile
               /\ ~tree.file[v][o].generated
               /\ tree'.file[v][o] # tree.file[v][o]
               => last'.cmd \in {"write", "amend by force", "interrupted by force"}]_vars
    BY NextKeeps DEF Careful, StepKept
  <1> QED
    BY <1>1, <1>2, <1>3, PTL DEF Spec, HandWrittenKept

\* Nothing but a review takes the draft marker from a root that stays (EmitRoot, HasDraftMarker): an
\* amend, forced, interrupted or repeated, never makes an unreviewed draft applicable.
THEOREM DraftsReviewed == Spec => DraftReviewed
  <1>1. Init => TreeInv
    BY InitInv
  <1>2. TreeInv /\ [Next]_vars => TreeInv'
    BY NextKeeps
  <1>3. TreeInv /\ [Next]_vars =>
           [\A v \in Versions :
               /\ tree.root[v] # NoFile /\ tree'.root[v] # NoFile
               /\ tree.root[v].draft /\ ~tree'.root[v].draft
               => last'.cmd = "review"]_vars
    BY NextKeeps DEF Careful, MarkerKept
  <1> QED
    BY <1>1, <1>2, <1>3, PTL DEF Spec, DraftReviewed

=============================================================================
