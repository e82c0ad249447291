--------------------------- MODULE TraceablePlans ---------------------------
(***************************************************************************)
(* What must be true of the plans and snapshots of all builds for the      *)
(* history to tell the live schema.  The runner checks none of this: it    *)
(* is what the generator, the shadow replay and a team that adds versions  *)
(* in order see to.                                                        *)
(***************************************************************************)
EXTENDS MigrationRunner

\* The definition an applied step takes its object to.
Leaves(step) == step.up[Len(step.up)].def

ObjectsOf(rv) == {rv.steps[j].object : j \in DOMAIN rv.steps}

\* The statements are about o alone and take it to definition d; the columns of a table that they
\* do not set may be left nullable (Left).
Defines(statements, o, d) ==
    /\ statements # <<>>
    /\ \A n \in DOMAIN statements : statements[n].object = o
    /\ ~statements[Len(statements)].guard
    /\ statements[Len(statements)].def = d

\* d is what object o is, in build r, before its i-th version.
Before(r, i, o, d) ==
    \/ d = Absent /\ \A k \in 1 .. i - 1 : o \notin ObjectsOf(Plan[r][k])
    \/ \E k \in 1 .. i - 1 : \E j \in DOMAIN Plan[r][k].steps :
          /\ Plan[r][k].steps[j].object = o
          /\ Leaves(Plan[r][k].steps[j]) = d
          /\ \A m \in k + 1 .. i - 1 : o \notin ObjectsOf(Plan[r][m])

\* A step is about its object, and the SQL text decides what it leaves.
StepsDefine ==
    \A r, q \in Releases : \A i \in DOMAIN Plan[r], k \in DOMAIN Plan[q] :
        \A j \in DOMAIN Plan[r][i].steps, l \in DOMAIN Plan[q][k].steps :
            LET step == Plan[r][i].steps[j]
                other == Plan[q][k].steps[l]
            IN  /\ Defines(step.up, step.object, Leaves(step))
                /\ step.object = other.object /\ computeChecksum(step.up) = computeChecksum(other.up)
                      => Leaves(step) = Leaves(other)

\* Two builds that have a version compose the same objects in it.
SameObjects ==
    \A r, q \in Releases : \A i \in DOMAIN Plan[r], k \in DOMAIN Plan[q] :
        Plan[r][i].version = Plan[q][k].version => ObjectsOf(Plan[r][i]) = ObjectsOf(Plan[q][k])

\* No build works on an object without the earlier work on it in any other build.
ObjectsInOrder ==
    \A r, q \in Releases : \A i \in DOMAIN Plan[r], k \in DOMAIN Plan[q] :
        /\ Plan[q][k].version < Plan[r][i].version
        /\ ObjectsOf(Plan[q][k]) \cap ObjectsOf(Plan[r][i]) # {}
        => \E m \in 1 .. i - 1 : Plan[r][m].version = Plan[q][k].version

\* The snapshots of an object say what the i-th version and the earlier ones of the build left.
SnapshotsTell(r, i, step) ==
    LET o == step.object
        v == Plan[r][i].version
    IN  /\ \A s \in SnapshotsAt(r, o, v) : s.def = Leaves(step)
        /\ \A s \in SnapshotsBefore(r, o, v) : \E k \in 1 .. i - 1 : \E j \in DOMAIN Plan[r][k].steps :
              /\ Plan[r][k].version = s.version
              /\ Plan[r][k].steps[j].object = o
              /\ Leaves(Plan[r][k].steps[j]) = s.def
        /\ \A k \in 1 .. i - 1 : o \in ObjectsOf(Plan[r][k]) => SnapshotsAt(r, o, Plan[r][k].version) # {}

\* A rollback is derived from such snapshots, or written to restore what the version changed.
Reversible ==
    \A r \in Releases : \A i \in DOMAIN Plan[r] : \A j \in DOMAIN Plan[r][i].steps :
        LET step == Plan[r][i].steps[j]
            down == step.down
        IN  IF NeedsDerivation(step)
            THEN SnapshotsAt(r, step.object, Plan[r][i].version) # {} =>
                     down.pre = <<>> /\ down.post = <<>> /\ SnapshotsTell(r, i, step)
            ELSE \E d \in Defs \cup {Absent} :
                     Defines(down.pre \o down.core \o down.post, step.object, d) /\ Before(r, i, step.object, d)

Traceable == StepsDefine /\ SameObjects /\ ObjectsInOrder /\ Reversible

\* Nothing changes the object before a guard has found a definition that is no hotfix.
GuardsFirst(statements) ==
    \A n \in DOMAIN statements :
        statements[n].guard \/ \E m \in 1 .. n - 1 : statements[m].guard /\ statements[m].def \notin HotDefs

\* No version leaves a hotfix, and every change of a view is guarded, unless the view does not exist.
Guarded ==
    \A r \in Releases : \A i \in DOMAIN Plan[r] : \A j \in DOMAIN Plan[r][i].steps :
        LET step == Plan[r][i].steps[j]
            down == step.down
        IN  step.object \in Views =>
                /\ Leaves(step) \notin HotDefs
                /\ Before(r, i, step.object, Absent) \/ GuardsFirst(step.up)
                /\ \/ NeedsDerivation(step)
                   \/ Leaves(step) = Absent
                   \/ GuardsFirst(down.pre \o down.core \o down.post)

=============================================================================
