--------------------------- MODULE MCSessionWrites ---------------------------
(***************************************************************************)
(* One stored row, two instances and two keys for what is inserted.        *)
(***************************************************************************)
EXTENDS SessionWrites

MCSeed == [ver |-> 1, val |-> "a", del |-> FALSE, stamp |-> 0]

Used(options, most, batched) == [options |-> options, steps |-> most, ops |-> batched]

\* Batching off, with reused keys and edited key fields; messages of one round trip with a parameter cap
\* and counts read back; messages whose statements run one at a time; a type with a soft-delete flag and a stamp.
MCSessions ==
    {Used({"keyReuse", "keyEdits"}, 4, 2),
     Used({"auto", "oneRoundTrip", "parameterCap", "reportsCounts"}, 4, 2),
     Used({"auto"}, 3, 3),
     Used({"auto", "oneRoundTrip", "hooks"}, 4, 2)}

\* Where operations share a message no key changes hands: the hypothesis under which the properties are
\* proved for every number of instances, keys and statements.
ASSUME KeysStable ==
    \A s \in MCSessions : "auto" \in s.options => s.options \cap {"keyEdits", "keyReuse"} = {}

\* The message of one round trip that an application edits key fields beside.
MCUndoneSessions == {Used({"auto", "oneRoundTrip", "keyEdits"}, 4, 2)}

PtrSymmetry == Permutations(Ptrs)

=============================================================================
