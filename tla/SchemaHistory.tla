---------------------------- MODULE SchemaHistory ----------------------------
(***************************************************************************)
(* What the migration runner promises, whoever runs it and however often:  *)
(* the recorded history changes only as if each successful command had run *)
(* alone and at once, on the history as it was at that instant, and a      *)
(* refused or failed command had not run at all (spec/migrations.md,       *)
(* "Recording and integrity" and "Locking and atomicity").                 *)
(***************************************************************************)
CONSTANTS
    Commands,            \* the commands an operator may issue
    Refusal(_, _),       \* the code a command is refused with on a history, or "ok"
    TargetRows(_, _)     \* the history an admitted command leaves

VARIABLE rows            \* the committed content of schema_version

Init == rows = {}

Run(c) ==
    /\ rows' = TargetRows(c, rows)
    /\ Refusal(c, rows) = "ok"

Next == \E c \in Commands : Run(c)

Spec == Init /\ [][Next]_rows

=============================================================================
