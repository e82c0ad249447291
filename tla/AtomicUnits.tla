---------------------------- MODULE AtomicUnits -----------------------------
(***************************************************************************)
(* What a session promises about transactions: the statements executed     *)
(* while it has a scope are one unit, kept whole by the scope's Commit or  *)
(* lost whole; a statement executed under no scope is a unit of its own,   *)
(* or joins one that was dropped and is still to be lost; what was kept    *)
(* stays.                                                                  *)
(***************************************************************************)
CONSTANTS Statements, Scopes, NoTx

VARIABLES
    durable,    \* the statements whose effect is in the database for good
    scope,      \* the session's scope, or NoTx
    unit,       \* the scope whose unit is open, or NoTx
    pending     \* the statements of the unit that is open

Init == durable = {} /\ scope = NoTx /\ unit = NoTx /\ pending = {}

Begin(s) == scope = NoTx /\ unit = NoTx /\ scope' = s /\ unit' = s /\ UNCHANGED <<durable, pending>>

Run(x) == unit # NoTx /\ scope \in {unit, NoTx} /\ pending' = pending \cup {x} /\ UNCHANGED <<durable, scope, unit>>

Alone(x) == unit = NoTx /\ scope = NoTx /\ durable' = durable \cup {x} /\ UNCHANGED <<scope, unit, pending>>

Keep ==
    /\ unit # NoTx /\ unit = scope
    /\ durable' = durable \cup pending /\ pending' = {} /\ scope' = NoTx /\ unit' = NoTx

\* The unit is lost with its scope, before the scope is ended, or after.
Lose == unit # NoTx /\ unit' = NoTx /\ pending' = {} /\ scope' \in {scope, NoTx} /\ durable' = durable

\* The scope is ended; its unit is lost already, or left to be lost.
Drop == scope # NoTx /\ scope' = NoTx /\ UNCHANGED <<durable, unit, pending>>

Next == (\E s \in Scopes : Begin(s)) \/ (\E x \in Statements : Run(x) \/ Alone(x)) \/ Keep \/ Lose \/ Drop

Spec == Init /\ [][Next]_<<durable, scope, unit, pending>>

=============================================================================
