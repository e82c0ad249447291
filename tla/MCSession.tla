------------------------------ MODULE MCSession -----------------------------
(***************************************************************************)
(* Two contexts, two scopes one after the other, two statements.           *)
(***************************************************************************)
EXTENDS Session

=============================================================================
