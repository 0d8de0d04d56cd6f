------------------------------ MODULE MCSession ------------------------------
(* Two accounts, so that one may become current behind the other's screen.  *)
EXTENDS Session

CONSTANTS alice, bob

=============================================================================
