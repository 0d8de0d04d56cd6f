----------------------------- MODULE MCDirectory -----------------------------
(* Two users who register and look each other, or themselves, up.           *)
EXTENDS Directory, TLC

CONSTANTS alice, bob

Swap == Permutations({alice, bob})
=============================================================================
