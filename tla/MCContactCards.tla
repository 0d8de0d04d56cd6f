--------------------------- MODULE MCContactCards ---------------------------
(* Two users who add each other, write to each other and change photos.    *)
EXTENDS ContactCards, TLC

CONSTANTS alice, bob

Swap == Permutations({alice, bob})
=============================================================================
