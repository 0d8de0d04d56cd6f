--------------------------- MODULE MCMessageFanOut ---------------------------
(* Two messages of one author, as many as can follow one another, or a       *)
(* message each way, which may cross or be question and answer.              *)
EXTENDS MessageFanOut, TLC

CONSTANTS alice, bob, m1, m2

SameFrom == (m1 :> alice) @@ (m2 :> alice)
SameTo   == (m1 :> bob) @@ (m2 :> bob)

CrossFrom == (m1 :> alice) @@ (m2 :> bob)
CrossTo   == (m1 :> bob) @@ (m2 :> alice)
=============================================================================
