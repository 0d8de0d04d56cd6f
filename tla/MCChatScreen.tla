----------------------------- MODULE MCChatScreen -----------------------------
(* The chat of two users: a message each way, seen by one of them, or two of *)
(* the same author, seen by either.                                          *)
EXTENDS ChatScreen, TLC

CONSTANTS alice, bob, m1, m2

CrossFrom == (m1 :> alice) @@ (m2 :> bob)
CrossTo   == (m1 :> bob) @@ (m2 :> alice)

SameFrom == (m1 :> alice) @@ (m2 :> alice)
SameTo   == (m1 :> bob) @@ (m2 :> bob)

AuthorOrReader == {<<alice, bob>>, <<bob, alice>>}
Author == {<<alice, bob>>}
=============================================================================
