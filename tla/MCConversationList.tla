------------------------- MODULE MCConversationList -------------------------
(* Two peers: two rows are the fewest that can be confused or overrun.     *)
EXTENDS ConversationList, TLC

TwoPeers == {1, 2}
=============================================================================
