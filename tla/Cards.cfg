SPECIFICATION Spec
CONSTANTS
  alice = alice
  bob = bob
  Users = {alice, bob}
  Blank = Blank
  None = None
  MaxPhotos = 1
SYMMETRY Swap
INVARIANT TypeOK
INVARIANT ConversationsLeadToPeer
INVARIANT CardsShowTheirUser
INVARIANT BlankNamesComeFromTheirUser
