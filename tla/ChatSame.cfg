SPECIFICATION FairChatSpec
CONSTANTS
  alice = alice
  bob = bob
  m1 = m1
  m2 = m2
  Users = {alice, bob}
  Messages = {m1, m2}
  From <- SameFrom
  To <- SameTo
  Chats <- AuthorOrReader
  ListenerErrors = TRUE
  None = None
  MaxPipeline = 5
  MaxFaults = 1
CHECK_DEADLOCK FALSE
INVARIANT ChatTypeOK
INVARIANT RowsMatchMessages
INVARIANT ShownInOrder
PROPERTY NothingVanishes
PROPERTY ScreenCatchesUp
