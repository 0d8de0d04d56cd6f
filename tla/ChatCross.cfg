SPECIFICATION ChatSpec
CONSTANTS
  alice = alice
  bob = bob
  m1 = m1
  m2 = m2
  Users = {alice, bob}
  Messages = {m1, m2}
  From <- CrossFrom
  To <- CrossTo
  Chats <- Author
  ListenerErrors = FALSE
  None = None
  MaxPipeline = 1
  MaxFaults = 1
CHECK_DEADLOCK FALSE
INVARIANT ReplyShownBelow
