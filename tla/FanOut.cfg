SPECIFICATION FairSpec
CONSTANTS
  alice = alice
  bob = bob
  m1 = m1
  m2 = m2
  Users = {alice, bob}
  Messages = {m1, m2}
  From <- SameFrom
  To <- SameTo
  None = None
  MaxPipeline = 5
  MaxFaults = 2
CHECK_DEADLOCK FALSE
INVARIANT TypeOK
INVARIANT StoredInOrder
INVARIANT MailboxesAgree
INVARIANT AuthorOrderKept
INVARIANT PreviewNotOvertaken
INVARIANT Inductive
PROPERTY ImplementsContract
PROPERTY EventuallySettled
