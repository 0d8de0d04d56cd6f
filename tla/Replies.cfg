SPECIFICATION Spec
CONSTANTS
  alice = alice
  bob = bob
  m1 = m1
  m2 = m2
  Users = {alice, bob}
  Messages = {m1, m2}
  From <- CrossFrom
  To <- CrossTo
  None = None
  MaxPipeline = 2
  MaxFaults = 2
CHECK_DEADLOCK FALSE
INVARIANT NoDanglingPreview
INVARIANT ReplyFollowsBasis
INVARIANT AnswerStaysOnTop
