SPECIFICATION FairSpec
CONSTANTS
  alice = alice
  bob = bob
  Users = {alice, bob}
  None = None
  Unheard = Unheard
  MaxRequests = 2
  MaxNavs = 3
CHECK_DEADLOCK FALSE
INVARIANT TypeOK
INVARIANT ScreensOfSession
PROPERTY SignedInReachesHome
