SPECIFICATION Spec
CONSTANTS
  alice = alice
  bob = bob
  Users = {alice, bob}
  MaxLookups = 1
SYMMETRY Swap
INVARIANT TypeOK
INVARIANT UnprofiledWereCutShort
INVARIANT ContactsAreOthersProfiles
INVARIANT NotRegisteredOnlyUnseen
