SPECIFICATION FairSpec
CONSTANTS
  Peers <- TwoPeers
  AddRow = AddRow
  NoRow = NoRow
  MaxLoads = 2
  MaxListeners = 2
  MaxAdds = 1
CHECK_DEADLOCK FALSE
INVARIANT TypeOK
INVARIANT RowsInSync
INVARIANT DuplicatesNeedOverlap
INVARIANT KnownContactsListed
INVARIANT LeaksAreRepeatedTaps
PROPERTY HomeScreenCatchesUp
