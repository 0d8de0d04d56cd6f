SPECIFICATION Spec
CONSTANTS
  alice = alice
  bob = bob
  Users = {alice, bob}
  Blank = Blank
  None = None
  MaxPhotos = 1
SYMMETRY Swap
PROPERTY RecipientPreviewNamesSender
