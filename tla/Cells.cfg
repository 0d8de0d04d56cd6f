SPECIFICATION FairSpec
CONSTANTS
  anna = anna
  bob = bob
  carla = carla
  top = top
  bottom = bottom
  Persons = {anna, bob, carla}
  Cells = {top, bottom}
  NoPerson = NoPerson
  Blank = Blank
  NoLoad = NoLoad
  Default = Default
INVARIANT TypeOK
INVARIANT RowsShowTheirPerson
PROPERTY PhotosArrive
