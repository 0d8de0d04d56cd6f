SPECIFICATION Spec
CONSTANTS
  MaxPicks = 3
  Blank = Blank
  NoLoad = NoLoad
  Default = Default
INVARIANT TypeOK
INVARIANT UrlIsLastSaved
INVARIANT ScreenShowsLastPick
