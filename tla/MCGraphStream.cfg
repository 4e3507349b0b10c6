SPECIFICATION FairSpec
CONSTANTS
  Items = {i1}
  Looks = {up, down}
  Rests = {r1}
  Ticker = ticker
  Refreshes = {refresh}
  Browsers = {b1}
  MaxWire = 1
  MaxChanges = 1
  MaxTroubles = 1
  None = None
INVARIANTS
  TypeOK
  DiffHasBase
  InStep
PROPERTIES
  EventuallyGraph
  Settles
