SPECIFICATION FairSpec
CONSTANTS
  Items = {i1}
  Looks = {up, down}
  Rests = {r1}
  Ticker = ticker
  Refreshes = {}
  Browsers = {}
  MaxWire = 1
  MaxChanges = 0
  MaxTroubles = 1
  None = None
PROPERTIES
  Reconnects
