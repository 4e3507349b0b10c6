\* Two requests, from one panel or two, with one call that fails or hangs.
SPECIFICATION Spec
CONSTANTS
  r1 = r1
  r2 = r2
  Requests = {r1, r2}
  Browsers = {b1}
  Menus <- Pairs
  Blocks = 2
  Items = 1
  FirstRevision = 8
  MaxFaults = 1
  None = None
INVARIANTS TypeOK ReadOnlyAndAudited ContainerKept ChangesStick InstalledIsVerified
PROPERTIES RolloutIsComplete UndoGoesBack RequestsAreAnswered
\* Requests are used up: the model stops.
CHECK_DEADLOCK FALSE
