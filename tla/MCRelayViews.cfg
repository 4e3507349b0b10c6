\* What a browser is told: one machine, its agent reconnecting once.
SPECIFICATION FairSpec
CONSTANTS
  Machines = {m1}
  Clusters = {}
  LocalMachine = m1
  Conns = {c1, c2}
  Browsers = {b1}
  Deleters = {}
  MaxPayloads = 2
  Legacy = FALSE
  None = None
INVARIANTS
  NoMissedPayload
PROPERTIES
  LossIsShown
\* Handlers, agents and requests are used up: the model stops.
CHECK_DEADLOCK FALSE
