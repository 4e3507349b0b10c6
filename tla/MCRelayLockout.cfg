\* One machine that reconnects.
SPECIFICATION Spec
CONSTANTS
  Machines = {m1}
  Clusters = {}
  LocalMachine = m1
  Conns = {c1, c2}
  Browsers = {}
  Deleters = {}
  MaxPayloads = 0
  Legacy = FALSE
  None = None
INVARIANT NeverLockedOut
\* Handlers, agents and requests are used up: the model stops.
CHECK_DEADLOCK FALSE
