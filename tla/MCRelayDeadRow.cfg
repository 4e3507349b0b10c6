\* A cluster agent that connects while its cluster is removed.
SPECIFICATION Spec
CONSTANTS
  Machines = {k1}
  Clusters = {k1}
  LocalMachine = None
  Conns = {c1, c2}
  Browsers = {}
  Deleters = {d1}
  MaxPayloads = 0
  Legacy = FALSE
  None = None
INVARIANT NoDeadRow
\* Handlers, agents and requests are used up: the model stops.
CHECK_DEADLOCK FALSE
