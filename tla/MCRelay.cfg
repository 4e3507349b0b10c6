\* Who owns which session: two machines, a cluster among them, agents without a
\* machine ID, two overlapping DELETEs, no browser.
SPECIFICATION Spec
CONSTANTS
  Machines = {m1, k1}
  Clusters = {k1}
  LocalMachine = m1
  Conns = {c1, c2}
  Browsers = {}
  Deleters = {d1, d2}
  MaxPayloads = 0
  Legacy = TRUE
  None = None
SYMMETRY Symmetry
INVARIANTS
  TypeOK
  StoreConsistent
  NoGhostOnline
  LocalSessionIsLocal
PROPERTIES
  ImplementsOwnership
\* Handlers, agents and requests are used up: the model stops.
CHECK_DEADLOCK FALSE
