\* Two requests and one failure: the process or cloudflared ends, or a file
\* cannot be read or written.
SPECIFICATION Spec
CONSTANTS
  r1 = r1
  r2 = r2
  k1 = k1
  k2 = k2
  Requests = {r1, r2}
  Keys = {k1, k2}
  Menus <- Pairs
  Old = old
  MaxFaults = 1
  None = None
INVARIANTS TypeOK AgentsMatchClusters AcknowledgedKept URLIsKnown
PROPERTY TunnelComesBack
\* Requests are used up and the tunnel stands: the model stops.
CHECK_DEADLOCK FALSE
