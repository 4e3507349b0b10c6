SPECIFICATION FairSpec
CONSTANTS
  Writers = {w1, w2}
  Cap = 2
  MaxSends = 3
INVARIANTS
  TypeOK
  NothingLostWhileOpen
  PerWriterOrder
PROPERTIES
  ImplementsChannel
  CloseCompletes
\* The writers make finitely many calls here, so the model stops.
CHECK_DEADLOCK FALSE
