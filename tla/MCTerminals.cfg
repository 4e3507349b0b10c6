\* One terminal: enough keystrokes to fill its queue behind one in hand, two
\* resizes that may cross, output that is flushed by size and by timer.
SPECIFICATION Spec
CONSTANTS
  Sessions = {s1}
  QueueCap = 1
  ChunkCap = 1
  FlushSize = 2
  MaxKeys = 3
  MaxResizes = 2
  MaxOutput = 2
  None = None
INVARIANTS TypeOK KeysHaveNoGap OutputComplete SizeSettles
PROPERTIES ClosedTabsEnd EndIsTold
\* A terminal is opened once: the model stops.
CHECK_DEADLOCK FALSE
