\* One terminal and enough keystrokes to fill its queue behind one in hand.
SPECIFICATION Spec
CONSTANTS
  Sessions = {s1}
  QueueCap = 1
  ChunkCap = 1
  FlushSize = 2
  MaxKeys = 3
  MaxResizes = 0
  MaxOutput = 0
  None = None
INVARIANT LoopNeverWaits
\* A terminal is opened once: the model stops.
CHECK_DEADLOCK FALSE
