\* A frame is refused by the transport, and its chunk has two.
SPECIFICATION Spec
CONSTANTS
  Providers = {"live"}
  Continuous = {TRUE}
  Bargers = {b1}
  FramesPerChunk = 2
  MinStart = 1
  QueueSize = 1
  JitterSize = 1
  MaxChunks = 1
  MaxQueues = 1
  MaxErrors = 1
  MaxStops = 0
INVARIANTS
  Chronological
\* When everything is over nothing is left to do.
CHECK_DEADLOCK FALSE
