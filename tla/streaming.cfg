\* One call's audio, in each of the ways an answer is produced.
SPECIFICATION Spec
CONSTANTS
  Providers = {"agent", "live", "pipeline"}
  Continuous = {TRUE, FALSE}
  Bargers = {b1}
  FramesPerChunk = 1
  MinStart = 2
  QueueSize = 1
  JitterSize = 2
  MaxChunks = 2
  MaxQueues = 2
  MaxErrors = 1
  MaxStops = 1
INVARIANTS
  TypeOK
  PlayedInOrder
  OnePacer
  NothingLeftBehind
PROPERTIES
  CallerHeardAgain
  AudioComesOut
\* When everything is over nothing is left to do.
CHECK_DEADLOCK FALSE
