\* The pacer is cancelled while its request to mute is in flight.
SPECIFICATION Spec
CONSTANTS
  Providers = {"agent"}
  Continuous = {TRUE}
  Bargers = {b1}
  FramesPerChunk = 1
  MinStart = 1
  QueueSize = 1
  JitterSize = 1
  MaxChunks = 2
  MaxQueues = 1
  MaxErrors = 0
  MaxStops = 1
PROPERTIES
  UserCanSpeak
\* When everything is over nothing is left to do.
CHECK_DEADLOCK FALSE
