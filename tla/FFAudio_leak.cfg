\* A file with a video stream.
\* CHECK_DEADLOCK FALSE: playback ends, or stops where OpenSL refuses a buffer.
SPECIFICATION Spec
CONSTANTS
  Limit = 1
  Kinds = {"frame", "video"}
  MaxPackets = 2
INVARIANTS EveryPacketFreed
CHECK_DEADLOCK FALSE
