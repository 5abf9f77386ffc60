\* A packet or two are enough.
\* CHECK_DEADLOCK FALSE: playback ends, or stops where OpenSL refuses a buffer.
SPECIFICATION LiveSpec
CONSTANTS
  Limit = 1
  Kinds = {"frame"}
  MaxPackets = 2
PROPERTIES ReadIsDecoded
CHECK_DEADLOCK FALSE
