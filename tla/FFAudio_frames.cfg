\* Packets of two frames: two of them, and a third packet to be refused.
\* CHECK_DEADLOCK FALSE: playback ends, or stops where OpenSL refuses a buffer.
SPECIFICATION LiveSpec
CONSTANTS
  Limit = 1
  Kinds = {"frame", "double"}
  MaxPackets = 3
PROPERTIES RefusedIsResent
CHECK_DEADLOCK FALSE
