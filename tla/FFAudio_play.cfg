\* Every kind of packet, files of up to four packets, a queue of up to two.
\* CHECK_DEADLOCK FALSE: playback ends, or stops where OpenSL refuses a buffer.
SPECIFICATION LiveSpec
CONSTANTS
  Limit = 1
  Kinds = {"frame", "silent", "double", "corrupt", "unconvertible", "video"}
  MaxPackets = 4
INVARIANTS TypeOK QueueBounded PullNeverBlocks StopsOnlyWhenDrained BufferFreeForWriting PlayedInOrder PlaysEveryFrame AudioPacketsFreed
PROPERTIES ImplementsPlayback ImplementsSession PlaybackEnds
CHECK_DEADLOCK FALSE
