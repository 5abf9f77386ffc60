\* One packet is enough.
\* CHECK_DEADLOCK FALSE: playing ends, crashes, or waits for a packet for ever.
SPECIFICATION LiveSpec
CONSTANT MaxPackets = 2
PROPERTY DecodingEnds
CHECK_DEADLOCK FALSE
