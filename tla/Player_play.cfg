\* Every file of up to three packets.
\* CHECK_DEADLOCK FALSE: playing ends, crashes, or waits for a packet for ever.
SPECIFICATION LiveSpec
CONSTANT MaxPackets = 3
INVARIANTS TypeOK NoUseAfterDelete EndsWithAllDecoded StreamPacketsFreed
PROPERTIES ImplementsPlayback PushedIsDecoded
CHECK_DEADLOCK FALSE
