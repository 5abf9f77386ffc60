\* Two producers, two consumers and three packets.
\* CHECK_DEADLOCK FALSE: a thread that used a freed packet keeps the mutex.
SPECIFICATION LiveSpec
CONSTANTS
  Producers = {r1, r2}
  Consumers = {c1, c2}
  Packets = {p1, p2, p3}
  NoThread = NoThread
  NoPacket = NoPacket
INVARIANTS TypeOK PopsWhatItCopied PacketsOwnedOnce NoLostWakeup
PROPERTIES ImplementsFifo PushedIsPulled
CHECK_DEADLOCK FALSE
