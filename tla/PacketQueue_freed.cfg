\* One producer, one consumer: a reference that fails once is enough.
SPECIFICATION Spec
CONSTANTS
  Producers = {r1}
  Consumers = {c1}
  Packets = {p1, p2}
  NoThread = NoThread
  NoPacket = NoPacket
INVARIANT FreedOnlyWhenPulled
CHECK_DEADLOCK FALSE
