\* Two activities, files of two packets.
\* CHECK_DEADLOCK FALSE: every session ends, or the process crashes.
SPECIFICATION Spec
CONSTANTS
  Sessions = {s1, s2}
  NoSession = NoSession
  Limit = 1
  Packets = 2
INVARIANTS EnqueuesWhatItDecoded
CHECK_DEADLOCK FALSE
