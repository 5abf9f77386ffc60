\* Two activities, files of two packets.
\* CHECK_DEADLOCK FALSE: every session ends, or the process crashes.
SPECIFICATION LiveSpec
CONSTANTS
  Sessions = {s1, s2}
  NoSession = NoSession
  Limit = 1
  Packets = 2
INVARIANTS TypeOK OwnFFAudio NeverOlder OnlyOvertakenIsLeft OwnSoundWhenAlone
PROPERTIES SessionsEnd
CHECK_DEADLOCK FALSE
