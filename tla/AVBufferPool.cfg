\* Two threads, two buffers, three references.
\* CHECK_DEADLOCK FALSE: when the pool has been freed nothing is left to do.
SPECIFICATION LiveSpec
CONSTANTS
  Threads = {t1, t2}
  Entries = {e1, e2}
  Refs = {r1, r2, r3}
  NoThread = NoThread
  NoEntry = NoEntry
INVARIANTS TypeOK CountsReferences WriterAlone EntryOwnedOnce NoUseAfterFree PoolFreedLast
PROPERTIES ImplementsSharedBuffers AllFreed
CHECK_DEADLOCK FALSE
