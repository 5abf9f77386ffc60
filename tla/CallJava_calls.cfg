\* One Java and two native threads beside the main one, calls three deep.
SPECIFICATION Spec
CONSTANTS
  JavaThreads = {main, j1}
  NativeThreads = {n1, n2}
  Main = main
  NoThread = NoThread
  MaxActivities = 2
  MaxDepth = 3
INVARIANTS TypeOK AttachedInCall RestoredAfterCall
