SPECIFICATION Spec
CONSTANTS
  Threads = {t1, t2}
  MaxCalls = 2
  Kinds <- AllKinds
  DeleterKinds = {"none", "ok", "text"}
  NoCall = NoCall
  NoThread = NoThread
  Freed = Freed
SYMMETRY Symmetric
CHECK_DEADLOCK FALSE
INVARIANTS TypeOK CodeKeepsToResult OwnError MessageOutlivesCall
