SPECIFICATION FairSpec
CONSTANTS
  Task = {t1, t2}
  Context = {c1, c2}
  None = None
  MaxDepth = 2
  MaxCalls = 2
  Resets = 1
INVARIANTS
  TypeOK
  Handoff
  MutexFree
  RightCaller
  RightStack
  NoDangling
PROPERTY
  TrapsEnd
\* A reset within a hand-over leaves trap_mutex taken: the machine really stops.
CHECK_DEADLOCK FALSE
