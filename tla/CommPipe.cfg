\* A ring of three usable slots whose reader is woken for every second item.
CONSTANTS
  Value = {v1, v2}
  NoItem = NoItem
  Size = 4
  Chunks = 2

SPECIFICATION FairSpec

INVARIANTS
  TypeOK
  RingExclusion
  NoLostWakeup

PROPERTIES
  FifoSpec
  FlushIsRead
  WriteReturns
