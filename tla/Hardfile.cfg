SPECIFICATION FairSpec
CONSTANTS
  Request = {r1, r2, r3}
  Slots = 3
  None = None
  Death = Death
  Closes = 1
  Resets = 1
INVARIANTS
  TypeOK
  OneEntry
PROPERTIES
  WaitsEnd
  Answered
\* After a close both threads may stop: see WaitsEnd.
CHECK_DEADLOCK FALSE
