\* One chip beside the beam, a slot of its own for one client and two shared slots
\* for up to four different events, and a clock that wraps every 4 cycles.
CONSTANTS
  Wrap = 4
  Ev2Misc = 1
  Ev2Max = 3
  Device = {"copper"}
  Func = {f, g}
  NoEvent = NoEvent
  Delay = {1, 2}
  LineTime = 2
  Quantum = {2}
  Slack = 2
SPECIFICATION FairSpec
INVARIANTS
  TypeOK
PROPERTIES
  NothingPassed
  QueueSpec
  SharedEventFires
