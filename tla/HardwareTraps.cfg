\* Two tasks in traps at once, or one of them and a function of trap_callback.
SPECIFICATION FairSpec
CONSTANTS
  Task = {k1, k2}
  Unit = Unit
  Slots = 2
  Commands = 1
  Callbacks = 1
  Busy = 2
  Prompt = TRUE
  None = None
INVARIANTS
  TypeOK
  ReadyIsDone
  CommandsAgree
PROPERTIES
  TrapsReturn
  CallbacksEnd
