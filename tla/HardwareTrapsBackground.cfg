SPECIFICATION Spec
CONSTANTS
  Task = {k1}
  Unit = Unit
  Slots = 2
  Commands = 0
  Callbacks = 0
  Busy = 1
  Prompt = FALSE
  None = None
PROPERTIES
  NoAutoAck
