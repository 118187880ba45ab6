\* Either the emulation thread records or the console thread.
SPECIFICATION FairSpec
CONSTANTS
  Size = 4
  Char = {"colon"}
  Shifted = {"colon"}
  HostKey = {"h"}
  ConsoleKey = {"x", "y"}
  Recorders = {{"emu"}, {"con"}}
  Pastes = 1
  Purges = 1
  Pausing = TRUE
INVARIANTS
  TypeOK
  KeyIsThere
  NothingStuck
PROPERTIES
  PasteTyped
  QueueSpec
\* The program stops when its assertion fails.
CHECK_DEADLOCK FALSE
