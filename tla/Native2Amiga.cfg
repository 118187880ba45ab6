\* Two host threads and the emulation thread; what can be under way fits into the
\* pipe.
SPECIFICATION FairSpec
CONSTANTS
  reply = reply
  put = put
  signal = signal
  Emu = Emu
  Sender = {t1, t2, Emu}
  Message = {reply, put, signal}
  Words <- MessageWords
  Capacity = 9
  None = None
INVARIANTS
  TypeOK
  WholeMessages
PROPERTIES
  MailSpec
  Delivered
