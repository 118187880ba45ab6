SPECIFICATION Spec
CONSTANTS
  Units = 1
  Packet = {p1, p2}
  Dummy = Dummy
  Death = Death
  None = None
  Limit = 2
  Wrap = 5
  Resets = 0
INVARIANT
  InterruptSends
