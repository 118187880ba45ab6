SPECIFICATION FairSpec
CONSTANTS
  Units = 1
  Packet = {p1, p2}
  Dummy = Dummy
  Death = Death
  None = None
  Limit = 1
  Wrap = 3
  Resets = 0
PROPERTY
  UnstartedHandled
