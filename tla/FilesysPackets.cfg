SPECIFICATION Spec
CONSTANTS
  Units = 2
  Packet = {p1, p2}
  Dummy = Dummy
  Death = Death
  None = None
  Limit = 1
  Wrap = 3
  Resets = 1
SYMMETRY Symmetry
INVARIANTS
  TypeOK
  PipesHaveRoom
