SPECIFICATION Spec
CONSTANTS
  r1 = r1
  r2 = r2
  r3 = r3
  Req = {r1, r2, r3}
  None = None
  ReleaseSecs = 1
  ReleaseAfterSuccessSecs = 0
  PreviewMinHold = 2
  Kinds = {"auth"}
  MaxFrames = 0
  MaxEdits = 3
  MaxSleeps = 0
  Policies <- OpenPolicy
  Events = {}
SYMMETRY Symmetry
INVARIANTS
  ClaimIsBacked
PROPERTIES
  NeverOlderConfig
CHECK_DEADLOCK FALSE
