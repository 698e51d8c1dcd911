SPECIFICATION Spec
CONSTANTS
  r1 = r1
  r2 = r2
  r3 = r3
  Req = {r1, r2, r3}
  None = None
  ReleaseSecs = 1
  ReleaseAfterSuccessSecs = 0
  PreviewMinHold = 2
  Kinds = {"auth", "enroll", "release"}
  MaxFrames = 1
  MaxEdits = 1
  MaxSleeps = 0
  Policies <- OpenPolicy
  Events = {}
SYMMETRY Symmetry
INVARIANTS
  OneCapture
  InFlightReachable
PROPERTIES
  CancelledPreflightOpensNothing
CHECK_DEADLOCK FALSE
