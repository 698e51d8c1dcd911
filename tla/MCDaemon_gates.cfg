SPECIFICATION Spec
CONSTANTS
  r1 = r1
  r2 = r2
  Req = {r1, r2}
  None = None
  ReleaseSecs = 1
  ReleaseAfterSuccessSecs = 0
  PreviewMinHold = 2
  Kinds = {"auth", "release"}
  MaxFrames = 0
  MaxEdits = 2
  MaxSleeps = 0
  Policies <- AllPolicies
  Events = {"depart"}
SYMMETRY Symmetry
INVARIANTS
  GatesHoldAtCapture
CHECK_DEADLOCK FALSE
