SPECIFICATION Spec
CONSTANTS
  r1 = r1
  r2 = r2
  Req = {r1, r2}
  None = None
  ReleaseSecs = 1
  ReleaseAfterSuccessSecs = 0
  PreviewMinHold = 2
  Kinds = {"auth", "preview"}
  MaxFrames = 1
  MaxEdits = 1
  MaxSleeps = 1
  Policies <- OpenPolicy
  Events = {}
SYMMETRY Symmetry
PROPERTIES
  SuspendedCameraCloses
CHECK_DEADLOCK FALSE
