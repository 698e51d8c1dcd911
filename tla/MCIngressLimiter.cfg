SPECIFICATION LimiterSpec
CONSTANTS
  u1 = u1
  u2 = u2
  u3 = u3
  Uid = {u1, u2, u3}
  Burst = 2
  Refill = 2
  MaxBuckets = 2
  Horizon = 6
SYMMETRY Symmetry
INVARIANTS
  LimiterTypeOK
  BurstBound
  BucketsBounded
  PatientCallerAdmitted
CHECK_DEADLOCK FALSE
