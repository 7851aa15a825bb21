CONSTANTS
  Instances = {i1, i2}
  Callers = {c1, c2}
  Nobody = Nobody
  ServiceFlags <- MyServiceFlags
  MaxCrashes = 1
SPECIFICATION Spec
SYMMETRY Symmetry
INVARIANTS TypeOK RunningIsSeen TruthfulReplies LateCallsAreRefused
PROPERTY AtMostOnce
