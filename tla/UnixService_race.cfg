CONSTANTS
  Instances = {i1, i2}
  Callers = {c1, c2}
  Nobody = Nobody
  ServiceFlags <- MyServiceFlags
  MaxCrashes = 0
SPECIFICATION Spec
INVARIANT RunningIsFound
