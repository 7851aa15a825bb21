CONSTANTS
  Instances = {i1}
  Callers = {c1, c2}
  Nobody = Nobody
  ServiceFlags = {}
  MaxCrashes = 1
SPECIFICATION FairSpec
PROPERTIES CallsReturn StopEnds
