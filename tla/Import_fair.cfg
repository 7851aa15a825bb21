CONSTANTS
  p1 = p1
  p2 = p2
  n1 = n1
  n2 = n2
  Persons = {p1, p2}
  Files <- MCFiles
  InitEmployees <- MCEmployees
  InitChildren <- MCChildren
  InitDict <- MCDict
  MaxImports = 3
  MaxCrashes = 1
  MaxFailures = 1
SPECIFICATION FairSpec
CHECK_DEADLOCK FALSE
INVARIANTS TypeOK References Owners NoTwins SundayComplete
PROPERTIES ListedSurvive ResultKept Terminates
