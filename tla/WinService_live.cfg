CONSTANTS
  Accepts <- Codes
  MaxControls = 4
SPECIFICATION FairSpec
CHECK_DEADLOCK FALSE
INVARIANTS TypeOK NobodyWaitsInVain WakesItsOwn
PROPERTIES ImplementsLifecycle Answered StopTakesEffect
