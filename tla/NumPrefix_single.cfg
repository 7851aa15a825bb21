CONSTANTS
  Writers = {w1}
  MaxId = 7
SPECIFICATION Spec
INVARIANTS TypeOK NoKeyClash LowestFree
