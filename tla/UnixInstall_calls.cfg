CONSTANTS
  Callers = {c1, c2}
  p1 = p1
  p2 = p2
  Copies = {p1, p2}
  StartType <- Types
  None = None
SPECIFICATION Spec
INVARIANT TrueMeansDone
