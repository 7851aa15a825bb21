CONSTANTS
  Accepts <- MyServiceAccepts
  MaxControls = 2
  Controllers = {k1, k2}
  Polls = 2
  MaxStarts = 1
SPECIFICATION ControlSpec
SYMMETRY Symmetry
INVARIANT AcceptedIsDone
