CONSTANTS
  Accepts <- MyServiceAccepts
  MaxControls = 2
  Controllers = {k1}
  Polls = 10
  MaxStarts = 2
SPECIFICATION LiveSpec
PROPERTIES CallsReturn StartIsDecided
