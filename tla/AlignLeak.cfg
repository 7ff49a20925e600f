CONSTANTS
  Outputs = {"kitchen", "desk", "bath"}
  Hosted = {"desk"}
  Receivers = {}
  MaxHolds = 1
  Passes = {}
SPECIFICATION DroppingSpec
INVARIANT HoldsGivenBack
