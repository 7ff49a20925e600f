\* Two holds on two members, one of them levelled by its host; the instances of the
\* other components are in the module.
CONSTANTS
  Outputs = {"kitchen", "desk"}
  Hosted = {"desk"}
  Receivers = {}
  MaxHolds = 2
  Passes = {}
SPECIFICATION SuiteSpec
INVARIANT HoldIsWhole
PROPERTIES PlayerServed StopIsObeyed EveryHoldSettles HoldsEnd LevelsReturn
\* histories of bounded length end
CHECK_DEADLOCK FALSE
