CONSTANTS
  \* AlignRestore: a member of either kind whose earlier level may be unknown; two
  \* holds, an audibility request, and requests dropped wherever they await
  Outputs = {"kitchen", "desk"}
  Hosted = {"desk"}
  Receivers = {"kitchen"}
  MaxHolds = 2
  Passes = {"r1"}
  \* MeasureRun: two tasks of one mode, one after the other, with two speakers
  Members = {1, 2}
  Runs = {1, 2}
  Modes = {"passes", "chain", "walk"}
  Readings = 2
  MaxRestarts = 1
  Overlap = FALSE
  Captures = 2
  MaxAbandons = 1
  \* DelayLine: frames of two and three bytes, and blocks that are no multiple of them or more
  \* than the ring holds
  Formats = {2, 3}
  Blocks = {1, 3, 6, 8}
  MaxDelay = 2
  Headroom = 1
  MostFed = 20
  \* ChainSolve: three speakers of any kind, two positions that overlap in one of them
  Speakers = {1, 2, 3}
  Paths = {0, 2, 4}
  Pattern = 40
  Tolerance = 4
  MaxLine = 12
  MaxKnob = 6
  MinJitter = 2
  Currents = {0, 4}
  Kinds = {"sendspin", "airplay2", "pwsink"}
  \* LevelSolver: two members, three levels
  Voices = {1, 2}
  MaxLevel = 2
  ParallelRounds = 4
  SoloRounds = 2
  Slack = 2
SPECIFICATION SuiteSpec
INVARIANTS RevertKnowsWrites SetIsOneCapture RestoredUnlessCrossed DelayedExactly
           SolvedTogether ConvergedAsMeasured
\* runs and bounded histories end
CHECK_DEADLOCK FALSE
