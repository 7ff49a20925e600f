SPECIFICATION RingSpec
CONSTANTS
  Receivers = {"airplay", "spotify"}
  Target = 4
  Headroom = 2
  Rearm = 2
  Packet = 4
  Quantum = 4
  Patience = 1
  MaxRoutes = 2
  MaxFlushes = 1
INVARIANT SidesKept
CHECK_DEADLOCK FALSE
