\* Ordinary announcements only (`barge_in` is off by default), with TTLs and an
\* alignment hold: the coordinator drives the scheduler as it assumes.
CONSTANTS
  o1 = o1
  o2 = o2
  h1 = h1
  Outputs = {o1, o2}
  Reservations = {h1}
  Priorities = {0}
  TTLs = {1}
  NoTTL = NoTTL
  NoSlot = NoSlot
  BargeIns = {FALSE}
  MaxQueue = 1
  MaxAnnouncements = 2
  MaxTime = 1
  ClipChunks = 2
  Grace = 1
SPECIFICATION FairSpec
INVARIANTS
  SlotBelongsToOccupant
  NoClipLeak
  ClipKept
  OccupiedHasEnd
PROPERTIES
  DrivesScheduler
