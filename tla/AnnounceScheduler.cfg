\* Three announcements of any shape over two outputs, one reservation, a queue
\* of one (so that QueueFull and the requeue past it both happen), two instants.
CONSTANTS
  o1 = o1
  o2 = o2
  h1 = h1
  Outputs = {o1, o2}
  Reservations = {h1}
  Priorities = {0, 1}
  TTLs = {0, 1}
  NoTTL = NoTTL
  BargeIns = {TRUE, FALSE}
  MaxQueue = 1
  MaxAnnouncements = 3
  MaxTime = 1
SPECIFICATION FairSpec
INVARIANTS
  ExclusiveOccupancy
  IInv
PROPERTIES
  ReservationRespected
  NothingLost
  OvertakenOnlyWhenBlocked
  DrainsOnceQuiet
