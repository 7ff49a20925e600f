SPECIFICATION ReconcilerSpec
CONSTANTS
  p1 = p1  h1 = h1  p2 = p2  r1 = r1  A = A  B = B
  Players = {p1, p2}
  Receivers = {r1}
  Hosts = {h1}
  Mixes <- MCMixes
  Addresses = {x, y}
  Leads = {1, 2}
  Codecs = {1, 2}
  Rates = {44, 48}
  Absent = Absent
  Unresolved = Unresolved
  HoldSource = HoldSource
  Linger = 1
  Boots <- MCBoots
  Selections <- MCSelections
  MaxChanges = 2
  MaxFailures = 1
INVARIANT HandedOver
PROPERTIES FollowsIntent Settles
CHECK_DEADLOCK FALSE
