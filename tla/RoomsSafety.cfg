CONSTANTS
  b1 = b1
  b2 = b2
  b3 = b3
  d1 = d1
  d2 = d2
  r1 = r1
  r2 = r2
  g1 = g1
  g2 = g2
  s1 = s1
  Bookings <- TwoBookings
  Decisions <- TwoDecisions
  Rooms <- OneRoom
  Guests <- OneGuest
  Staff <- OneStaff
  RequestedStays <- MixedStays
  Parties = {1}
  UnitCounts = {0, 1}
  MAX_STAY_NIGHTS = 2
  LastDay = 2
  MaxEdits = 1
  MaxFailures = 1
  NoOrder = NoOrder
  NoTask = NoTask
CHECK_DEADLOCK FALSE
SPECIFICATION Spec
INVARIANTS TypeOK Consistent NoDoubleSale
PROPERTIES SoldUntilCancelled ImplementsInventory
SYMMETRY CallSymmetry
