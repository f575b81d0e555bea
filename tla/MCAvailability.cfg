CONSTANTS
  b1 = b1
  b2 = b2
  r1 = r1
  r2 = r2
  s1 = s1
  q1 = q1
  Bookings <- TwoBookings
  Decisions = {}
  Rooms <- TwoRooms
  Guests = {}
  Staff <- OneStaff
  RequestedStays <- SearchedStays
  Parties = {1, 2}
  UnitCounts = {1}
  MAX_STAY_NIGHTS = 2
  LastDay = 1
  MaxEdits = 1
  MaxFailures = 0
  NoOrder = NoOrder
  NoTask = NoTask
  Searches <- OneSearch
  Anyone = Anyone
  NoSearch = NoSearch
CHECK_DEADLOCK FALSE
SPECIFICATION SearchSpec
INVARIANTS SearchTypeOK SearchAgreesWithCreate
PROPERTIES ShownIsFreeEveryNight
SYMMETRY BookingSymmetry
