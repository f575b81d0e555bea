CONSTANTS
  q1 = q1
  q2 = q2
  q3 = q3
  r1 = r1
  r2 = r2
  v1 = v1
  v2 = v2
  n1 = n1
  n2 = n2
  n3 = n3
  Rooms <- TwoRooms
  Venues <- TwoVenues
  Existing <- OneOfEach
  Requests <- ThreeRequests
  Names <- ThreeNames
  CreateBodies <- MixedCreates
  PatchBodies <- MixedPatches
  Prices = {8999, 100, 3}
  Days = {1, 2, 3, 4}
  MaxNights = 3
  Null = Null
  Unsent = Unsent
  Absent = Absent
  NoTask = NoTask
  NoCopy = NoCopy
CHECK_DEADLOCK FALSE
SPECIFICATION Spec
INVARIANTS TypeOK UniqueNames RulesHoldUnlessRaced EverySaleHasItsDay StayPricedByNight
PROPERTIES NoLostUpdate
SYMMETRY RequestSymmetry
