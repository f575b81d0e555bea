CONSTANTS
  h1 = h1
  h2 = h2
  d1 = d1
  d2 = d2
  v1 = v1
  g1 = g1
  s1 = s1
  Hires <- TwoHires
  Decisions <- TwoDecisions
  Venues <- OneVenue
  Guests <- OneGuest
  Staff <- OneStaff
  Hours <- From8To10
  RequestedSlots <- MixedSlots
  Parties = {1}
  HourRules <- TwoRules
  MAX_ADVANCE_DAYS = 0
  LastDay = 1
  MaxEdits = 0
  MaxFailures = 0
  NoOrder = NoOrder
  NoTask = NoTask
CHECK_DEADLOCK FALSE
SPECIFICATION Spec
INVARIANTS QuietHiresApart
SYMMETRY CallSymmetry
