CONSTANTS
  c1 = c1
  c2 = c2
  c3 = c3
  r1 = r1
  Claims <- MCClaims
  Resources <- MCResources
  Slots <- MCSlots
  Capacities <- MCCapacities
  NoClaim = NoClaim
SPECIFICATION Spec
INVARIANTS TypeOK NoOversale EveryPartWithinQuote
SYMMETRY ClaimSymmetry
