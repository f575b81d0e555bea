CONSTANTS
  a1 = a1
  a2 = a2
  e1 = e1
  e2 = e2
  p1 = p1
  p2 = p2
  q1 = q1
  q2 = q2
  q3 = q3
  q4 = q4
  Accounts <- TwoAccounts
  Existing <- OneAccount
  Requests <- FourRequests
  Emails <- TwoEmails
  Passwords <- TwoPasswords
  Lifetime = 1
  LastTime = 1
  None = None
  Absent = Absent
  NoTask = NoTask
CHECK_DEADLOCK FALSE
SPECIFICATION Spec
INVARIANTS TypeOK SpentTokenDead TokenOpensItsAccount
PROPERTIES ImplementsResetTokens
SYMMETRY CallSymmetry
