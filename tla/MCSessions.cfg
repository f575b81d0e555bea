CONSTANTS
  a1 = a1
  a2 = a2
  e1 = e1
  e2 = e2
  p1 = p1
  p2 = p2
  q1 = q1
  q2 = q2
  q3 = q3
  v1 = v1
  v2 = v2
  Accounts <- TwoAccounts
  Existing <- OneAccount
  Requests <- TwoRequests
  Visits <- TwoVisits
  Emails <- TwoEmails
  Passwords <- TwoPasswords
  AdminEmail = e1
  SessionLife = 1
  LinkLife = 1
  Lifetime = 1
  LastTime = 1
  None = None
  Absent = Absent
  NoTask = NoTask
  NoVisit = NoVisit
CHECK_DEADLOCK FALSE
SPECIFICATION SessionSpec
INVARIANTS SessionTypeOK AdminsAreSeeded VerifiedByOwnLink UniqueEmails
PROPERTIES OnlyStaffActOnOthers
SYMMETRY VisitSymmetry
