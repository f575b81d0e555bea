------------------------------ MODULE MCSessions ------------------------------
(***************************************************************************)
(* A small instance of Sessions.                                           *)
(***************************************************************************)
EXTENDS Sessions, TLC

CONSTANTS a1, a2, e1, e2, p1, p2, q1, q2, q3, v1, v2

TwoAccounts == {a1, a2}
OneAccount == {a1}
TwoEmails == {e1, e2}
OnePassword == {p1}
TwoPasswords == {p1, p2}
TwoRequests == {q1, q2}
ThreeRequests == {q1, q2, q3}
TwoVisits == {v1, v2}
VisitSymmetry == Permutations(Requests) \cup Permutations(Visits) \cup Permutations(Passwords)
=============================================================================
