------------------------------ MODULE MCAccounts ------------------------------
(***************************************************************************)
(* Small instances of Accounts.                                            *)
(***************************************************************************)
EXTENDS Accounts, TLC

CONSTANTS a1, a2, e1, e2, p1, p2, q1, q2, q3, q4

TwoAccounts == {a1, a2}
OneAccount == {a1}
TwoEmails == {e1, e2}
TwoPasswords == {p1, p2}
ThreeRequests == {q1, q2, q3}
FourRequests == {q1, q2, q3, q4}
CallSymmetry == Permutations(Requests) \cup Permutations(Passwords) \cup Permutations(Emails)
=============================================================================
