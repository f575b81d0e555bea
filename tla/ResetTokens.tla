----------------------------- MODULE ResetTokens -----------------------------
(***************************************************************************)
(* What the reset tokens promise, with no collection, no request and no    *)
(* lookup: a token is made for one account, becomes good when it is given  *)
(* to that account, in place of the one before, and once it is no longer   *)
(* good it never is again.  Only a token that has been good sets a         *)
(* password, and whenever the password of an account is set the account is *)
(* left without a token.  Accounts implements this module.                 *)
(***************************************************************************)

CONSTANTS
  Accounts, Tokens, Passwords,
  Nobody   \* the owner of a token that is not made yet

VARIABLES
  owner,     \* the account each token was made for
  fate,      \* what has become of it
  spent,     \* the tokens with which a password has been set
  password   \* the password of each account

vars == <<owner, fate, spent, password>>

Init ==
  /\ owner = [t \in Tokens |-> Nobody]
  /\ fate = [t \in Tokens |-> "unborn"]
  /\ spent = {}
  /\ password \in [Accounts -> Passwords]

\* What has become of the tokens once the account has none.
Without(a) ==
  [t \in Tokens |-> IF fate[t] = "good" /\ owner[t] = a THEN "dead" ELSE fate[t]]

Make(t, a) ==
  /\ fate[t] = "unborn"
  /\ owner' = [owner EXCEPT ![t] = a]
  /\ fate' = [fate EXCEPT ![t] = "made"]
  /\ UNCHANGED <<spent, password>>

\* The account gets the token, and loses the one it had.
Give(t) ==
  /\ fate[t] = "made"
  /\ fate' = [Without(owner[t]) EXCEPT ![t] = "good"]
  /\ UNCHANGED <<owner, spent, password>>

\* The token never gets to the account.
Lose(t) ==
  /\ fate[t] = "made"
  /\ fate' = [fate EXCEPT ![t] = "dead"]
  /\ UNCHANGED <<owner, spent, password>>

\* The password of the account is set, or the account comes or goes.
Set(a) ==
  /\ \E p \in Passwords : password' = [password EXCEPT ![a] = p]
  /\ fate' = Without(a)
  /\ UNCHANGED owner

\* The token was good when it was sent in; it may have died since.
Spend(t) ==
  /\ fate[t] \in {"good", "dead"}
  /\ Set(owner[t])
  /\ spent' = spent \cup {t}

Change(a) == Set(a) /\ UNCHANGED spent

Next ==
  \/ \E t \in Tokens :
       \/ \E a \in Accounts : Make(t, a)
       \/ Give(t) \/ Lose(t) \/ Spend(t)
  \/ \E a \in Accounts : Change(a)

Spec == Init /\ [][Next]_vars
=============================================================================
