------------------------------- MODULE Accounts -------------------------------
(***************************************************************************)
(* Accounts, passwords and reset tokens: AuthService                       *)
(* (src/auth/auth.service.ts) over UsersService                            *)
(* (src/users/users.service.ts).  One action per await of a handler:       *)
(*                                                                         *)
(*   register         looking up -> looking up again -> inserting          *)
(*   staff create                   looking up again -> inserting          *)
(*   forgot password  finding -> storing the token (-> mailing it)         *)
(*   reset password   matching the token -> saving                         *)
(*   change password  loading -> saving                                    *)
(*                                                                         *)
(* Between loading and saving a password is hashed, so that window is wide.*)
(* A token is 32 random bytes: it goes by the name of its forgot request.  *)
(***************************************************************************)
EXTENDS Naturals, FiniteSets

CONSTANTS
  Accounts,   \* the documents the users collection may ever have
  Existing,   \* those it has at the start
  Requests,
  Emails, Passwords,
  Lifetime,   \* of a reset token
  LastTime,   \* bound: the end of the clock
  None,       \* no token, no password
  Absent, NoTask

ASSUME TimeAssumption == Lifetime \in Nat \ {0} /\ LastTime \in Nat
ASSUME ExistingAssumption == Existing \subseteq Accounts

Times == 0..(LastTime + Lifetime)
User ==
  [email: Emails, password: Passwords, resetToken: Requests \cup {None}, expires: Times]
Task ==
  [op: {"register", "forgot", "reset", "change"}, account: Accounts, email: Emails,
   password: Passwords \cup {None}, token: Requests \cup {None}, expires: Times]

ASSUME NoneAssumption ==
  /\ None \notin Requests \cup Passwords
  /\ Absent \notin User \cup Accounts
  /\ NoTask \notin Task

VARIABLES
  user,      \* the users collection
  step,      \* where each request is
  task,      \* what it has still to do
  mailed,    \* the tokens that have reached a mailbox
  now,
  issuedTo,  \* history: the account each token was generated for
  spentBy    \* history: the requests that have set a password with each token

vars == <<user, step, task, mailed, now, issuedTo, spentBy>>

Busy == {"lookingUp", "lookingUpAgain", "inserting", "storing", "mailing", "saving"}

TypeOK ==
  /\ user \in [Accounts -> User \cup {Absent}]
  /\ step \in [Requests -> Busy \cup {"idle", "refused", "answered"}]
  /\ task \in [Requests -> Task \cup {NoTask}]
  /\ \A q \in Requests : step[q] \in Busy <=> task[q] # NoTask
  /\ mailed \subseteq Requests
  /\ now \in 0..LastTime
  /\ issuedTo \in [Requests -> Accounts \cup {Absent}]
  /\ spentBy \in [Requests -> SUBSET Requests]

Present == {a \in Accounts : user[a] # Absent}

\* findOne({ email })
Registered(email) == \E a \in Present : user[a].email = email

Init ==
  /\ \E email \in [Existing -> Emails], password \in [Existing -> Passwords] :
       /\ \A a, b \in Existing : a # b => email[a] # email[b]
       /\ user = [a \in Accounts |->
                    IF a \in Existing
                    THEN [email |-> email[a], password |-> password[a],
                          resetToken |-> None, expires |-> 0]
                    ELSE Absent]
  /\ step = [q \in Requests |-> "idle"]
  /\ task = [q \in Requests |-> NoTask]
  /\ mailed = {}
  /\ now = 0
  /\ issuedTo = [q \in Requests |-> Absent]
  /\ spentBy = [q \in Requests |-> {}]

history == <<issuedTo, spentBy>>

Goto(q, next) == step' = [step EXCEPT ![q] = next]

\* The request is over, with an HTTP error or without.
End(q, outcome) ==
  /\ Goto(q, outcome)
  /\ task' = [task EXCEPT ![q] = NoTask]

-----------------------------------------------------------------------------
(* Registering.                                                            *)

\* The id of a new account is fresh.
Fresh(a) ==
  /\ user[a] = Absent
  /\ \A q \in Requests : task[q] # NoTask => task[q].account # a
  /\ \A q \in Requests : issuedTo[q] # a

\* POST /auth/register starts at the first lookup, POST /users at the second.
Register(q) ==
  /\ step[q] = "idle"
  /\ \E a \in Accounts, email \in Emails, password \in Passwords :
       /\ Fresh(a)
       /\ \/ Goto(q, "lookingUp")
          \/ Goto(q, "lookingUpAgain")
       /\ task' = [task EXCEPT ![q] =
            [op |-> "register", account |-> a, email |-> email, password |-> password,
             token |-> None, expires |-> 0]]
  /\ UNCHANGED <<user, mailed, now, history>>

LookUp(q) ==
  /\ step[q] \in {"lookingUp", "lookingUpAgain"}
  /\ \/ /\ Registered(task[q].email)
        /\ End(q, "refused")
     \/ /\ ~Registered(task[q].email)
        /\ Goto(q, IF step[q] = "lookingUp" THEN "lookingUpAgain" ELSE "inserting")
        /\ UNCHANGED task
  /\ UNCHANGED <<user, mailed, now, history>>

\* A slip in Admits: the schema does not say that emails are unique.
AdmitsAny(a, email) == TRUE

\* The unique index on the email.
Admits(a, email) == \A b \in Present : b # a => user[b].email # email

Insert(q) ==
  /\ step[q] = "inserting"
  /\ LET t == task[q]
     IN \/ /\ Admits(t.account, t.email)
           /\ user' = [user EXCEPT ![t.account] =
                [email |-> t.email, password |-> t.password,
                 resetToken |-> None, expires |-> 0]]
           /\ End(q, "answered")
        \/ /\ ~Admits(t.account, t.email)
           /\ End(q, "refused")
           /\ UNCHANGED user
  /\ UNCHANGED <<mailed, now, history>>

-----------------------------------------------------------------------------
(* Resetting a forgotten password.                                         *)

\* forgotPassword has looked the address up; an unknown one is answered the same.
Forgot(q) ==
  /\ step[q] = "idle"
  /\ \E email \in Emails :
       \/ \E a \in Present :
            /\ user[a].email = email
            /\ Goto(q, "storing")
            /\ task' = [task EXCEPT ![q] =
                 [op |-> "forgot", account |-> a, email |-> email,
                  password |-> None, token |-> q, expires |-> now + Lifetime]]
            /\ issuedTo' = [issuedTo EXCEPT ![q] = a]
       \/ /\ ~Registered(email)
          /\ End(q, "answered")
          /\ UNCHANGED issuedTo
  /\ UNCHANGED <<user, mailed, now, spentBy>>

\* A slip in Receivers: the account is looked for by its address once more.
ReceiversByEmail(t) == {a \in Present : user[a].email = t.email}

\* updateOne({ _id }): nobody, when the account is gone.
Receivers(t) == {t.account} \cap Present

\* setResetToken: the new token takes the place of the one before.
StoreToken(q) ==
  /\ step[q] = "storing"
  /\ LET t == task[q]
     IN user' = [a \in Accounts |->
                   IF a \in Receivers(t)
                   THEN [user[a] EXCEPT !.resetToken = t.token, !.expires = t.expires]
                   ELSE user[a]]
  /\ Goto(q, "mailing")
  /\ UNCHANGED <<task, mailed, now, history>>

\* The mail arrives, or it does not; the answer is the same.
Mail(q) ==
  /\ step[q] = "mailing"
  /\ \/ mailed' = mailed \cup {q}
     \/ UNCHANGED mailed
  /\ End(q, "answered")
  /\ UNCHANGED <<user, now, history>>

\* findByResetTokenHash: the account with this token, if it has not expired.
Matches(a, token) == user[a].resetToken = token /\ user[a].expires > now

\* Somebody submits a token that was mailed.
Reset(q) ==
  /\ step[q] = "idle"
  /\ \E token \in mailed, password \in Passwords :
       \/ \E a \in Present :
            /\ Matches(a, token)
            /\ Goto(q, "saving")
            /\ task' = [task EXCEPT ![q] =
                 [op |-> "reset", account |-> a, email |-> user[a].email,
                  password |-> password, token |-> token, expires |-> 0]]
       \/ /\ \A a \in Present : ~Matches(a, token)
          /\ End(q, "refused")
  /\ UNCHANGED <<user, mailed, now, history>>

-----------------------------------------------------------------------------
(* Changing a password, and the save both flows share.                     *)

\* findByIdWithPassword: the current password has to match, the new one to differ.
Change(q) ==
  /\ step[q] = "idle"
  /\ \E a \in Accounts, current \in Passwords, password \in Passwords :
       LET may == a \in Present /\ user[a].password = current /\ password # current
       IN \/ /\ may
             /\ Goto(q, "saving")
             /\ task' = [task EXCEPT ![q] =
                  [op |-> "change", account |-> a, email |-> user[a].email,
                   password |-> password, token |-> None, expires |-> 0]]
          \/ /\ ~may
             /\ End(q, "refused")
  /\ UNCHANGED <<user, mailed, now, history>>

\* Slips in Replaced: the password is unset along with the token; the token is left
\* in place; only the token that was sent in is unset.
ReplacedPasswordUnset(stored, t) ==
  [stored EXCEPT !.password = None, !.resetToken = None, !.expires = 0]
ReplacedTokenKept(stored, t) == [stored EXCEPT !.password = t.password]
ReplacedOwnTokenOnly(stored, t) ==
  [stored EXCEPT !.password = t.password,
                 !.resetToken = IF @ = t.token THEN None ELSE @]

\* replacePassword: one update sets the hash and unsets the token, whichever token
\* the document has by then.
Replaced(stored, t) ==
  [stored EXCEPT !.password = t.password, !.resetToken = None, !.expires = 0]

Save(q) ==
  /\ step[q] = "saving"
  /\ LET t == task[q]
     IN \/ /\ t.account \in Present
           /\ user' = [user EXCEPT ![t.account] = Replaced(@, t)]
           /\ spentBy' = IF t.op = "reset"
                         THEN [spentBy EXCEPT ![t.token] = @ \cup {q}] ELSE spentBy
           /\ End(q, "answered")
        \/ /\ t.account \notin Present
           /\ End(q, "refused")
           /\ UNCHANGED <<user, spentBy>>
  /\ UNCHANGED <<mailed, now, issuedTo>>

-----------------------------------------------------------------------------
(* Requests of one database call, failures and time.                       *)

\* PATCH /users/:id
ChangeEmail(q) ==
  /\ step[q] = "idle"
  /\ \E a \in Present, email \in Emails :
       \/ /\ Admits(a, email)
          /\ user' = [user EXCEPT ![a].email = email]
          /\ End(q, "answered")
       \/ /\ ~Admits(a, email)
          /\ End(q, "refused")
          /\ UNCHANGED user
  /\ UNCHANGED <<mailed, now, history>>

\* DELETE /users/:id
Remove(q) ==
  /\ step[q] = "idle"
  /\ \E a \in Present : user' = [user EXCEPT ![a] = Absent]
  /\ End(q, "answered")
  /\ UNCHANGED <<mailed, now, history>>

\* A database call fails or the process dies before it.
Fail(q) ==
  /\ step[q] \in Busy
  /\ End(q, "refused")
  /\ UNCHANGED <<user, mailed, now, history>>

Tick ==
  /\ now < LastTime
  /\ now' = now + 1
  /\ UNCHANGED <<user, step, task, mailed, history>>

Next ==
  \/ \E q \in Requests :
       \/ Register(q) \/ LookUp(q) \/ Insert(q)
       \/ Forgot(q) \/ StoreToken(q) \/ Mail(q)
       \/ Reset(q) \/ Change(q) \/ Save(q)
       \/ ChangeEmail(q) \/ Remove(q) \/ Fail(q)
  \/ Tick

Spec == Init /\ [][Next]_vars

-----------------------------------------------------------------------------
(* What accounts have to guarantee.                                        *)

\* No two accounts have one address, however many registrations passed both lookups
\* together and whoever changes an address in between.
UniqueEmails == \A a, b \in Present : a # b => user[a].email # user[b].email

Live(token) == \E a \in Present : user[a].resetToken = token

\* Once a reset has set a password its token is gone from every account: a later
\* lookup cannot match it (replacePassword: "once the digest is gone,
\* findByResetTokenHash can never match that token again").
SpentTokenDead == \A token \in Requests : spentBy[token] # {} => ~Live(token)

\* A token that was stored and is not live any more, because it was spent, replaced
\* by a newer one or dropped by a change of password, stays dead whatever is saved
\* late.
DeadTokensStayDead ==
  [][\A token \in Requests :
       step[token] \in {"mailing", "answered"} /\ ~Live(token) => ~Live(token)']_vars

\* A token opens the account it was generated for and no other, also when the address
\* passes to another account before it is stored.
TokenOpensItsAccount ==
  \A a \in Present : user[a].resetToken # None => issuedTo[user[a].resetToken] = a

\* A token sets one password ("Clearing the reset fields in this same save is what makes
\* a reset token single-use", src/users/users.service.ts): no second reset that had
\* matched it before the first one saved gets through.
SingleUse == \A token \in Requests : Cardinality(spentBy[token]) <= 1

\* What has become of the token of a forgot request.
fateOf ==
  [token \in Requests |->
     IF issuedTo[token] = Absent THEN "unborn"
     ELSE IF step[token] = "storing" THEN "made"
     ELSE IF Live(token) THEN "good" ELSE "dead"]

\* An account that is not there has no password.
passwordOf == [a \in Accounts |-> IF a \in Present THEN user[a].password ELSE None]

Abstract ==
  INSTANCE ResetTokens WITH
    Tokens <- Requests, Passwords <- Passwords \cup {None}, Nobody <- Absent,
    owner <- issuedTo, fate <- fateOf, password <- passwordOf,
    spent <- {token \in Requests : spentBy[token] # {}}

\* Every behaviour of the service is one that ResetTokens allows: a token gets to its own
\* account, once only and in place of the one before, and whoever sets the password of
\* an account leaves it without a token, however late the save.
ImplementsResetTokens == Abstract!Spec
=============================================================================
