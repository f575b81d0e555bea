---------------------------- MODULE AccountProofs ----------------------------
(***************************************************************************)
(* Addresses stay unique and a reset token that was spent never works      *)
(* again, for every set of accounts and requests in every order.           *)
(***************************************************************************)
EXTENDS Accounts, TLAPS

\* The steps of a forgot request from which on its token may be in an account.
StoredSteps == {"mailing", "answered", "refused"}

\* A token is in an account, or in the hands of a reset, only after its forgot request
\* has stored it, and only where it was generated for.
TokenPlaces ==
  /\ \A a \in Present : user[a].resetToken # None =>
       /\ step[user[a].resetToken] \in StoredSteps
       /\ issuedTo[user[a].resetToken] = a
  /\ \A q \in Requests : step[q] = "saving" /\ task[q].op = "reset" =>
       /\ task[q].token \in Requests
       /\ step[task[q].token] \in StoredSteps
       /\ issuedTo[task[q].token] = task[q].account

\* What each step knows of its task.
TaskOfStep ==
  /\ \A q \in Requests : step[q] = "storing" =>
       task[q].token = q /\ issuedTo[q] = task[q].account
  /\ \A q \in Requests :
       step[q] \in {"lookingUp", "lookingUpAgain", "inserting", "saving"} =>
         task[q].password \in Passwords
  /\ \A q \in Requests :
       step[q] \in {"lookingUp", "lookingUpAgain", "inserting"} => task[q].op = "register"
  /\ \A q \in Requests : spentBy[q] # {} => step[q] \in StoredSteps
  /\ \A q \in Requests : step[q] = "idle" => issuedTo[q] = Absent

Inv == TypeOK /\ TokenPlaces /\ TaskOfStep /\ SpentTokenDead

-----------------------------------------------------------------------------

\* The initial states satisfy the invariant.
LEMMA InitInv == Init => Inv
<1> SUFFICES ASSUME Init
             PROVE  Inv
  OBVIOUS
<1>1. PICK email \in [Existing -> Emails], password \in [Existing -> Passwords] :
        user = [a \in Accounts |->
                  IF a \in Existing
                  THEN [email |-> email[a], password |-> password[a],
                        resetToken |-> None, expires |-> 0]
                  ELSE Absent]
  BY DEF Init
<1>2. \A a \in Accounts : user[a] \in User \cup {Absent}
  BY <1>1, TimeAssumption DEF User, Times
<1>3. TypeOK
  BY <1>1, <1>2, TimeAssumption DEF Init, TypeOK, Busy
<1>4. \A a \in Present : user[a].resetToken = None
  BY <1>1 DEF Present
<1>5. TokenPlaces /\ TaskOfStep /\ SpentTokenDead
  BY <1>4 DEF Init, TokenPlaces, TaskOfStep, SpentTokenDead
<1> QED
  BY <1>3, <1>5 DEF Inv

\* No account has a token that it did not have before.
NoNewToken ==
  \A a \in Present' : user'[a].resetToken # None =>
    a \in Present /\ user'[a].resetToken = user[a].resetToken

\* A request that ends keeps the invariant when it brings no token into an account,
\* and when the token it may have spent is in none.
LEMMA EndInv ==
  ASSUME Inv, NEW q \in Requests, NEW outcome \in {"refused", "answered"}, End(q, outcome),
         user' \in [Accounts -> User \cup {Absent}], NoNewToken,
         mailed' \subseteq Requests, UNCHANGED <<now, issuedTo>>,
         spentBy' \in [Requests -> SUBSET Requests],
         \A token \in Requests : spentBy'[token] # {} =>
           \/ spentBy[token] # {}
           \/ step[token] \in StoredSteps /\ ~Live(token)'
  PROVE  Inv'
<1>1. TypeOK'
  BY DEF End, Goto, Inv, TypeOK, Busy
<1>2. \A token \in Requests : step[token] \in StoredSteps => step'[token] \in StoredSteps
  BY DEF End, Goto, Inv, TypeOK, StoredSteps
<1>3. \A a \in Present : user[a] \in User
  BY DEF Inv, TypeOK, Present
<1>4. TokenPlaces'
  <2>1. \A a \in Present' : user'[a].resetToken # None =>
          /\ step'[user'[a].resetToken] \in StoredSteps
          /\ issuedTo'[user'[a].resetToken] = a
    BY <1>2, <1>3 DEF NoNewToken, Inv, TokenPlaces, User
  <2>2. \A p \in Requests : step'[p] = "saving" =>
          step[p] = "saving" /\ task'[p] = task[p]
    BY DEF End, Goto, Inv, TypeOK
  <2> QED
    BY <1>2, <2>1, <2>2 DEF Inv, TokenPlaces
<1>5. TaskOfStep'
  <2>1. \A p \in Requests : step'[p] \in Busy => step'[p] = step[p] /\ task'[p] = task[p]
    BY DEF End, Goto, Inv, TypeOK, Busy
  <2>2. \A token \in Requests : spentBy'[token] # {} => step'[token] \in StoredSteps
    BY <1>2 DEF Inv, TaskOfStep
  <2>3. \A p \in Requests : step'[p] = "idle" => step[p] = "idle"
    BY DEF End, Goto, Inv, TypeOK
  <2> QED
    BY <2>1, <2>2, <2>3 DEF Inv, TaskOfStep, Busy
<1>6. SpentTokenDead'
  BY NoneAssumption DEF Inv, SpentTokenDead, Live, NoNewToken
<1> QED
  BY <1>1, <1>4, <1>5, <1>6 DEF Inv

\* So does a request that goes on to its next step with a task for it.
LEMMA GotoInv ==
  ASSUME Inv, NEW q \in Requests, NEW t \in Task,
         NEW next \in {"lookingUp", "lookingUpAgain", "inserting", "saving"},
         Goto(q, next), task' = [task EXCEPT ![q] = t],
         step[q] \notin StoredSteps, t.password \in Passwords,
         next # "saving" => t.op = "register",
         t.op = "reset" =>
           /\ t.token \in Requests /\ step[t.token] \in StoredSteps
           /\ issuedTo[t.token] = t.account,
         UNCHANGED <<user, mailed, now, history>>
  PROVE  Inv'
<1>1. TypeOK'
  BY NoneAssumption DEF Goto, Inv, TypeOK, Busy, history
<1>2. TokenPlaces'
  BY DEF Goto, Inv, TypeOK, TokenPlaces, StoredSteps, Present, history
<1>3. TaskOfStep'
  BY DEF Goto, Inv, TypeOK, TaskOfStep, StoredSteps, history
<1>4. SpentTokenDead'
  BY DEF Inv, SpentTokenDead, Live, Present, history
<1> QED
  BY <1>1, <1>2, <1>3, <1>4 DEF Inv

\* The writes other than the storing of a token bring no token into an account.
LEMMA WritesNoToken ==
  ASSUME Inv, NEW q \in Requests,
         Insert(q) \/ Save(q) \/ ChangeEmail(q) \/ Remove(q)
  PROVE  user' \in [Accounts -> User \cup {Absent}] /\ NoNewToken
<1>1. user \in [Accounts -> User \cup {Absent}] /\ 0 \in Times
  BY TimeAssumption DEF Inv, TypeOK, Times
<1>2. CASE UNCHANGED user
  BY <1>1, <1>2 DEF NoNewToken, Present
<1>3. ASSUME step[q] \in {"inserting", "saving"}
      PROVE  task[q] \in Task /\ task[q].password \in Passwords
  BY <1>3 DEF Inv, TypeOK, TaskOfStep, Busy
<1>4. CASE Insert(q) /\ ~UNCHANGED user
  <2>1. user' = [user EXCEPT ![task[q].account] =
          [email |-> task[q].email, password |-> task[q].password,
           resetToken |-> None, expires |-> 0]]
    BY <1>4 DEF Insert
  <2>2. task[q] \in Task /\ task[q].password \in Passwords
    BY <1>3, <1>4 DEF Insert
  <2>3. [email |-> task[q].email, password |-> task[q].password,
         resetToken |-> None, expires |-> 0] \in User
    BY <1>1, <2>2 DEF User, Task
  <2>4. user' \in [Accounts -> User \cup {Absent}]
    BY <1>1, <2>1, <2>2, <2>3 DEF Task
  <2>5. NoNewToken
    BY <1>1, <2>1, <2>2 DEF NoNewToken, Present, Task
  <2> QED
    BY <2>4, <2>5
<1>5. CASE Save(q) /\ ~UNCHANGED user
  <2>1. /\ task[q].account \in Present
        /\ user' = [user EXCEPT ![task[q].account] = Replaced(@, task[q])]
    BY <1>5 DEF Save
  <2>2. user[task[q].account] \in User /\ task[q].account \in Accounts
    BY <1>1, <2>1 DEF Present
  <2>3. \A stored \in User, password \in Passwords :
          [stored EXCEPT !.password = password, !.resetToken = None, !.expires = 0]
            \in [email: Emails, password: Passwords,
                 resetToken: Requests \cup {None}, expires: Times]
    BY <1>1 DEF User
  <2>4. /\ Replaced(user[task[q].account], task[q]) \in User
        /\ Replaced(user[task[q].account], task[q]).resetToken = None
    BY <1>3, <1>5, <2>2, <2>3 DEF Save, Replaced, User
  <2>5. user' \in [Accounts -> User \cup {Absent}]
    BY <1>1, <2>1, <2>2, <2>4
  <2>6. NoNewToken
    BY <1>1, <2>1, <2>2, <2>4 DEF NoNewToken, Present
  <2> QED
    BY <2>5, <2>6
<1>6. CASE ChangeEmail(q) /\ ~UNCHANGED user
  <2>1. PICK a \in Present, email \in Emails : user' = [user EXCEPT ![a].email = email]
    BY <1>6 DEF ChangeEmail
  <2>2. user' \in [Accounts -> User \cup {Absent}]
    BY <1>1, <2>1 DEF Present, User
  <2>3. NoNewToken
    BY <1>1, <2>1, NoneAssumption DEF NoNewToken, Present, User
  <2> QED
    BY <2>2, <2>3
<1>7. CASE Remove(q)
  <2>1. PICK a \in Present : user' = [user EXCEPT ![a] = Absent]
    BY <1>7 DEF Remove
  <2>2. user' \in [Accounts -> User \cup {Absent}]
    BY <1>1, <2>1
  <2>3. NoNewToken
    BY <1>1, <2>1 DEF NoNewToken, Present
  <2> QED
    BY <2>2, <2>3
<1> QED
  BY <1>2, <1>4, <1>5, <1>6, <1>7

\* Every step keeps the invariant.
LEMMA NextInv == Inv /\ [Next]_vars => Inv'
<1> SUFFICES ASSUME Inv, [Next]_vars
             PROVE  Inv'
  OBVIOUS
<1> USE DEF history
<1>0. /\ mailed \subseteq Requests
      /\ user \in [Accounts -> User \cup {Absent}]
      /\ spentBy \in [Requests -> SUBSET Requests]
      /\ UNCHANGED user => NoNewToken
  BY DEF Inv, TypeOK, NoNewToken, Present
<1>a. ASSUME NEW q \in Requests, step[q] \in Busy
      PROVE  task[q] \in Task
  BY <1>a DEF Inv, TypeOK
<1>1. ASSUME NEW q \in Requests, Register(q)
      PROVE  Inv'
  <2>1. PICK a \in Accounts, email \in Emails, password \in Passwords :
          /\ Goto(q, "lookingUp") \/ Goto(q, "lookingUpAgain")
          /\ task' = [task EXCEPT ![q] =
               [op |-> "register", account |-> a, email |-> email, password |-> password,
                token |-> None, expires |-> 0]]
    BY <1>1 DEF Register
  <2>2. [op |-> "register", account |-> a, email |-> email, password |-> password,
         token |-> None, expires |-> 0] \in Task
    BY TimeAssumption DEF Task, Times
  <2> QED
    BY <1>1, <2>1, <2>2, GotoInv DEF Register, StoredSteps
<1>2. ASSUME NEW q \in Requests, LookUp(q)
      PROVE  Inv'
  <2>1. CASE End(q, "refused")
    BY <1>0, <1>2, <2>1, EndInv DEF LookUp
  <2>2. CASE UNCHANGED task /\ ~End(q, "refused")
    <3>1. PICK next \in {"lookingUpAgain", "inserting"} : Goto(q, next)
      BY <1>2, <2>2 DEF LookUp
    <3>2. /\ task[q] \in Task /\ task[q].password \in Passwords
          /\ task[q].op = "register"
          /\ step[q] \notin StoredSteps
      BY <1>2, <1>a DEF LookUp, Inv, TaskOfStep, Busy, StoredSteps
    <3>3. task' = [task EXCEPT ![q] = task[q]]
      BY <2>2 DEF Inv, TypeOK
    <3> QED
      BY <1>2, <3>1, <3>2, <3>3, GotoInv DEF LookUp
  <2> QED
    BY <1>2, <2>1, <2>2 DEF LookUp
<1>3. ASSUME NEW q \in Requests, Insert(q)
      PROVE  Inv'
  BY <1>0, <1>3, WritesNoToken, EndInv DEF Insert, End
<1>4. ASSUME NEW q \in Requests, Forgot(q)
      PROVE  Inv'
  <2>1. CASE End(q, "answered") /\ UNCHANGED issuedTo
    BY <1>0, <1>4, <2>1, EndInv DEF Forgot
  <2>2. CASE ~(End(q, "answered") /\ UNCHANGED issuedTo)
    <3>1. PICK a \in Present, email \in Emails :
            /\ Goto(q, "storing")
            /\ task' = [task EXCEPT ![q] =
                 [op |-> "forgot", account |-> a, email |-> email,
                  password |-> None, token |-> q, expires |-> now + Lifetime]]
            /\ issuedTo' = [issuedTo EXCEPT ![q] = a]
      BY <1>4, <2>2 DEF Forgot
    <3>2. [op |-> "forgot", account |-> a, email |-> email,
           password |-> None, token |-> q, expires |-> now + Lifetime] \in Task
      BY <3>1, TimeAssumption DEF Task, Times, Present, Inv, TypeOK
    <3>3. TypeOK'
      BY <1>4, <3>1, <3>2, NoneAssumption
      DEF Forgot, Goto, Inv, TypeOK, Busy, Present
    <3>4. /\ step[q] = "idle" /\ step'[q] = "storing"
          /\ \A p \in Requests \ {q} :
               step'[p] = step[p] /\ task'[p] = task[p] /\ issuedTo'[p] = issuedTo[p]
      BY <1>4, <3>1 DEF Forgot, Goto, Inv, TypeOK
    <3>5. TokenPlaces'
      <4>1. \A b \in Present : user[b] \in User
        BY <1>0 DEF Present
      <4>2. \A b \in Present : user[b].resetToken # None =>
              user[b].resetToken \in Requests \ {q}
        BY <3>4, <4>1 DEF Inv, TokenPlaces, StoredSteps, User
      <4>3. \A p \in Requests : step'[p] = "saving" /\ task'[p].op = "reset" =>
              p # q /\ task[p].token \in Requests \ {q}
        BY <3>4 DEF Inv, TokenPlaces, StoredSteps
      <4> QED
        BY <1>4, <3>4, <4>2, <4>3 DEF Forgot, Inv, TokenPlaces, Present
    <3>6. task'[q].token = q /\ issuedTo'[q] = task'[q].account
      BY <3>1 DEF Inv, TypeOK
    <3>7. TaskOfStep'
      BY <1>4, <3>4, <3>6 DEF Forgot, Inv, TaskOfStep, StoredSteps
    <3>8. SpentTokenDead'
      BY <1>4 DEF Forgot, Inv, SpentTokenDead, Live, Present
    <3> QED
      BY <3>3, <3>5, <3>7, <3>8 DEF Inv
  <2> QED
    BY <2>1, <2>2
<1>5. ASSUME NEW q \in Requests, StoreToken(q)
      PROVE  Inv'
  <2>1. task[q] \in Task /\ task[q].token = q /\ issuedTo[q] = task[q].account
    BY <1>5, <1>a DEF StoreToken, Inv, TaskOfStep, Busy
  <2>2. /\ \A a \in Accounts \ {task[q].account} : user'[a] = user[a]
        /\ user[task[q].account] = Absent => user'[task[q].account] = Absent
        /\ user[task[q].account] # Absent =>
             user'[task[q].account] =
               [user[task[q].account] EXCEPT !.resetToken = q, !.expires = task[q].expires]
    BY <1>5, <2>1 DEF StoreToken, Receivers, Present, Task
  <2>3. /\ user' \in [Accounts -> User \cup {Absent}]
        /\ \A a \in Present' : user[a] # Absent
        /\ \A a \in Present' : user'[a].resetToken =
             IF a = task[q].account THEN q ELSE user[a].resetToken
    <3>1. ASSUME NEW a \in Accounts
          PROVE  user'[a] \in User \cup {Absent}
      <4>1. CASE a # task[q].account \/ user[a] = Absent
        BY <1>0, <2>2, <4>1
      <4>2. CASE a = task[q].account /\ user[a] # Absent
        <5>1. user[a] \in User /\ task[q].expires \in Times
          BY <1>0, <2>1, <4>2 DEF Task
        <5>2. user'[a] = [user[a] EXCEPT !.resetToken = q, !.expires = task[q].expires]
          BY <2>2, <4>2
        <5> QED
          BY <5>1, <5>2 DEF User
      <4> QED
        BY <4>1, <4>2
    <3>2. user' = [a \in Accounts |-> user'[a]]
      BY <1>5 DEF StoreToken
    <3>3. user' \in [Accounts -> User \cup {Absent}]
      BY <3>1, <3>2
    <3> QED
      BY <1>0, <2>1, <2>2, <3>3 DEF Present, User, Task
  <2>4. step[q] = "storing" /\ step' = [step EXCEPT ![q] = "mailing"]
    BY <1>5 DEF StoreToken, Goto
  <2>5. spentBy[q] = {}
    BY <2>4 DEF Inv, TaskOfStep, StoredSteps
  <2>6. TypeOK'
    BY <1>5, <2>3, <2>4 DEF StoreToken, Inv, TypeOK, Busy
  <2>7. \A p \in Requests : step[p] \in StoredSteps => step'[p] \in StoredSteps
    BY <2>4 DEF Inv, TypeOK, StoredSteps
  <2>8. step'[q] \in StoredSteps
    BY <2>4 DEF Inv, TypeOK, StoredSteps
  <2>9. TokenPlaces'
    <3>1. \A a \in Present' : user'[a].resetToken # None =>
            /\ step'[user'[a].resetToken] \in StoredSteps
            /\ issuedTo'[user'[a].resetToken] = a
      <4>1. \A a \in Present' : user[a] \in User /\ a \in Present
        BY <1>0, <2>3 DEF Present
      <4>2. issuedTo' = issuedTo
        BY <1>5 DEF StoreToken
      <4>3. ASSUME NEW a \in Present', user'[a].resetToken # None
            PROVE  /\ step'[user'[a].resetToken] \in StoredSteps
                   /\ issuedTo'[user'[a].resetToken] = a
        <5>1. CASE a = task[q].account
          BY <2>1, <2>3, <2>8, <4>2, <5>1
        <5>2. CASE a # task[q].account
          <6>1. user'[a].resetToken = user[a].resetToken /\ a \in Present
            BY <2>3, <4>1, <5>2
          <6>2. /\ user[a].resetToken \in Requests
                /\ step[user[a].resetToken] \in StoredSteps
                /\ issuedTo[user[a].resetToken] = a
            BY <4>1, <4>3, <6>1 DEF Inv, TokenPlaces, User
          <6> QED
            BY <2>7, <4>2, <6>1, <6>2
        <5> QED
          BY <5>1, <5>2
      <4> QED
        BY <4>3
    <3>2. \A p \in Requests : step'[p] = "saving" => step[p] = "saving"
      BY <2>4 DEF Inv, TypeOK
    <3> QED
      BY <1>5, <2>7, <3>1, <3>2 DEF StoreToken, Inv, TokenPlaces
  <2>10. TaskOfStep'
    BY <1>5, <2>4 DEF StoreToken, Inv, TypeOK, TaskOfStep, StoredSteps
  <2>11. SpentTokenDead'
    BY <1>5, <2>3, <2>5 DEF StoreToken, Inv, SpentTokenDead, Live, Present
  <2> QED
    BY <2>6, <2>9, <2>10, <2>11 DEF Inv
<1>6. ASSUME NEW q \in Requests, Mail(q)
      PROVE  Inv'
  BY <1>0, <1>6, EndInv DEF Mail
<1>7. ASSUME NEW q \in Requests, Reset(q)
      PROVE  Inv'
  <2>1. CASE End(q, "refused")
    BY <1>0, <1>7, <2>1, EndInv DEF Reset
  <2>2. CASE ~End(q, "refused")
    <3>1. PICK token \in mailed, password \in Passwords, a \in Present :
            /\ Matches(a, token)
            /\ Goto(q, "saving")
            /\ task' = [task EXCEPT ![q] =
                 [op |-> "reset", account |-> a, email |-> user[a].email,
                  password |-> password, token |-> token, expires |-> 0]]
      BY <1>7, <2>2 DEF Reset
    <3>2. token \in Requests /\ step[token] \in StoredSteps /\ issuedTo[token] = a
      BY <1>0, <3>1, NoneAssumption DEF Matches, Inv, TokenPlaces
    <3>3. [op |-> "reset", account |-> a, email |-> user[a].email,
           password |-> password, token |-> token, expires |-> 0] \in Task
      BY <1>0, <3>1, <3>2, TimeAssumption DEF Task, Times, Present, User
    <3> QED
      BY <1>7, <3>1, <3>2, <3>3, GotoInv DEF Reset, StoredSteps
  <2> QED
    BY <2>1, <2>2
<1>8. ASSUME NEW q \in Requests, Change(q)
      PROVE  Inv'
  <2>1. CASE End(q, "refused")
    BY <1>0, <1>8, <2>1, EndInv DEF Change
  <2>2. CASE ~End(q, "refused")
    <3>1. PICK a \in Present, password \in Passwords :
            /\ Goto(q, "saving")
            /\ task' = [task EXCEPT ![q] =
                 [op |-> "change", account |-> a, email |-> user[a].email,
                  password |-> password, token |-> None, expires |-> 0]]
      BY <1>8, <2>2 DEF Change
    <3>2. [op |-> "change", account |-> a, email |-> user[a].email,
           password |-> password, token |-> None, expires |-> 0] \in Task
      BY <1>0, <3>1, TimeAssumption DEF Task, Times, Present, User
    <3> QED
      BY <1>8, <3>1, <3>2, GotoInv DEF Change, StoredSteps
  <2> QED
    BY <2>1, <2>2
<1>9. ASSUME NEW q \in Requests, Save(q)
      PROVE  Inv'
  <2>1. CASE UNCHANGED <<user, spentBy>>
    BY <1>0, <1>9, <2>1, EndInv DEF Save, End
  <2>2. CASE ~UNCHANGED <<user, spentBy>>
    <3>1. /\ task[q].account \in Present
          /\ user' = [user EXCEPT ![task[q].account] = Replaced(@, task[q])]
          /\ spentBy' = IF task[q].op = "reset"
                        THEN [spentBy EXCEPT ![task[q].token] = @ \cup {q}] ELSE spentBy
      BY <1>9, <2>2 DEF Save
    <3>2. user' \in [Accounts -> User \cup {Absent}] /\ NoNewToken
      BY <1>9, WritesNoToken
    <3>3. task[q].account \in Accounts
      BY <3>1 DEF Present
    <3>4. user'[task[q].account].resetToken = None
      BY <1>0, <3>1, <3>3 DEF Replaced, Present, User
    <3>5. spentBy' \in [Requests -> SUBSET Requests]
      BY <1>0, <3>1
    <3>6. ASSUME NEW token \in Requests, spentBy'[token] # {}, spentBy[token] = {}
          PROVE  step[token] \in StoredSteps /\ ~Live(token)'
      <4>1. task[q].op = "reset" /\ token = task[q].token
        BY <1>0, <3>1, <3>6
      <4>2. step[token] \in StoredSteps /\ issuedTo[token] = task[q].account
        BY <1>9, <4>1 DEF Save, Inv, TokenPlaces
      <4>3. \A a \in Present' : user'[a].resetToken # token
        BY <3>2, <3>4, <4>2, NoneAssumption DEF NoNewToken, Inv, TokenPlaces
      <4> QED
        BY <4>2, <4>3 DEF Live
    <3> QED
      BY <1>0, <1>9, <3>2, <3>5, <3>6, EndInv DEF Save, End
  <2> QED
    BY <2>1, <2>2
<1>10. ASSUME NEW q \in Requests, ChangeEmail(q)
       PROVE  Inv'
  BY <1>0, <1>10, WritesNoToken, EndInv DEF ChangeEmail, End
<1>11. ASSUME NEW q \in Requests, Remove(q)
       PROVE  Inv'
  BY <1>0, <1>11, WritesNoToken, EndInv DEF Remove
<1>12. ASSUME NEW q \in Requests, Fail(q)
       PROVE  Inv'
  BY <1>0, <1>12, EndInv DEF Fail
<1>13. CASE Tick
  <2>1. TypeOK'
    BY <1>13, TimeAssumption DEF Tick, Inv, TypeOK
  <2> QED
    BY <1>13, <2>1 DEF Tick, Inv, TokenPlaces, TaskOfStep, SpentTokenDead, Live, Present
<1>14. CASE UNCHANGED vars
  BY <1>14 DEF vars, Inv, TypeOK, TokenPlaces, TaskOfStep, SpentTokenDead, Live, Present
<1> QED
  BY <1>1, <1>2, <1>3, <1>4, <1>5, <1>6, <1>7, <1>8, <1>9, <1>10, <1>11, <1>12, <1>13,
     <1>14 DEF Next
-----------------------------------------------------------------------------

\* Every reachable state satisfies the invariant.
LEMMA Reachable == Spec => []Inv
BY InitInv, NextInv, PTL DEF Spec

\* Every reachable state of the account service is typed.
THEOREM TypeCorrect == Spec => []TypeOK
BY Reachable, PTL DEF Inv

\* A token that has set a password is in no account, whatever was loaded before it was
\* spent and is saved later.
THEOREM SpentStaysDead == Spec => []SpentTokenDead
BY Reachable, PTL DEF Inv

\* A token is only ever in the account it was generated for, also when the address of
\* that account is changed or given to another before the token is stored.
THEOREM OpensItsAccount == Spec => []TokenOpensItsAccount
<1>1. Inv => TokenOpensItsAccount
  BY DEF Inv, TokenPlaces, TokenOpensItsAccount
<1> QED
  BY <1>1, Reachable, PTL

\* No stored token that is in no account gets into one.
NoneRevived ==
  \A token \in Requests :
    step[token] \in {"mailing", "answered"} /\ ~Live(token) => ~Live(token)'

\* Only the request a token was generated for stores it, and it does so once.
LEMMA StepRevivesNone == Inv /\ [Next]_vars => NoneRevived
<1> SUFFICES ASSUME Inv, [Next]_vars
             PROVE  NoneRevived
  OBVIOUS
<1>1. NoNewToken => NoneRevived
  BY NoneAssumption DEF NoNewToken, Live, NoneRevived
<1>2. UNCHANGED user => NoneRevived
  BY DEF Live, Present, NoneRevived
<1>3. ASSUME NEW q \in Requests, StoreToken(q)
      PROVE  NoneRevived
  <2>1. step[q] = "storing" /\ task[q].token = q
    BY <1>3 DEF StoreToken, Inv, TaskOfStep
  <2>2. user \in [Accounts -> User \cup {Absent}]
    BY DEF Inv, TypeOK
  <2>3. ASSUME NEW a \in Present'
        PROVE  a \in Present /\
               (user'[a].resetToken = user[a].resetToken \/ user'[a].resetToken = q)
    <3>1. CASE a \in Receivers(task[q])
      BY <1>3, <2>1, <2>2, <3>1 DEF StoreToken, Receivers, Present, User
    <3>2. CASE a \notin Receivers(task[q])
      BY <1>3, <2>3, <3>2 DEF StoreToken, Present
    <3> QED
      BY <3>1, <3>2
  <2> QED
    BY <2>1, <2>3 DEF Live, NoneRevived
<1> QED
  BY <1>1, <1>2, <1>3, WritesNoToken
  DEF Next, vars, Register, LookUp, Forgot, Mail, Reset, Change, Fail, Tick

\* A token that was stored and is in no account any more never gets into one again.
THEOREM DeadStaysDead == Spec => DeadTokensStayDead
BY StepRevivesNone, Reachable, PTL DEF Spec, DeadTokensStayDead, NoneRevived

\* Writes that keep addresses unique: each changes the address of one account to one
\* that the unique index admits.
LEMMA NextUnique == Inv /\ UniqueEmails /\ [Next]_vars => UniqueEmails'
<1> SUFFICES ASSUME Inv, UniqueEmails, [Next]_vars
             PROVE  UniqueEmails'
  OBVIOUS
<1>0. user \in [Accounts -> User \cup {Absent}]
  BY DEF Inv, TypeOK
<1>1. ASSUME \A a \in Present' : a \in Present /\ user'[a].email = user[a].email
      PROVE  UniqueEmails'
  BY <1>1 DEF UniqueEmails
<1>2. ASSUME NEW a \in Accounts, NEW email, Admits(a, email),
             \A b \in Present' : b # a => b \in Present /\ user'[b] = user[b],
             a \in Present' => user'[a].email = email
      PROVE  UniqueEmails'
  BY <1>2 DEF UniqueEmails, Admits
<1>a. ASSUME NEW q \in Requests, step[q] \in Busy
      PROVE  task[q] \in Task
  BY <1>a DEF Inv, TypeOK
<1>3. CASE UNCHANGED user
  BY <1>1, <1>3 DEF Present
<1>4. ASSUME NEW q \in Requests, Insert(q), ~UNCHANGED user
      PROVE  UniqueEmails'
  <2>1. task[q].account \in Accounts
    BY <1>4, <1>a DEF Insert, Busy, Task
  <2>2. /\ Admits(task[q].account, task[q].email)
        /\ user' = [user EXCEPT ![task[q].account] =
             [email |-> task[q].email, password |-> task[q].password,
              resetToken |-> None, expires |-> 0]]
    BY <1>4 DEF Insert
  <2> QED
    BY <1>0, <1>2, <2>1, <2>2 DEF Present
<1>5. ASSUME NEW q \in Requests, StoreToken(q)
      PROVE  UniqueEmails'
  <2>1. \A a \in Accounts : user[a] \in User /\ user'[a] # user[a] =>
          user'[a] = [user[a] EXCEPT !.resetToken = task[q].token,
                                     !.expires = task[q].expires]
    BY <1>5 DEF StoreToken
  <2>2. \A a \in Accounts : user[a] = Absent => user'[a] = Absent
    BY <1>5 DEF StoreToken, Receivers, Present
  <2>3. \A a \in Accounts : user[a] \in User => user'[a].email = user[a].email
    BY <2>1 DEF User
  <2> QED
    BY <1>0, <1>1, <2>2, <2>3 DEF Present
<1>6. ASSUME NEW q \in Requests, Save(q), ~UNCHANGED user
      PROVE  UniqueEmails'
  <2>1. /\ task[q].account \in Present
        /\ user' = [user EXCEPT ![task[q].account] = Replaced(@, task[q])]
    BY <1>6 DEF Save
  <2>2. \A a \in Accounts : user[a] \in User => user'[a].email = user[a].email
    BY <1>0, <2>1 DEF Replaced, User
  <2> QED
    BY <1>0, <1>1, <2>1, <2>2 DEF Present
<1>7. ASSUME NEW q \in Requests, ChangeEmail(q), ~UNCHANGED user
      PROVE  UniqueEmails'
  <2>1. PICK a \in Present, email \in Emails :
          Admits(a, email) /\ user' = [user EXCEPT ![a].email = email]
    BY <1>7 DEF ChangeEmail
  <2>2. user'[a].email = email
    BY <1>0, <2>1 DEF Present, User
  <2> QED
    BY <1>0, <1>2, <2>1, <2>2 DEF Present
<1>8. ASSUME NEW q \in Requests, Remove(q)
      PROVE  UniqueEmails'
  BY <1>0, <1>1, <1>8 DEF Remove, Present
<1> QED
  BY <1>3, <1>4, <1>5, <1>6, <1>7, <1>8
  DEF Next, vars, Register, LookUp, Forgot, Mail, Reset, Change, Fail, Tick

\* No two accounts ever have one address, however lookups, inserts and changes of
\* address are interleaved, given the unique index on the address.
THEOREM AddressesUnique == Spec => []UniqueEmails
<1>1. Init => UniqueEmails
  BY DEF Init, UniqueEmails, Present
<1> QED
  BY <1>1, NextUnique, Reachable, PTL DEF Spec

-----------------------------------------------------------------------------
(* The reset tokens.                                                       *)

\* A token that is in an account is in the one it was made for, and its forgot request
\* has stored it: it is good.
LEMMA GoodIsLive ==
  ASSUME Inv
  PROVE  \A token \in Requests :
           /\ Live(token) => /\ issuedTo[token] \in Present
                             /\ user[issuedTo[token]].resetToken = token
                             /\ step[token] # "storing"
           /\ fateOf[token] = "good" <=> Live(token)
<1> SUFFICES ASSUME NEW token \in Requests
             PROVE  /\ Live(token) => /\ issuedTo[token] \in Present
                                      /\ user[issuedTo[token]].resetToken = token
                                      /\ step[token] # "storing"
                    /\ fateOf[token] = "good" <=> Live(token)
  OBVIOUS
<1>1. Live(token) => /\ issuedTo[token] \in Present
                     /\ user[issuedTo[token]].resetToken = token
                     /\ step[token] # "storing"
  BY NoneAssumption DEF Inv, TokenPlaces, StoredSteps, Live
<1>2. issuedTo[token] \in Present => issuedTo[token] # Absent
  BY NoneAssumption DEF Present
<1> QED
  BY <1>1, <1>2 DEF fateOf

\* The initial states map to initial states.
LEMMA InitTokens == Init => Abstract!Init
<1> SUFFICES ASSUME Init
             PROVE  Abstract!Init
  OBVIOUS
<1>1. fateOf = [token \in Requests |-> "unborn"]
  BY DEF Init, fateOf
<1>2. passwordOf \in [Accounts -> Passwords \cup {None}]
  BY InitInv DEF passwordOf, Present, Inv, TypeOK, User
<1> QED
  BY <1>1, <1>2 DEF Init, Abstract!Init

\* A step that keeps the tokens and the passwords of all accounts keeps the fate of every
\* token whose request it does not bring to or from its storing.
LEMMA TokensKept ==
  ASSUME Present' = Present,
         \A a \in Present : /\ user'[a].resetToken = user[a].resetToken
                            /\ user'[a].password = user[a].password
  PROVE  /\ passwordOf' = passwordOf
         /\ \A token \in Requests :
              issuedTo'[token] = issuedTo[token]
              /\ (issuedTo[token] = Absent \/ (step'[token] = "storing" <=> step[token] = "storing"))
              => fateOf'[token] = fateOf[token]
<1>1. \A token \in Requests : Live(token)' <=> Live(token)
  BY DEF Live
<1>2. passwordOf' = passwordOf
  BY DEF passwordOf
<1> QED
  BY <1>1, <1>2 DEF fateOf

\* A step of a request that stores no token and leaves the accounts alone is nothing to
\* the tokens.
LEMMA TokensStutter ==
  ASSUME Inv, UNCHANGED <<user, issuedTo, spentBy>>,
         \A token \in Requests :
           issuedTo[token] = Absent \/ (step'[token] = "storing" <=> step[token] = "storing")
  PROVE  UNCHANGED Abstract!vars
<1>1. passwordOf' = passwordOf /\ \A token \in Requests : fateOf'[token] = fateOf[token]
  BY TokensKept DEF Present
<1>2. fateOf' = fateOf
  BY <1>1 DEF fateOf
<1> QED
  BY <1>1, <1>2 DEF Abstract!vars

\* A write that leaves one account without a token, or takes the account away, sets its
\* password.
LEMMA TokensCleared ==
  ASSUME Inv, Inv', NEW a \in Accounts,
         \A b \in Accounts \ {a} : user'[b] = user[b],
         user'[a] # Absent => user'[a].resetToken = None,
         UNCHANGED issuedTo,
         \A token \in Requests :
           issuedTo[token] = Absent \/ (step'[token] = "storing" <=> step[token] = "storing")
  PROVE  Abstract!Set(a)
<1>1. fateOf' = Abstract!Without(a)
  <2>1. ASSUME NEW token \in Requests
        PROVE  Live(token)' <=> Live(token) /\ issuedTo[token] # a
    <3>1. Live(token)' => Live(token) /\ issuedTo[token] # a
      BY <2>1, NoneAssumption DEF Live, Present, Inv, TokenPlaces
    <3>2. Live(token) /\ issuedTo[token] # a => Live(token)'
      BY GoodIsLive DEF Live, Present
    <3> QED
      BY <3>1, <3>2
  <2>2. ASSUME NEW token \in Requests
        PROVE  fateOf'[token] = Abstract!Without(a)[token]
    BY <2>1, GoodIsLive DEF fateOf, Abstract!Without
  <2> QED
    BY <2>2 DEF fateOf, Abstract!Without
<1>2. \E p \in Passwords \cup {None} : passwordOf' = [passwordOf EXCEPT ![a] = p]
  <2>1. passwordOf'[a] \in Passwords \cup {None}
    BY DEF passwordOf, Present, Inv, TypeOK, User
  <2>2. \A b \in Accounts \ {a} : passwordOf'[b] = passwordOf[b]
    BY DEF passwordOf, Present
  <2>3. passwordOf' = [passwordOf EXCEPT ![a] = passwordOf'[a]]
    BY <2>2 DEF passwordOf
  <2> QED
    BY <2>1, <2>3
<1> QED
  BY <1>1, <1>2 DEF Abstract!Set

\* A forgot request makes its token.
LEMMA ForgotMakes ==
  ASSUME Inv, NEW q \in Requests, Forgot(q)
  PROVE  UNCHANGED Abstract!vars \/ Abstract!Next
<1>0. /\ step \in [Requests -> Busy \cup {"idle", "refused", "answered"}]
      /\ issuedTo \in [Requests -> Accounts \cup {Absent}]
      /\ step[q] = "idle" /\ issuedTo[q] = Absent /\ UNCHANGED <<user, spentBy>>
  BY DEF Inv, TypeOK, TaskOfStep, Forgot
<1>1. CASE End(q, "answered") /\ UNCHANGED issuedTo
  BY <1>0, <1>1, TokensStutter DEF End, Goto
<1>2. CASE ~(End(q, "answered") /\ UNCHANGED issuedTo)
  <2>1. PICK a \in Present : Goto(q, "storing") /\ issuedTo' = [issuedTo EXCEPT ![q] = a]
    BY <1>2 DEF Forgot
  <2>2. a \in Accounts /\ a # Absent
    BY NoneAssumption DEF Present
  <2>3. \A token \in Requests \ {q} : fateOf'[token] = fateOf[token]
    BY <1>0, <2>1, TokensKept DEF Goto, Present
  <2>4. fateOf[q] = "unborn" /\ fateOf'[q] = "made"
    BY <1>0, <2>1, <2>2 DEF fateOf, Goto
  <2>5. fateOf' = [fateOf EXCEPT ![q] = "made"]
    BY <2>3, <2>4 DEF fateOf
  <2>6. Abstract!Make(q, a)
    BY <1>0, <2>1, <2>4, <2>5, TokensKept DEF Abstract!Make, Present
  <2> QED
    BY <2>2, <2>6 DEF Abstract!Next
<1> QED
  BY <1>1, <1>2

\* A token that is stored is given to its account, or lost when that is gone.
LEMMA StoringGives ==
  ASSUME Inv, NEW q \in Requests, StoreToken(q)
  PROVE  Abstract!Next
<1>0. /\ step \in [Requests -> Busy \cup {"idle", "refused", "answered"}]
      /\ user \in [Accounts -> User \cup {Absent}]
      /\ step[q] = "storing" /\ task[q] \in Task
      /\ task[q].token = q /\ issuedTo[q] = task[q].account
      /\ step' = [step EXCEPT ![q] = "mailing"]
      /\ UNCHANGED <<issuedTo, spentBy>>
  BY DEF Inv, TypeOK, TaskOfStep, Busy, StoreToken, Goto, history
<1>. DEFINE a == task[q].account
<1>1. a \in Accounts /\ a # Absent /\ fateOf[q] = "made" /\ ~Live(q)
  BY <1>0, NoneAssumption, GoodIsLive DEF Task, fateOf
<1>2. CASE a \notin Present
  <2>1. user' = user
    BY <1>0, <1>2 DEF StoreToken, Receivers
  <2>2. passwordOf' = passwordOf /\ \A token \in Requests \ {q} : fateOf'[token] = fateOf[token]
    BY <1>0, <2>1, TokensKept DEF Present
  <2>3. fateOf'[q] = "dead"
    BY <1>0, <1>1, <2>1 DEF fateOf, Live, Present
  <2>4. fateOf' = [fateOf EXCEPT ![q] = "dead"]
    BY <2>2, <2>3 DEF fateOf
  <2> QED
    BY <1>0, <1>1, <2>2, <2>4 DEF Abstract!Lose, Abstract!Next
<1>3. CASE a \in Present
  <2>1. user' = [user EXCEPT ![a] = [user[a] EXCEPT !.resetToken = q,
                                                    !.expires = task[q].expires]]
    BY <1>0, <1>3 DEF StoreToken, Receivers
  <2>2. user[a] \in User
    BY <1>0, <1>3 DEF Present
  <2>3. /\ user'[a].resetToken = q /\ user'[a].password = user[a].password
        /\ user'[a] \in User
        /\ \A b \in Accounts \ {a} : user'[b] = user[b]
    BY <1>0, <1>1, <2>1, <2>2 DEF User, Task
  <2>4. Present' = Present /\ a \in Present'
    BY <1>3, <2>3, NoneAssumption DEF Present
  <2>5. passwordOf' = passwordOf
    BY <2>3, <2>4 DEF passwordOf, Present
  <2>6. ASSUME NEW token \in Requests, token # q
        PROVE  Live(token)' <=> Live(token) /\ issuedTo[token] # a
    <3>1. Live(token)' => Live(token) /\ issuedTo[token] # a
      BY <2>3, <2>4, <2>6, NoneAssumption DEF Live, Present, Inv, TokenPlaces
    <3>2. Live(token) /\ issuedTo[token] # a => Live(token)'
      BY <2>3, <2>4, GoodIsLive DEF Live, Present
    <3> QED
      BY <3>1, <3>2
  <2>7. ASSUME NEW token \in Requests, token # q
        PROVE  fateOf'[token] = Abstract!Without(a)[token]
    BY <1>0, <2>6, <2>7, GoodIsLive DEF fateOf, Abstract!Without
  <2>8. fateOf'[q] = "good"
    BY <1>0, <1>1, <2>3, <2>4 DEF fateOf, Live
  <2>9. fateOf' = [Abstract!Without(a) EXCEPT ![q] = "good"]
    BY <2>7, <2>8 DEF fateOf, Abstract!Without
  <2> QED
    BY <1>0, <1>1, <2>5, <2>9 DEF Abstract!Give, Abstract!Next
<1> QED
  BY <1>2, <1>3

\* A save spends the token it came with, or changes the password.
LEMMA SavingSets ==
  ASSUME Inv, Inv', NEW q \in Requests, Save(q)
  PROVE  UNCHANGED Abstract!vars \/ Abstract!Next
<1>0. /\ step \in [Requests -> Busy \cup {"idle", "refused", "answered"}]
      /\ user \in [Accounts -> User \cup {Absent}]
      /\ spentBy \in [Requests -> SUBSET Requests]
      /\ step[q] = "saving" /\ UNCHANGED issuedTo
      /\ \A token \in Requests : step'[token] = "storing" <=> step[token] = "storing"
  BY DEF Inv, TypeOK, Save, End, Goto
<1>1. CASE UNCHANGED <<user, spentBy>>
  BY <1>0, <1>1, TokensStutter
<1>2. CASE ~UNCHANGED <<user, spentBy>>
  <2>. DEFINE a == task[q].account
  <2>1. /\ a \in Present /\ a \in Accounts
        /\ user' = [user EXCEPT ![a] = Replaced(user[a], task[q])]
        /\ spentBy' = IF task[q].op = "reset"
                      THEN [spentBy EXCEPT ![task[q].token] = @ \cup {q}] ELSE spentBy
    BY <1>2 DEF Save, Present
  <2>2. user[a] \in User
    BY <1>0, <2>1 DEF Present
  <2>3. user'[a].resetToken = None /\ \A b \in Accounts \ {a} : user'[b] = user[b]
    BY <1>0, <2>1, <2>2 DEF Replaced, User
  <2>4. Abstract!Set(a)
    BY <1>0, <2>1, <2>3, TokensCleared
  <2>5. CASE task[q].op = "reset"
    <3>. DEFINE t == task[q].token
    <3>1. t \in Requests /\ step[t] \in StoredSteps /\ issuedTo[t] = a
      BY <1>0, <2>5 DEF Inv, TokenPlaces
    <3>2. a # Absent
      BY <2>1, NoneAssumption
    <3>3. fateOf[t] \in {"good", "dead"}
      BY <3>1, <3>2 DEF fateOf, StoredSteps
    <3>4. {u \in Requests : spentBy'[u] # {}} = {u \in Requests : spentBy[u] # {}} \cup {t}
      BY <1>0, <2>1, <2>5, <3>1
    <3> QED
      BY <2>4, <3>1, <3>3, <3>4 DEF Abstract!Spend, Abstract!Next
  <2>6. CASE task[q].op # "reset"
    BY <2>1, <2>4, <2>6 DEF Abstract!Change, Abstract!Next
  <2> QED
    BY <2>5, <2>6
<1> QED
  BY <1>1, <1>2

\* The other writes of a request: an account comes, goes, or changes its address.
LEMMA EditsSet ==
  ASSUME Inv, Inv', NEW q \in Requests, Insert(q) \/ ChangeEmail(q) \/ Remove(q)
  PROVE  UNCHANGED Abstract!vars \/ Abstract!Next
<1>0. /\ step \in [Requests -> Busy \cup {"idle", "refused", "answered"}]
      /\ user \in [Accounts -> User \cup {Absent}]
      /\ step[q] # "storing" /\ UNCHANGED <<issuedTo, spentBy>>
      /\ \A token \in Requests : step'[token] = "storing" <=> step[token] = "storing"
  BY DEF Inv, TypeOK, Insert, ChangeEmail, Remove, End, Goto, history
<1>1. CASE UNCHANGED user
  BY <1>0, <1>1, TokensStutter
<1>2. CASE Insert(q) /\ ~UNCHANGED user
  <2>1. task[q].account \in Accounts
    BY <1>2 DEF Insert, Inv, TypeOK, Busy, Task
  <2>2. user' = [user EXCEPT ![task[q].account] =
          [email |-> task[q].email, password |-> task[q].password,
           resetToken |-> None, expires |-> 0]]
    BY <1>2 DEF Insert
  <2>3. Abstract!Set(task[q].account)
    BY <1>0, <2>1, <2>2, TokensCleared
  <2> QED
    BY <1>0, <2>1, <2>3 DEF Abstract!Change, Abstract!Next
<1>3. CASE ChangeEmail(q) /\ ~UNCHANGED user
  <2>1. PICK a \in Present, email \in Emails : user' = [user EXCEPT ![a].email = email]
    BY <1>3 DEF ChangeEmail
  <2>2. a \in Accounts /\ user[a] \in User
    BY <1>0 DEF Present
  <2>3. /\ user'[a] \in User
        /\ user'[a].resetToken = user[a].resetToken /\ user'[a].password = user[a].password
        /\ \A b \in Accounts \ {a} : user'[b] = user[b]
    BY <1>0, <2>1, <2>2 DEF User
  <2>4. Present' = Present
    BY <2>2, <2>3, NoneAssumption DEF Present
  <2>5. passwordOf' = passwordOf /\ \A token \in Requests : fateOf'[token] = fateOf[token]
    BY <1>0, <2>3, <2>4, TokensKept DEF Present
  <2>6. fateOf' = fateOf
    BY <2>5 DEF fateOf
  <2> QED
    BY <1>0, <2>5, <2>6 DEF Abstract!vars
<1>4. CASE Remove(q)
  <2>1. PICK a \in Present : user' = [user EXCEPT ![a] = Absent]
    BY <1>4 DEF Remove
  <2>2. a \in Accounts
    BY DEF Present
  <2>3. Abstract!Set(a)
    BY <1>0, <2>1, <2>2, TokensCleared
  <2> QED
    BY <1>0, <2>2, <2>3 DEF Abstract!Change, Abstract!Next
<1> QED
  BY <1>1, <1>2, <1>3, <1>4

\* A failure before the token is stored loses it.
LEMMA FailingLoses ==
  ASSUME Inv, NEW q \in Requests, Fail(q)
  PROVE  UNCHANGED Abstract!vars \/ Abstract!Next
<1>0. /\ step \in [Requests -> Busy \cup {"idle", "refused", "answered"}]
      /\ step' = [step EXCEPT ![q] = "refused"] /\ UNCHANGED <<user, issuedTo, spentBy>>
  BY DEF Inv, TypeOK, Fail, End, Goto, history
<1>1. CASE step[q] # "storing"
  BY <1>0, <1>1, TokensStutter
<1>2. CASE step[q] = "storing"
  <2>1. issuedTo[q] # Absent /\ ~Live(q)
    BY <1>2, GoodIsLive, NoneAssumption DEF Inv, TypeOK, TaskOfStep, Busy, Task
  <2>2. passwordOf' = passwordOf /\ \A token \in Requests \ {q} : fateOf'[token] = fateOf[token]
    BY <1>0, TokensKept DEF Present
  <2>3. fateOf[q] = "made" /\ fateOf'[q] = "dead"
    BY <1>0, <1>2, <2>1 DEF fateOf, Live, Present
  <2>4. fateOf' = [fateOf EXCEPT ![q] = "dead"]
    BY <2>2, <2>3 DEF fateOf
  <2> QED
    BY <1>0, <2>2, <2>3, <2>4 DEF Abstract!Lose, Abstract!Next
<1> QED
  BY <1>1, <1>2

\* Every step maps to a step or a stutter.
LEMMA NextTokens == Inv /\ Inv' /\ [Next]_vars => UNCHANGED Abstract!vars \/ Abstract!Next
<1> SUFFICES ASSUME Inv, Inv', [Next]_vars
             PROVE  UNCHANGED Abstract!vars \/ Abstract!Next
  OBVIOUS
<1>1. ASSUME NEW q \in Requests,
             Register(q) \/ LookUp(q) \/ Mail(q) \/ Reset(q) \/ Change(q)
      PROVE  UNCHANGED Abstract!vars
  <2>1. UNCHANGED <<user, issuedTo, spentBy>>
    BY <1>1 DEF Register, LookUp, Mail, Reset, Change, history
  <2>2. \A token \in Requests : step'[token] = "storing" <=> step[token] = "storing"
    BY <1>1 DEF Register, LookUp, Mail, Reset, Change, End, Goto, Inv, TypeOK
  <2> QED
    BY <2>1, <2>2, TokensStutter
<1>2. CASE Tick \/ UNCHANGED vars
  BY <1>2, TokensStutter DEF Tick, vars, history
<1> QED
  BY <1>1, <1>2, ForgotMakes, StoringGives, SavingSets, EditsSet, FailingLoses DEF Next

\* The account service implements the life of the reset tokens.
THEOREM Refinement == Spec => ImplementsResetTokens
<1>1. Inv /\ Inv' /\ [Next]_vars => [Abstract!Next]_Abstract!vars
  BY NextTokens
<1> QED
  BY <1>1, InitTokens, Reachable, PTL DEF Spec, Abstract!Spec, ImplementsResetTokens
=============================================================================
