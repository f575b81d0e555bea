----------------------------- MODULE SessionProofs -----------------------------
(***************************************************************************)
(* Who may become staff and act on an account, for every set of requests,  *)
(* logins and accounts; and that what AccountProofs proves of accounts     *)
(* holds also beside sessions, verification and the script.                *)
(***************************************************************************)
EXTENDS Sessions, AccountProofs

Registering(q) == step[q] \in {"lookingUp", "lookingUpAgain", "inserting"}

\* The account of a registration, or of the script when it creates one, is not there
\* yet and is nobody else's.
Claims ==
  /\ \A q \in Requests : Registering(q) => user[task[q].account] = Absent
  /\ \A p, q \in Requests :
       p # q /\ Registering(p) /\ Registering(q) => task[p].account # task[q].account
  /\ seeding = "inserting" =>
       /\ user[script.account] = Absent
       /\ \A q \in Requests : Registering(q) => task[q].account # script.account

\* Who is staff, and who was read as staff by a login that has not signed yet.
StaffKnown ==
  /\ AdminsAreSeeded
  /\ \A v \in Visits : visit[v] # NoVisit /\ visit[v].role = "admin" =>
       visit[v].account \in promoted

\* Who is verified, and whose link was followed by a visit that has not saved yet.
VerifiedKnown ==
  /\ VerifiedByOwnLink
  /\ \A v \in Visits : visiting[v] = "marking" => visit[v].account \in followed

SessionInv == Inv /\ SessionTypeOK /\ Claims /\ StaffKnown /\ VerifiedKnown

-----------------------------------------------------------------------------
(* The accounts.                                                           *)

\* The initial states satisfy the invariant.
LEMMA SessionStart == SessionInit => SessionInv
<1>. SUFFICES ASSUME SessionInit PROVE SessionInv
  OBVIOUS
<1>1. Inv
  BY InitInv DEF SessionInit
<1>2. SessionTypeOK
  BY ExistingAssumption, LivesAssumption, TimeAssumption
     DEF SessionInit, SessionTypeOK, Role, Link
<1>3. Claims
  BY DEF SessionInit, Init, Claims, Registering
<1>4. StaffKnown /\ VerifiedKnown
  BY DEF SessionInit, StaffKnown, VerifiedKnown, AdminsAreSeeded, VerifiedByOwnLink, Present
<1>. QED
  BY <1>1, <1>2, <1>3, <1>4 DEF SessionInv

\* Every account stays, or stays away, and keeps its address.
SameOwners ==
  \A a \in Accounts :
    /\ user'[a] = Absent <=> user[a] = Absent
    /\ user[a] # Absent => user'[a].email = user[a].email

\* Only an insert and the script write an account that was not there.
LEMMA MostKeepOwners ==
  ASSUME SessionInv,
         \/ UNCHANGED user
         \/ \E q \in Requests : StoreToken(q) \/ Save(q)
  PROVE  SameOwners
<1>1. user \in [Accounts -> User \cup {Absent}] /\ \A a \in Accounts : user[a] # Absent => user[a] \in User
  BY DEF SessionInv, Inv, TypeOK
<1>2. CASE UNCHANGED user
  BY <1>2 DEF SameOwners
<1>3. ASSUME NEW q \in Requests, StoreToken(q) PROVE SameOwners
  <2>1. task[q] \in Task
    BY <1>3 DEF SessionInv, Inv, TypeOK, Busy, StoreToken
  <2>2. ASSUME NEW a \in Accounts
        PROVE  /\ user'[a] = Absent <=> user[a] = Absent
               /\ user[a] # Absent => user'[a].email = user[a].email
    <3>1. CASE a \in Receivers(task[q])
      <4>1. a \in Present /\ user'[a] = [user[a] EXCEPT !.resetToken = task[q].token,
                                                       !.expires = task[q].expires]
        BY <1>3, <3>1 DEF StoreToken, Receivers
      <4>2. user'[a] \in User /\ user'[a].email = user[a].email
        <5>1. task[q].token = q /\ task[q].expires \in Times
          BY <1>3, <2>1 DEF SessionInv, Inv, TaskOfStep, StoreToken, Task
        <5>. QED
          BY <1>1, <4>1, <5>1 DEF Present, User
      <4>. QED
        BY <4>1, <4>2, NoneAssumption DEF Present
    <3>2. CASE a \notin Receivers(task[q])
      BY <1>3, <3>2 DEF StoreToken
    <3>. QED
      BY <3>1, <3>2
  <2>. QED
    BY <2>2 DEF SameOwners
<1>4. ASSUME NEW q \in Requests, Save(q) PROVE SameOwners
  <2>1. CASE UNCHANGED user
    BY <2>1 DEF SameOwners
  <2>2. CASE /\ task[q].account \in Present
             /\ user' = [user EXCEPT ![task[q].account] = Replaced(user[task[q].account], task[q])]
    <3>. DEFINE b == task[q].account
    <3>1. user[b] \in User /\ b \in Accounts
      BY <1>1, <2>2 DEF Present
    <3>2. task[q].password \in Passwords /\ 0 \in Times
      BY <1>4, TimeAssumption DEF Save, SessionInv, Inv, TaskOfStep, Times
    <3>3. Replaced(user[b], task[q]) \in User
          /\ Replaced(user[b], task[q]).email = user[b].email
      BY <3>1, <3>2 DEF Replaced, User
    <3>. QED
      BY <1>1, <2>2, <3>1, <3>3, NoneAssumption DEF SameOwners
  <2>. QED
    BY <1>4, <2>1, <2>2 DEF Save
<1>. QED
  BY <1>2, <1>3, <1>4

\* What the script saves: an account that keeps its address and its token, or a new
\* one that has none.
LEMMA SeedStores ==
  ASSUME SessionInv, SeedSave
  PROVE  \E stored \in User :
           /\ user' = [user EXCEPT ![script.account] = stored]
           /\ \/ /\ script.account \in Present
                 /\ stored.email = user[script.account].email
                 /\ stored.resetToken = user[script.account].resetToken
              \/ /\ script.account \notin Present
                 /\ Admits(script.account, stored.email)
                 /\ stored.resetToken = None
<1>. DEFINE a == script.account
            password == script.password
<1>1. a \in Accounts /\ password \in Passwords \cup {None}
  BY DEF SessionInv, SessionTypeOK, SeedSave, Script
<1>2. CASE seeding = "promoting" /\ a \in Present
           /\ Promote(a, IF password = None THEN user[a]
                         ELSE [user[a] EXCEPT !.password = password])
  <2>1. user[a] \in User
    BY <1>1, <1>2 DEF SessionInv, Inv, TypeOK, Present
  <2>. DEFINE s == IF password = None THEN user[a]
                   ELSE [user[a] EXCEPT !.password = password]
  <2>2. s \in User /\ s.email = user[a].email /\ s.resetToken = user[a].resetToken
    BY <1>1, <2>1 DEF User
  <2>. QED
    BY <1>2, <2>2 DEF Promote
<1>3. CASE seeding = "inserting" /\ Admits(a, AdminEmail)
           /\ Promote(a, [email |-> AdminEmail, password |-> password,
                          resetToken |-> None, expires |-> 0])
  <2>. DEFINE s == [email |-> AdminEmail, password |-> password,
                    resetToken |-> None, expires |-> 0]
  <2>1. password \in Passwords
    BY <1>1, <1>3 DEF SessionInv, SessionTypeOK
  <2>2. s \in User /\ s.email = AdminEmail /\ s.resetToken = None
    BY <2>1, AdminEmailAssumption, TimeAssumption DEF User, Times
  <2>3. a \notin Present
    BY <1>3 DEF SessionInv, Claims, Present
  <2>. QED
    BY <1>3, <2>2, <2>3 DEF Promote
<1>. QED
  BY <1>2, <1>3 DEF SeedSave

\* The script writes no token into an account.
LEMMA SeedWritesNoToken ==
  ASSUME SessionInv, SeedSave
  PROVE  user' \in [Accounts -> User \cup {Absent}] /\ NoNewToken
<1>1. script.account \in Accounts
  BY DEF SessionInv, SessionTypeOK, SeedSave, Script
<1>. QED
  BY <1>1, SeedStores DEF NoNewToken, Present, SessionInv, Inv, TypeOK

\* A step that only the script can take keeps what holds of the accounts.
LEMMA SeedKeepsAccounts == SessionInv /\ UniqueEmails /\ SeedSave => Inv' /\ UniqueEmails'
<1>. SUFFICES ASSUME SessionInv, UniqueEmails, SeedSave PROVE Inv' /\ UniqueEmails'
  OBVIOUS
<1>1. UNCHANGED <<step, task, mailed, now, history>>
  BY DEF SeedSave
<1>2. user' \in [Accounts -> User \cup {Absent}] /\ NoNewToken
  BY SeedWritesNoToken
<1>3. TypeOK'
  BY <1>1, <1>2 DEF SessionInv, Inv, TypeOK, history
<1>4. TokenPlaces' /\ TaskOfStep' /\ SpentTokenDead'
  BY <1>1, <1>2, NoneAssumption
     DEF SessionInv, Inv, TokenPlaces, TaskOfStep, SpentTokenDead, NoNewToken, Live, history
<1>5. UniqueEmails'
  <2>1. script.account \in Accounts /\ user \in [Accounts -> User \cup {Absent}]
    BY DEF SessionInv, SessionTypeOK, SeedSave, Script, Inv, TypeOK
  <2>. QED
    BY <2>1, SeedStores DEF UniqueEmails, Present, Admits
<1>. QED
  BY <1>3, <1>4, <1>5 DEF Inv

-----------------------------------------------------------------------------
(* Every step.                                                             *)

\* A step either is one of the accounts, or is the save of the script.
LEMMA StepOfAccounts == [SessionNext]_allVars => [Next]_vars \/ SeedSave
BY DEF SessionNext, allVars, GuardedRegister, GuardedInsert, GuardedChange, GuardedEdit,
       Unguarded, Login, Sign, Verify, MarkVerified, FailVisit, SeedFind, FailSeed, Next

\* What Accounts guarantees of its own steps holds beside sessions and the script.
LEMMA AccountsKeep ==
  SessionInv /\ UniqueEmails /\ [SessionNext]_allVars => Inv' /\ UniqueEmails'
BY StepOfAccounts, NextInv, NextUnique, SeedKeepsAccounts DEF SessionInv

\* What is signed is a session, or a link.
LEMMA SignedIsSession ==
  ASSUME SessionInv, NEW a \in Accounts, NEW r \in Role
  PROVE  /\ signToken(a, r) \in Session
         /\ [account |-> a, expires |-> now + LinkLife] \in Link
BY LivesAssumption, TimeAssumption
   DEF SessionInv, Inv, TypeOK, signToken, Session, Link

\* Every step keeps the types.
LEMMA TypesStay == SessionInv /\ [SessionNext]_allVars => SessionTypeOK'
<1>. SUFFICES ASSUME SessionInv, [SessionNext]_allVars PROVE SessionTypeOK'
  OBVIOUS
<1>0. /\ task \in [Requests -> Task \cup {NoTask}]
      /\ user \in [Accounts -> User \cup {Absent}]
      /\ \A q \in Requests : step[q] \in Busy => task[q] \in Task
  BY DEF SessionInv, Inv, TypeOK
<1>1. CASE UNCHANGED sessionVars
  BY <1>1 DEF SessionInv, SessionTypeOK, sessionVars, fields, visits, scripts, sessionHistory
<1>2. ASSUME NEW q \in Requests, GuardedRegister(q) PROVE SessionTypeOK'
  BY <1>2 DEF GuardedRegister, SessionInv, SessionTypeOK, fields, visits, scripts, sessionHistory
<1>3. ASSUME NEW q \in Requests, GuardedInsert(q) PROVE SessionTypeOK'
  <2>1. task[q].account \in Accounts
    BY <1>0, <1>3 DEF GuardedInsert, Insert, Busy, Task
  <2>2. /\ role' \in [Accounts -> Role] /\ verified' \in [Accounts -> BOOLEAN]
        /\ sessions' \subseteq Session /\ links' \subseteq Link
    <3>1. CASE UNCHANGED <<fields, sessions, links>>
      BY <3>1 DEF SessionInv, SessionTypeOK, fields
    <3>2. CASE ~UNCHANGED <<fields, sessions, links>>
      <4>1. PICK r \in NewRoles :
              /\ role' = [role EXCEPT ![task[q].account] = r]
              /\ sessions' \in {sessions, sessions \cup {signToken(task[q].account, r)}}
        BY <1>3, <3>2 DEF GuardedInsert
      <4>2. r \in Role
        BY DEF NewRoles, Role
      <4>3. verified' = [verified EXCEPT ![task[q].account] = FALSE]
        BY <1>3, <3>2 DEF GuardedInsert
      <4>4. links' \subseteq links \cup {[account |-> task[q].account, expires |-> now + LinkLife]}
        BY <1>3, <3>2 DEF GuardedInsert
      <4>. QED
        BY <2>1, <4>1, <4>2, <4>3, <4>4, SignedIsSession DEF SessionInv, SessionTypeOK
    <3>. QED
      BY <3>1, <3>2
  <2>. QED
    BY <1>3, <2>2 DEF GuardedInsert, SessionInv, SessionTypeOK, visits, scripts, sessionHistory
<1>4. ASSUME NEW v \in Visits, NEW a \in Present, NEW next \in {"signing", "marking"},
             Load(v, a, next)
      PROVE  /\ visiting' \in [Visits -> {"idle", "signing", "marking", "refused", "answered"}]
             /\ visit' \in [Visits -> Visit \cup {NoVisit}]
             /\ \A w \in Visits : visiting'[w] \in {"signing", "marking"} <=> visit'[w] # NoVisit
  <2>1. user[a] \in User /\ a \in Accounts
    BY <1>0 DEF Present
  <2>2. [account |-> a, email |-> user[a].email, role |-> role[a]] \in Visit
    BY <2>1 DEF Visit, User, SessionInv, SessionTypeOK
  <2>. QED
    BY <1>4, <2>2, NoVisitAssumption DEF Load, SessionInv, SessionTypeOK
<1>5. ASSUME NEW v \in Visits, NEW outcome \in {"refused", "answered"}, Leave(v, outcome)
      PROVE  /\ visiting' \in [Visits -> {"idle", "signing", "marking", "refused", "answered"}]
             /\ visit' \in [Visits -> Visit \cup {NoVisit}]
             /\ \A w \in Visits : visiting'[w] \in {"signing", "marking"} <=> visit'[w] # NoVisit
  BY <1>5 DEF Leave, SessionInv, SessionTypeOK
<1>6. ASSUME NEW v \in Visits, Login(v) PROVE SessionTypeOK'
  BY <1>6, <1>4, <1>5 DEF Login, SessionInv, SessionTypeOK, fields, scripts, sessionHistory
<1>7. ASSUME NEW v \in Visits, Sign(v) PROVE SessionTypeOK'
  <2>1. visit[v] \in Visit
    BY <1>7 DEF Sign, SessionInv, SessionTypeOK
  <2>2. sessions' \subseteq Session
    BY <1>7, <2>1, SignedIsSession DEF Sign, Visit, SessionInv, SessionTypeOK
  <2>. QED
    BY <1>7, <1>5, <2>2 DEF Sign, SessionInv, SessionTypeOK, fields, scripts, sessionHistory
<1>8. ASSUME NEW v \in Visits, Verify(v) PROVE SessionTypeOK'
  BY <1>8, <1>4, <1>5 DEF Verify, SessionInv, SessionTypeOK, fields, scripts, sessionHistory, Link
<1>9. ASSUME NEW v \in Visits, MarkVerified(v) PROVE SessionTypeOK'
  <2>1. verified' \in [Accounts -> BOOLEAN]
    BY <1>9 DEF MarkVerified, SessionInv, SessionTypeOK
  <2>2. Leave(v, "refused") \/ Leave(v, "answered")
    BY <1>9 DEF MarkVerified
  <2>. QED
    BY <1>9, <1>5, <2>1, <2>2 DEF MarkVerified, SessionInv, SessionTypeOK, scripts, sessionHistory
<1>10. ASSUME NEW v \in Visits, FailVisit(v) PROVE SessionTypeOK'
  BY <1>10, <1>5 DEF FailVisit, SessionInv, SessionTypeOK, fields, scripts, sessionHistory
<1>11. CASE SeedFind
  <2>1. PICK a \in Accounts, password \in Passwords \cup {None} :
          /\ \/ seeding' = "promoting"
             \/ seeding' = "inserting" /\ password # None
          /\ script' = [account |-> a, password |-> password]
    BY <1>11 DEF SeedFind, MayCreate
  <2>2. script' \in Script /\ script'.password = password
    BY <2>1 DEF Script
  <2>. QED
    BY <1>11, <2>1, <2>2, NoVisitAssumption
       DEF SeedFind, SessionInv, SessionTypeOK, fields, visits, sessionHistory
<1>12. CASE SeedSave
  <2>1. script.account \in Accounts
    BY <1>12 DEF SeedSave, SessionInv, SessionTypeOK, Script
  <2>2. /\ role' \in [Accounts -> Role] /\ verified' \in [Accounts -> BOOLEAN]
        /\ promoted' \subseteq Accounts
    BY <1>12, <2>1 DEF SeedSave, Promote, SessionInv, SessionTypeOK, Role
  <2>. QED
    BY <1>12, <2>2 DEF SeedSave, SessionInv, SessionTypeOK, visits
<1>13. CASE FailSeed
  BY <1>13 DEF FailSeed, SessionInv, SessionTypeOK, fields, visits, sessionHistory
<1>. QED
  BY <1>1, <1>2, <1>3, <1>6, <1>7, <1>8, <1>9, <1>10, <1>11, <1>12, <1>13
     DEF SessionNext, allVars, GuardedChange, GuardedEdit, Unguarded

-----------------------------------------------------------------------------
(* Claims.                                                                 *)

\* A step that starts no registration, and brings no account where a claim is, keeps
\* the claims.
LEMMA ClaimsKept ==
  ASSUME SessionInv,
         \A q \in Requests : Registering(q)' =>
           /\ Registering(q) /\ task'[q].account = task[q].account
           /\ user'[task[q].account] = Absent,
         seeding' = "inserting" =>
           /\ seeding = "inserting" /\ script' = script
           /\ user'[script.account] = Absent
  PROVE  Claims'
BY DEF SessionInv, Claims

\* What an action of one request does to the registrations.
LEMMA RegistrationsKept ==
  ASSUME SessionInv, NEW q \in Requests,
         \/ LookUp(q) \/ Insert(q) \/ Forgot(q) \/ StoreToken(q) \/ Mail(q) \/ Reset(q)
         \/ Change(q) \/ Save(q) \/ ChangeEmail(q) \/ Remove(q) \/ Fail(q)
  PROVE  \A p \in Requests : Registering(p)' =>
           Registering(p) /\ task'[p].account = task[p].account
<1>1. step \in [Requests -> Busy \cup {"idle", "refused", "answered"}]
      /\ task \in [Requests -> Task \cup {NoTask}]
  BY DEF SessionInv, Inv, TypeOK
<1>2. CASE LookUp(q)
  <2>1. CASE End(q, "refused")
    BY <1>1, <2>1 DEF End, Goto, Registering
  <2>2. CASE UNCHANGED task /\ (Goto(q, "lookingUpAgain") \/ Goto(q, "inserting"))
    BY <1>1, <1>2, <2>2 DEF LookUp, Goto, Registering
  <2>. QED
    BY <1>2, <2>1, <2>2 DEF LookUp
<1>3. ASSUME NEW outcome \in {"answered", "refused"}, End(q, outcome)
      PROVE  \A p \in Requests : Registering(p)' =>
               Registering(p) /\ task'[p].account = task[p].account
  BY <1>1, <1>3 DEF End, Goto, Registering
<1>4. ASSUME NEW t, NEW next \in {"storing", "saving"},
             Goto(q, next), task' = [task EXCEPT ![q] = t]
      PROVE  \A p \in Requests : Registering(p)' =>
               Registering(p) /\ task'[p].account = task[p].account
  BY <1>1, <1>4 DEF Goto, Registering
<1>5. CASE StoreToken(q)
  BY <1>1, <1>5 DEF StoreToken, Goto, Registering
<1>6. CASE Forgot(q) \/ Reset(q) \/ Change(q)
  <2>1. \/ End(q, "answered") \/ End(q, "refused")
        \/ \E t : task' = [task EXCEPT ![q] = t] /\ (Goto(q, "storing") \/ Goto(q, "saving"))
    BY <1>6 DEF Forgot, Reset, Change
  <2>. QED
    BY <1>3, <1>4, <2>1
<1>7. CASE Insert(q) \/ Mail(q) \/ Save(q) \/ ChangeEmail(q) \/ Remove(q) \/ Fail(q)
  BY <1>3, <1>7 DEF Insert, Mail, Save, ChangeEmail, Remove, Fail
<1>. QED
  BY <1>2, <1>5, <1>6, <1>7

\* Every step keeps apart the ids that are about to be written.
LEMMA ClaimsStay == SessionInv /\ [SessionNext]_allVars => Claims'
<1>. SUFFICES ASSUME SessionInv, [SessionNext]_allVars PROVE Claims'
  OBVIOUS
<1>0. /\ task \in [Requests -> Task \cup {NoTask}]
      /\ user \in [Accounts -> User \cup {Absent}]
      /\ step \in [Requests -> Busy \cup {"idle", "refused", "answered"}]
      /\ \A q \in Requests : Registering(q) => task[q] \in Task /\ task[q].account \in Accounts
      /\ seeding = "inserting" => script # NoVisit /\ script.account \in Accounts
  BY DEF SessionInv, Inv, TypeOK, Busy, Registering, Task, SessionTypeOK, Script
<1>1. CASE UNCHANGED <<user, step, task>> /\ UNCHANGED scripts
  BY <1>1, ClaimsKept DEF Registering, scripts, SessionInv, Claims
<1>2. CASE UNCHANGED <<user, step, task>> /\ FailSeed
  BY <1>2, ClaimsKept DEF Registering, FailSeed, SessionInv, Claims
<1>3. CASE SeedFind
  <2>1. PICK a \in Accounts, password \in Passwords \cup {None} :
          /\ \/ seeding' = "promoting"
             \/ seeding' = "inserting" /\ Unused(a)
          /\ script' = [account |-> a, password |-> password]
    BY <1>3 DEF SeedFind
  <2>2. UNCHANGED <<user, step, task>>
    BY <1>3 DEF SeedFind, vars
  <2>3. Unused(a) => user[a] = Absent /\ \A q \in Requests : Registering(q) => task[q].account # a
    BY <1>0, NoneAssumption DEF Unused, Fresh
  <2>. QED
    BY <2>1, <2>2, <2>3 DEF SessionInv, Claims, Registering
<1>4. CASE SeedSave
  <2>1. UNCHANGED <<step, task>> /\ seeding' = "done"
    BY <1>4 DEF SeedSave
  <2>2. \A q \in Requests : Registering(q) => user'[task[q].account] = Absent
    <3>1. CASE seeding = "promoting" /\ script.account \in Present
      BY <1>0, <1>4, <3>1 DEF SeedSave, Promote, SessionInv, Claims, Present
    <3>2. CASE seeding = "inserting"
      BY <1>0, <1>4, <3>2 DEF SeedSave, Promote, SessionInv, Claims
    <3>. QED
      BY <1>4, <3>1, <3>2 DEF SeedSave
  <2>. QED
    BY <2>1, <2>2, ClaimsKept DEF Registering
<1>5. ASSUME NEW q \in Requests, GuardedRegister(q) PROVE Claims'
  <2>1. UNCHANGED user /\ UNCHANGED scripts
    BY <1>5 DEF GuardedRegister, Register, scripts
  <2>2. PICK a \in Accounts, t \in Task :
          /\ Unused(a) /\ t.account = a
          /\ task' = [task EXCEPT ![q] = t]
          /\ step' = [step EXCEPT ![q] = step'[q]]
    <3>1. PICK a \in Accounts, email \in Emails, password \in Passwords :
            /\ Goto(q, "lookingUp") \/ Goto(q, "lookingUpAgain")
            /\ task' = [task EXCEPT ![q] =
                 [op |-> "register", account |-> a, email |-> email, password |-> password,
                  token |-> None, expires |-> 0]]
      BY <1>5 DEF GuardedRegister, Register
    <3>2. [op |-> "register", account |-> a, email |-> email, password |-> password,
           token |-> None, expires |-> 0] \in Task
      BY TimeAssumption DEF Task, Times
    <3>3. task'[q].account = a
      BY <1>0, <3>1
    <3>. QED
      BY <1>0, <1>5, <3>1, <3>2, <3>3 DEF GuardedRegister, Goto
  <2>3. user[a] = Absent /\ (\A p \in Requests : Registering(p) => task[p].account # a)
        /\ (seeding = "inserting" => script.account # a)
    BY <1>0, <2>2, NoneAssumption DEF Unused, Fresh
  <2>4. \A p \in Requests : p # q => (Registering(p)' <=> Registering(p)) /\ task'[p] = task[p]
    BY <1>0, <2>2 DEF Registering
  <2>5. task'[q].account = a
    BY <1>0, <2>2
  <2>. QED
    BY <2>1, <2>3, <2>4, <2>5 DEF SessionInv, Claims, scripts
<1>6. ASSUME NEW q \in Requests, UNCHANGED scripts,
             \/ LookUp(q) \/ Forgot(q) \/ StoreToken(q) \/ Mail(q) \/ Reset(q)
             \/ Change(q) \/ Save(q) \/ Fail(q)
      PROVE  Claims'
  <2>1. SameOwners
    BY <1>6, MostKeepOwners DEF LookUp, Forgot, Mail, Reset, Change, Fail
  <2>. QED
    BY <1>0, <1>6, <2>1, RegistrationsKept, ClaimsKept DEF SameOwners, scripts, SessionInv, Claims
<1>7. ASSUME NEW q \in Requests, UNCHANGED scripts, ChangeEmail(q) \/ Remove(q) PROVE Claims'
  <2>1. \A a \in Accounts : user[a] = Absent => user'[a] = Absent
    BY <1>0, <1>7 DEF ChangeEmail, Remove, Present
  <2>. QED
    BY <1>0, <1>7, <2>1, RegistrationsKept, ClaimsKept DEF scripts, SessionInv, Claims
<1>8. ASSUME NEW q \in Requests, UNCHANGED scripts, Insert(q) PROVE Claims'
  <2>1. Registering(q) /\ ~Registering(q)'
    BY <1>0, <1>8 DEF Insert, End, Goto, Registering
  <2>2. \A a \in Accounts : a # task[q].account => user'[a] = user[a]
    BY <1>0, <1>8 DEF Insert
  <2>. QED
    BY <1>0, <1>8, <2>1, <2>2, RegistrationsKept, ClaimsKept DEF scripts, SessionInv, Claims
<1>9. CASE \E q \in Requests : GuardedInsert(q) \/ GuardedChange(q) \/ GuardedEdit(q) \/ Unguarded(q)
  BY <1>6, <1>7, <1>8, <1>9
     DEF GuardedInsert, GuardedChange, GuardedEdit, Unguarded, sessionVars
<1>10. CASE \/ \E v \in Visits : Login(v) \/ Sign(v) \/ Verify(v) \/ MarkVerified(v) \/ FailVisit(v)
            \/ Tick /\ UNCHANGED sessionVars
            \/ UNCHANGED allVars
  BY <1>1, <1>10 DEF Login, Sign, Verify, MarkVerified, FailVisit, Tick, allVars, sessionVars, vars
<1>11. CASE FailSeed
  BY <1>2, <1>11 DEF FailSeed, vars
<1>. QED
  BY <1>3, <1>4, <1>5, <1>9, <1>10, <1>11 DEF SessionNext

-----------------------------------------------------------------------------
(* Staff, verification, and who acts on whom.                              *)

\* Only an insert and the script bring an account there was not.
LEMMA AbsentStays ==
  ASSUME SessionInv, [SessionNext]_allVars, ~SeedSave,
         \A q \in Requests : ~GuardedInsert(q)
  PROVE  \/ SameOwners
         \/ \E q \in Requests :
              GuardedEdit(q) /\ \A a \in Accounts : user[a] = Absent => user'[a] = Absent
<1>1. CASE UNCHANGED user
  BY <1>1, MostKeepOwners
<1>2. ASSUME NEW q \in Requests, GuardedEdit(q)
      PROVE  \A a \in Accounts : user[a] = Absent => user'[a] = Absent
  <2>1. user \in [Accounts -> User \cup {Absent}]
    BY DEF SessionInv, Inv, TypeOK
  <2>. QED
    BY <1>2, <2>1 DEF GuardedEdit, ChangeEmail, Remove, Present
<1>3. ASSUME NEW q \in Requests, Unguarded(q) PROVE SameOwners
  BY <1>3, MostKeepOwners DEF Unguarded, LookUp, Forgot, Mail, Reset, Fail
<1>4. CASE \E q \in Requests : GuardedRegister(q) \/ GuardedChange(q)
  BY <1>1, <1>4 DEF GuardedRegister, GuardedChange, Register, Change
<1>5. CASE \/ \E v \in Visits : Login(v) \/ Sign(v) \/ Verify(v) \/ MarkVerified(v) \/ FailVisit(v)
           \/ SeedFind \/ FailSeed \/ Tick \/ UNCHANGED allVars
  BY <1>1, <1>5
     DEF Login, Sign, Verify, MarkVerified, FailVisit, SeedFind, FailSeed, Tick, allVars, vars
<1>. QED
  BY <1>2, <1>3, <1>4, <1>5 DEF SessionNext

\* What an insert writes: an account that was not there, which is neither staff nor
\* verified.
LEMMA InsertIsNew ==
  ASSUME SessionInv, NEW q \in Requests, GuardedInsert(q)
  PROVE  /\ task[q].account \in Accounts
         /\ user[task[q].account] = Absent
         /\ \A a \in Accounts : a # task[q].account => user'[a] = user[a]
         /\ \/ UNCHANGED <<user, fields, sessions>>
            \/ /\ role' = [role EXCEPT ![task[q].account] = "user"]
               /\ verified' = [verified EXCEPT ![task[q].account] = FALSE]
               /\ \A s \in sessions' : s \in sessions \/ s.role = "user"
<1>1. /\ task[q].account \in Accounts /\ user[task[q].account] = Absent
  BY DEF GuardedInsert, Insert, SessionInv, Claims, Registering, Inv, TypeOK, Busy, Task
<1>2. step' = [step EXCEPT ![q] = "answered"] \/ step' = [step EXCEPT ![q] = "refused"]
  BY DEF GuardedInsert, Insert, End, Goto
<1>3. step \in [Requests -> Busy \cup {"idle", "refused", "answered"}]
      /\ user \in [Accounts -> User \cup {Absent}]
  BY DEF SessionInv, Inv, TypeOK
<1>4. \A a \in Accounts : a # task[q].account => user'[a] = user[a]
  BY <1>3 DEF GuardedInsert, Insert
<1>5. CASE step'[q] = "refused"
  <2>1. UNCHANGED user
    BY <1>3, <1>5 DEF GuardedInsert, Insert, End, Goto
  <2>. QED
    BY <1>1, <1>4, <1>5, <2>1 DEF GuardedInsert
<1>6. CASE step'[q] = "answered"
  <2>1. PICK r \in NewRoles :
          /\ role' = [role EXCEPT ![task[q].account] = r]
          /\ sessions' \in {sessions, sessions \cup {signToken(task[q].account, r)}}
    BY <1>6 DEF GuardedInsert
  <2>2. verified' = [verified EXCEPT ![task[q].account] = FALSE]
    BY <1>6 DEF GuardedInsert
  <2>3. r = "user" /\ signToken(task[q].account, r).role = "user"
    BY DEF NewRoles, signToken
  <2>. QED
    BY <1>1, <1>4, <2>1, <2>2, <2>3
<1>. QED
  BY <1>2, <1>3, <1>5, <1>6

\* What the save of the script does, if it saves.
LEMMA SeedIsPromotion ==
  ASSUME SessionInv, SeedSave
  PROVE  /\ script.account \in Accounts
         /\ role' = [role EXCEPT ![script.account] = "admin"]
         /\ verified' = [verified EXCEPT ![script.account] = TRUE]
         /\ promoted' = promoted \cup {script.account}
         /\ UNCHANGED <<sessions, visits, followed>>
         /\ \A a \in Accounts : a # script.account => user'[a] = user[a]
         /\ script.account \in Present =>
              user'[script.account] \in User
              /\ user'[script.account].email = user[script.account].email
<1>1. script # NoVisit /\ script \in Script /\ script.account \in Accounts
      /\ script.password \in Passwords \cup {None}
  BY DEF SeedSave, SessionInv, SessionTypeOK, Script
<1>2. user \in [Accounts -> User \cup {Absent}]
  BY DEF SessionInv, Inv, TypeOK
<1>3. ASSUME script.account \in Present
      PROVE  user'[script.account] \in User
             /\ user'[script.account].email = user[script.account].email
  <2>1. seeding = "promoting"
    BY <1>3 DEF SeedSave, SessionInv, Claims, Present
  <2>2. user' = [user EXCEPT ![script.account] =
                   IF script.password = None THEN user[script.account]
                   ELSE [user[script.account] EXCEPT !.password = script.password]]
    BY <2>1 DEF SeedSave, Promote
  <2>3. user[script.account] \in User
    BY <1>2, <1>3 DEF Present
  <2>. QED
    BY <1>1, <1>2, <2>2, <2>3 DEF User
<1>. QED
  BY <1>1, <1>2, <1>3 DEF SeedSave, Promote, visits

\* Every step keeps what is known of staff.
LEMMA StaffStays == SessionInv /\ [SessionNext]_allVars => StaffKnown'
<1>. SUFFICES ASSUME SessionInv, [SessionNext]_allVars PROVE StaffKnown'
  OBVIOUS
<1>0. /\ role \in [Accounts -> Role] /\ promoted \subseteq Accounts
      /\ visit \in [Visits -> Visit \cup {NoVisit}]
      /\ visiting \in [Visits -> {"idle", "signing", "marking", "refused", "answered"}]
      /\ user \in [Accounts -> User \cup {Absent}]
  BY DEF SessionInv, SessionTypeOK, Inv, TypeOK
<1>1. CASE SeedSave
  BY <1>0, <1>1, SeedIsPromotion DEF SessionInv, StaffKnown, AdminsAreSeeded, Present, visits
<1>2. ASSUME NEW q \in Requests, GuardedInsert(q) PROVE StaffKnown'
  <2>1. UNCHANGED <<visits, promoted>>
    BY <1>2 DEF GuardedInsert, sessionHistory
  <2>2. AdminsAreSeeded'
    BY <1>0, <1>2, <2>1, InsertIsNew
       DEF SessionInv, StaffKnown, AdminsAreSeeded, Present, fields
  <2>. QED
    BY <2>1, <2>2 DEF SessionInv, StaffKnown, visits
<1>3. CASE ~SeedSave /\ \A q \in Requests : ~GuardedInsert(q)
  <2>1. UNCHANGED <<role, promoted>>
    BY <1>3 DEF SessionNext, allVars, sessionVars, fields, sessionHistory, GuardedRegister,
                GuardedChange, GuardedEdit, Unguarded, Login, Sign, Verify, MarkVerified,
                FailVisit, SeedFind, FailSeed
  <2>2. Present' \subseteq Present
    BY <1>3, AbsentStays DEF SameOwners, Present
  <2>3. CASE UNCHANGED <<sessions, visits>>
    BY <2>1, <2>2, <2>3 DEF SessionInv, StaffKnown, AdminsAreSeeded, visits
  <2>4. ASSUME NEW v \in Visits, NEW a \in Present, NEW next, Load(v, a, next), UNCHANGED sessions
        PROVE  StaffKnown'
    <3>1. visit'[v].account = a /\ visit'[v].role = role[a]
      BY <1>0, <2>4 DEF Load
    <3>2. \A w \in Visits : w # v => visit'[w] = visit[w]
      BY <1>0, <2>4 DEF Load
    <3>. QED
      BY <2>1, <2>2, <2>4, <3>1, <3>2 DEF SessionInv, StaffKnown, AdminsAreSeeded
  <2>5. ASSUME NEW v \in Visits, NEW outcome, Leave(v, outcome), UNCHANGED sessions
        PROVE  StaffKnown'
    BY <1>0, <2>1, <2>2, <2>5 DEF Leave, SessionInv, StaffKnown, AdminsAreSeeded
  <2>6. ASSUME NEW v \in Visits, Sign(v) PROVE StaffKnown'
    <3>1. visit[v] # NoVisit
      BY <2>6 DEF Sign, SessionInv, SessionTypeOK
    <3>2. sessions' = sessions \cup {signToken(visit[v].account, visit[v].role)}
      BY <2>6 DEF Sign
    <3>3. AdminsAreSeeded'
      BY <2>1, <2>2, <3>1, <3>2 DEF SessionInv, StaffKnown, AdminsAreSeeded, signToken
    <3>. QED
      BY <1>0, <2>1, <2>6, <3>3 DEF Sign, Leave, SessionInv, StaffKnown
  <2>7. CASE \E v \in Visits : Login(v) \/ Verify(v) \/ MarkVerified(v) \/ FailVisit(v)
    BY <2>4, <2>5, <2>7 DEF Login, Verify, MarkVerified, FailVisit
  <2>. QED
    BY <1>3, <2>3, <2>6, <2>7
       DEF SessionNext, allVars, sessionVars, visits, GuardedRegister, GuardedChange,
           GuardedEdit, Unguarded, SeedFind, FailSeed
<1>. QED
  BY <1>1, <1>2, <1>3

\* Every step keeps what is known of verified accounts.
LEMMA VerifiedStays == SessionInv /\ [SessionNext]_allVars => VerifiedKnown'
<1>. SUFFICES ASSUME SessionInv, [SessionNext]_allVars PROVE VerifiedKnown'
  OBVIOUS
<1>0. /\ verified \in [Accounts -> BOOLEAN]
      /\ visit \in [Visits -> Visit \cup {NoVisit}]
      /\ visiting \in [Visits -> {"idle", "signing", "marking", "refused", "answered"}]
      /\ user \in [Accounts -> User \cup {Absent}]
  BY DEF SessionInv, SessionTypeOK, Inv, TypeOK
<1>1. CASE SeedSave
  BY <1>0, <1>1, SeedIsPromotion DEF SessionInv, VerifiedKnown, VerifiedByOwnLink, Present, visits
<1>2. ASSUME NEW q \in Requests, GuardedInsert(q) PROVE VerifiedKnown'
  <2>1. UNCHANGED <<visits, promoted, followed>>
    BY <1>2 DEF GuardedInsert, sessionHistory
  <2>2. VerifiedByOwnLink'
    BY <1>0, <1>2, <2>1, InsertIsNew
       DEF SessionInv, VerifiedKnown, VerifiedByOwnLink, Present, fields
  <2>. QED
    BY <2>1, <2>2 DEF SessionInv, VerifiedKnown, visits
<1>3. CASE ~SeedSave /\ \A q \in Requests : ~GuardedInsert(q)
  <2>1. Present' \subseteq Present
    BY <1>3, AbsentStays DEF SameOwners, Present
  <2>2. CASE UNCHANGED <<verified, promoted, followed, visits>>
    BY <2>1, <2>2 DEF SessionInv, VerifiedKnown, VerifiedByOwnLink, visits
  <2>3. ASSUME NEW v \in Visits, NEW outcome \in {"refused", "answered"}, Leave(v, outcome),
               UNCHANGED <<promoted, followed>>,
               \A a \in Present : verified'[a] => verified[a] \/ a \in followed
        PROVE  VerifiedKnown'
    BY <1>0, <2>1, <2>3 DEF Leave, SessionInv, VerifiedKnown, VerifiedByOwnLink
  <2>4. ASSUME NEW v \in Visits, NEW a \in Present, NEW next \in {"signing", "marking"},
               Load(v, a, next), UNCHANGED <<verified, promoted>>,
               followed \subseteq followed', next = "marking" => a \in followed'
        PROVE  VerifiedKnown'
    <3>1. visit'[v].account = a /\ visiting'[v] = next
      BY <1>0, <2>4 DEF Load
    <3>2. \A w \in Visits : w # v => visit'[w] = visit[w] /\ visiting'[w] = visiting[w]
      BY <1>0, <2>4 DEF Load
    <3>. QED
      BY <2>1, <2>4, <3>1, <3>2 DEF SessionInv, VerifiedKnown, VerifiedByOwnLink
  <2>5. ASSUME NEW v \in Visits, Login(v) PROVE VerifiedKnown'
    <3>1. UNCHANGED <<verified, promoted, followed>>
      BY <2>5 DEF Login, fields, sessionHistory
    <3>. QED
      BY <2>3, <2>4, <2>5, <3>1 DEF Login
  <2>6. ASSUME NEW v \in Visits, Verify(v) PROVE VerifiedKnown'
    <3>1. UNCHANGED <<verified, promoted>>
      BY <2>6 DEF Verify, fields
    <3>. QED
      BY <2>3, <2>4, <2>6, <3>1 DEF Verify
  <2>7. ASSUME NEW v \in Visits, MarkVerified(v) PROVE VerifiedKnown'
    <3>1. visit[v].account \in followed
      BY <2>7 DEF MarkVerified, SessionInv, VerifiedKnown
    <3>2. \A a \in Present : a \in Accounts
      BY DEF Present
    <3>3. \A a \in Present : verified'[a] => verified[a] \/ a \in followed
      BY <2>7, <3>1, <3>2 DEF MarkVerified, Marked
    <3>4. \/ Leave(v, "refused") \/ Leave(v, "answered")
      BY <2>7 DEF MarkVerified
    <3>. QED
      BY <2>3, <2>7, <3>3, <3>4 DEF MarkVerified, sessionHistory
  <2>8. CASE \E v \in Visits : Sign(v) \/ FailVisit(v)
    BY <2>3, <2>8 DEF Sign, FailVisit, fields, sessionHistory
  <2>. QED
    BY <1>3, <2>2, <2>5, <2>6, <2>7, <2>8
       DEF SessionNext, allVars, sessionVars, fields, visits, sessionHistory, GuardedRegister,
           GuardedChange, GuardedEdit, Unguarded, SeedFind, FailSeed
<1>. QED
  BY <1>1, <1>2, <1>3

\* The invariant holds in every reachable state.
LEMMA SessionsReachable == SessionSpec => [](SessionInv /\ UniqueEmails)
<1>1. SessionInit => SessionInv /\ UniqueEmails
  BY SessionStart DEF SessionInit, Init, UniqueEmails, Present
<1>2. SessionInv /\ UniqueEmails /\ [SessionNext]_allVars => (SessionInv /\ UniqueEmails)'
  BY AccountsKeep, TypesStay, ClaimsStay, StaffStays, VerifiedStays DEF SessionInv
<1>. QED
  BY <1>1, <1>2, PTL DEF SessionSpec

\* Every reachable state of accounts, sessions and visits is typed.
THEOREM SessionsTyped == SessionSpec => []SessionTypeOK
<1>1. SessionInv => SessionTypeOK
  BY DEF SessionInv
<1>. QED
  BY <1>1, SessionsReachable, PTL

\* Addresses stay unique also when the script creates or promotes an account while
\* others register it.
THEOREM AddressesUniqueBeside == SessionSpec => []UniqueEmails
BY SessionsReachable, PTL

\* What AccountProofs shows of reset tokens holds beside sessions and the script.
THEOREM TokensSafeBeside == SessionSpec => [](SpentTokenDead /\ TokenOpensItsAccount)
<1>1. SessionInv => SpentTokenDead /\ TokenOpensItsAccount
  BY DEF SessionInv, Inv, TokenPlaces, TokenOpensItsAccount
<1>. QED
  BY <1>1, SessionsReachable, PTL

\* The script, which saves a document it loaded earlier, brings no token back either.
THEOREM DeadStaysDeadBeside == SessionSpec => DeadTokensStayDead
<1>1. ASSUME SessionInv, SeedSave PROVE NoneRevived
  <2>1. step' = step
    BY <1>1 DEF SeedSave, vars
  <2>2. NoNewToken
    BY <1>1, SeedWritesNoToken
  <2>. QED
    BY <2>1, <2>2, NoneAssumption DEF NoNewToken, Live, NoneRevived
<1>2. SessionInv /\ [SessionNext]_allVars => [NoneRevived]_vars
  BY <1>1, StepOfAccounts, StepRevivesNone DEF SessionInv
<1>. QED
  BY <1>2, SessionsReachable, PTL DEF SessionSpec, DeadTokensStayDead, NoneRevived

\* The script gives an account a new password, and leaves it the token it may have.
SetsPassword == SeedSave /\ seeding = "promoting" /\ script.password # None

\* Beside sessions and the script the tokens live as ResetTokens says, with one exception:
\* a password that the script sets leaves the link of an earlier mail as good as it was.
THEOREM TokensBeside ==
  SessionSpec => Abstract!Init /\ [][Abstract!Next \/ SetsPassword]_(Abstract!vars)
<1>1. SessionInit => Abstract!Init
  BY InitTokens DEF SessionInit
<1>2. ASSUME SessionInv, Inv', SeedSave
      PROVE  UNCHANGED Abstract!vars \/ Abstract!Next \/ SetsPassword
  <2>. DEFINE a == script.account
  <2>1. a \in Accounts /\ user \in [Accounts -> User \cup {Absent}]
    BY <1>2 DEF SeedSave, SessionInv, SessionTypeOK, Script, Inv, TypeOK
  <2>2. Inv /\ UNCHANGED <<step, issuedTo, spentBy>>
    BY <1>2 DEF SeedSave, SessionInv, history
  <2>3. CASE seeding = "promoting" /\ script.password = None
    <3>1. user' = user
      BY <1>2, <2>1, <2>3 DEF SeedSave, Promote
    <3>. QED
      BY <2>2, <3>1, TokensStutter
  <2>4. CASE seeding = "inserting"
    <3>1. user' = [user EXCEPT ![a] = [email |-> AdminEmail, password |-> script.password,
                                       resetToken |-> None, expires |-> 0]]
      BY <1>2, <2>4 DEF SeedSave, Promote
    <3>2. Abstract!Set(a)
      BY <1>2, <2>1, <2>2, <3>1, TokensCleared
    <3>. QED
      BY <2>1, <2>2, <3>2 DEF Abstract!Change, Abstract!Next
  <2>. QED
    BY <1>2, <2>3, <2>4 DEF SeedSave, SetsPassword
<1>3. SessionInv /\ Inv' /\ [SessionNext]_allVars
        => [Abstract!Next \/ SetsPassword]_(Abstract!vars)
  BY <1>2, StepOfAccounts, NextTokens DEF SessionInv
<1>4. SessionInv => Inv
  BY DEF SessionInv
<1>. QED
  BY <1>1, <1>3, <1>4, SessionsReachable, PTL DEF SessionSpec

\* The script is the only way in: whoever is staff, or has a session that says so, was
\* promoted by it.
THEOREM StaffIsSeeded == SessionSpec => []AdminsAreSeeded
<1>1. SessionInv => AdminsAreSeeded
  BY DEF SessionInv, StaffKnown
<1>. QED
  BY <1>1, SessionsReachable, PTL

\* An account is verified by its own link or by the script.
THEOREM VerifiedIsOwn == SessionSpec => []VerifiedByOwnLink
<1>1. SessionInv => VerifiedByOwnLink
  BY DEF SessionInv, VerifiedKnown
<1>. QED
  BY <1>1, SessionsReachable, PTL

\* Nobody's address is changed and nobody is removed but by themselves or by staff.
THEOREM OthersAreSafe == SessionSpec => OnlyStaffActOnOthers
<1>. DEFINE Act == \A a \in Present :
       user'[a] = Absent \/ user'[a].email # user[a].email =>
         \E s \in sessions : s.account = a \/ (s.role = "admin" /\ s.account \in promoted)
<1>1. SessionInv /\ [SessionNext]_allVars => [Act]_allVars
  <2>. SUFFICES ASSUME SessionInv, [SessionNext]_allVars PROVE Act
    OBVIOUS
  <2>0. user \in [Accounts -> User \cup {Absent}]
    BY DEF SessionInv, Inv, TypeOK
  <2>1. CASE SameOwners
    BY <2>1 DEF SameOwners, Present
  <2>2. CASE SeedSave
    <3>1. \A a \in Present : user'[a] # Absent /\ user'[a].email = user[a].email
      BY <2>0, <2>2, SeedIsPromotion, NoneAssumption DEF Present
    <3>. QED
      BY <3>1
  <2>3. ASSUME NEW q \in Requests, GuardedInsert(q) PROVE Act
    <3>1. \A a \in Present : user'[a] = user[a]
      BY <2>3, InsertIsNew DEF Present
    <3>. QED
      BY <3>1 DEF Present
  <2>4. ASSUME NEW q \in Requests, GuardedEdit(q) PROVE Act
    <3>1. PICK s \in sessions : \A a \in Accounts : user'[a] # user[a] => CanActOn(a, s)
      BY <2>4 DEF GuardedEdit
    <3>2. s.role = "admin" => s.account \in promoted
      BY DEF SessionInv, StaffKnown, AdminsAreSeeded
    <3>. SUFFICES ASSUME NEW a \in Present, user'[a] # user[a]
                  PROVE  s.account = a \/ (s.role = "admin" /\ s.account \in promoted)
      BY DEF Present
    <3>. QED
      BY <3>1, <3>2 DEF CanActOn, Present
  <2>. QED
    BY <2>1, <2>2, <2>3, <2>4, AbsentStays
<1>. QED
  BY <1>1, SessionsReachable, PTL DEF SessionSpec, OnlyStaffActOnOthers
=============================================================================
