------------------------------- MODULE Sessions -------------------------------
(***************************************************************************)
(* Who is signed in and what that lets them do: login and the session      *)
(* tokens of AuthService, JwtStrategy and RolesGuard, the routes of        *)
(* UsersController, e-mail verification, and the script that makes an      *)
(* account staff (src/seed/admin.seed.ts), all on top of Accounts.         *)
(*                                                                         *)
(* A session is a signed token that holds the account and its role as they *)
(* were when it was signed; no request looks at the account again.  The    *)
(* cookie in the browser is one place a token is kept, and signing out     *)
(* clears that place: the token itself is good until it expires.           *)
(***************************************************************************)
EXTENDS Accounts

CONSTANTS
  Visits,       \* logins and clicks on the link of a verification mail
  AdminEmail,   \* ADMIN_EMAIL of the script
  SessionLife,  \* signOptions.expiresIn
  LinkLife,     \* JWT_VERIFICATION_EXPIRES_IN
  NoVisit

Role == {"user", "admin"}
Session == [account: Accounts, role: Role, expires: 1..(LastTime + SessionLife)]
Link == [account: Accounts, expires: 1..(LastTime + LinkLife)]
Visit == [account: Accounts, email: Emails, role: Role]
Script == [account: Accounts, password: Passwords \cup {None}]

ASSUME LivesAssumption == SessionLife \in Nat \ {0} /\ LinkLife \in Nat \ {0}
ASSUME NoVisitAssumption == NoVisit \notin Visit \cup Script
ASSUME AdminEmailAssumption == AdminEmail \in Emails

VARIABLES
  role, verified,  \* two more fields of each account
  signUps,         \* the requests that came to POST /auth/register
  sessions,        \* the tokens that were signed
  links,           \* the verification links that reached a mailbox
  visiting,        \* where each visit is
  visit,           \* what it has still to do
  seeding, script, \* the same for the script
  promoted,        \* history: the accounts the script has made staff
  followed         \* history: the accounts whose own link was followed

fields == <<role, verified>>
visits == <<visiting, visit>>
scripts == <<seeding, script>>
sessionHistory == <<promoted, followed>>
sessionVars ==
  <<fields, signUps, sessions, links, visits, scripts, sessionHistory>>
allVars == <<vars, sessionVars>>

SessionTypeOK ==
  /\ role \in [Accounts -> Role]
  /\ verified \in [Accounts -> BOOLEAN]
  /\ signUps \subseteq Requests
  /\ sessions \subseteq Session
  /\ links \subseteq Link
  /\ visiting \in [Visits -> {"idle", "signing", "marking", "refused", "answered"}]
  /\ visit \in [Visits -> Visit \cup {NoVisit}]
  /\ \A v \in Visits : visiting[v] \in {"signing", "marking"} <=> visit[v] # NoVisit
  /\ seeding \in {"idle", "promoting", "inserting", "done"}
  /\ script \in Script \cup {NoVisit}
  /\ seeding \in {"promoting", "inserting"} <=> script # NoVisit
  /\ seeding = "inserting" => script.password # None
  /\ promoted \subseteq Accounts /\ followed \subseteq Accounts

\* Some of the accounts there are at the start are staff; the others may still have
\* the link of their verification mail.
SessionInit ==
  /\ Init
  /\ promoted \in SUBSET Existing
  /\ role = [a \in Accounts |-> IF a \in promoted THEN "admin" ELSE "user"]
  /\ verified = [a \in Accounts |-> a \in promoted]
  /\ links = {[account |-> a, expires |-> LinkLife] : a \in Existing \ promoted}
  /\ signUps = {} /\ sessions = {} /\ followed = {}
  /\ visiting = [v \in Visits |-> "idle"]
  /\ visit = [v \in Visits |-> NoVisit]
  /\ seeding = "idle" /\ script = NoVisit

\* ignoreExpiration: false, for either kind of token.
Valid(token) == token.expires > now

signToken(a, r) == [account |-> a, role |-> r, expires |-> now + SessionLife]

-----------------------------------------------------------------------------
(* The guards.                                                             *)

\* JwtAuthGuard: somebody sends a token that is good.
SignedIn(s) == s \in sessions /\ Valid(s)

\* RolesGuard with @Roles('admin').
IsStaff(s) == SignedIn(s) /\ s.role = "admin"

\* A slip in CanActOn: to be signed in is enough.
AnybodyCanActOn(a, s) == TRUE

\* assertCanActOn: "admin, or your own record".
CanActOn(a, s) == s.role = "admin" \/ s.account = a

-----------------------------------------------------------------------------
(* Signing up and logging in.                                              *)

\* Ids are never used again, and a token may still name an account that was removed.
Unused(a) ==
  /\ Fresh(a)
  /\ \A t \in sessions \cup links : t.account # a
  /\ \A v \in Visits : visit[v] # NoVisit => visit[v].account # a
  /\ script # NoVisit => script.account # a
  /\ a \notin promoted \cup followed

\* POST /auth/register is open to anyone, POST /users to staff.
GuardedRegister(q) ==
  /\ Register(q)
  /\ Unused(task'[q].account)
  /\ \/ /\ step'[q] = "lookingUp"
        /\ signUps' = signUps \cup {q}
     \/ /\ step'[q] = "lookingUpAgain"
        /\ \E s \in sessions : IsStaff(s)
        /\ UNCHANGED signUps
  /\ UNCHANGED <<fields, sessions, links, visits, scripts, sessionHistory>>

\* A slip in NewRoles: the pipe does not strip what a body may not say.
RolesOfBody == Role

\* The schema's default; whitelist keeps a role out of every body.
NewRoles == {"user"}

\* userModel.create, and for register what follows it at once: the mail with the link,
\* which may not arrive, and a session.  The request may also die after the insert.
GuardedInsert(q) ==
  /\ Insert(q)
  /\ LET a == task[q].account
     IN \/ /\ step'[q] = "answered"
           /\ \E r \in NewRoles :
                /\ role' = [role EXCEPT ![a] = r]
                /\ \/ /\ q \in signUps
                      /\ sessions' = sessions \cup {signToken(a, r)}
                   \/ UNCHANGED sessions
           /\ verified' = [verified EXCEPT ![a] = FALSE]
           /\ \/ /\ q \in signUps
                 /\ links' = links \cup {[account |-> a, expires |-> now + LinkLife]}
              \/ UNCHANGED links
        \/ /\ step'[q] = "refused"
           /\ UNCHANGED <<fields, sessions, links>>
  /\ UNCHANGED <<signUps, visits, scripts, sessionHistory>>

Load(v, a, next) ==
  /\ visiting' = [visiting EXCEPT ![v] = next]
  /\ visit' = [visit EXCEPT ![v] = [account |-> a, email |-> user[a].email, role |-> role[a]]]

Leave(v, outcome) ==
  /\ visiting' = [visiting EXCEPT ![v] = outcome]
  /\ visit' = [visit EXCEPT ![v] = NoVisit]

\* findByEmailWithPassword, then bcrypt.compare with the hash that was read.
Login(v) ==
  /\ visiting[v] = "idle"
  /\ \E email \in Emails, password \in Passwords :
       \/ \E a \in Present :
            /\ user[a].email = email /\ user[a].password = password
            /\ Load(v, a, "signing")
       \/ /\ ~\E a \in Present : user[a].email = email /\ user[a].password = password
          /\ Leave(v, "refused")
  /\ UNCHANGED <<vars, fields, signUps, sessions, links, scripts, sessionHistory>>

\* signToken with the role that was read before the comparison.
Sign(v) ==
  /\ visiting[v] = "signing"
  /\ sessions' = sessions \cup {signToken(visit[v].account, visit[v].role)}
  /\ Leave(v, "answered")
  /\ UNCHANGED <<vars, fields, signUps, links, scripts, sessionHistory>>

-----------------------------------------------------------------------------
(* E-mail verification.                                                    *)

\* jwtService.verify, then findOne of the account the link names.
Verify(v) ==
  /\ visiting[v] = "idle"
  /\ \E l \in links :
       LET a == l.account
       IN \/ /\ Valid(l) /\ a \in Present /\ ~verified[a]
             /\ Load(v, a, "marking")
             /\ followed' = followed \cup {a}
          \/ /\ Valid(l) /\ a \in Present /\ verified[a]
             /\ Leave(v, "answered")
             /\ UNCHANGED followed
          \/ /\ ~(Valid(l) /\ a \in Present)
             /\ Leave(v, "refused")
             /\ UNCHANGED followed
  /\ UNCHANGED <<vars, fields, signUps, sessions, links, scripts, promoted>>

\* A slip in Marked: the flag is set for whoever has the address by then.
MarkedByAddress(t) == {a \in Present : user[a].email = t.email}

\* findByIdAndUpdate: nobody, when the account is gone.
Marked(t) == {t.account} \cap Present

MarkVerified(v) ==
  /\ visiting[v] = "marking"
  /\ LET marked == Marked(visit[v])
     IN /\ verified' = [a \in Accounts |-> verified[a] \/ a \in marked]
        /\ Leave(v, IF marked = {} THEN "refused" ELSE "answered")
  /\ UNCHANGED <<vars, role, signUps, sessions, links, scripts, sessionHistory>>

\* A database call of a visit fails.
FailVisit(v) ==
  /\ visiting[v] \in {"signing", "marking"}
  /\ Leave(v, "refused")
  /\ UNCHANGED <<vars, fields, signUps, sessions, links, scripts, sessionHistory>>

-----------------------------------------------------------------------------
(* The routes behind a guard, and the open ones.                           *)

\* POST /auth/change-password takes the account from the session.
GuardedChange(q) ==
  /\ Change(q)
  /\ \E s \in sessions :
       /\ SignedIn(s)
       /\ step'[q] = "saving" => task'[q].account = s.account
  /\ UNCHANGED sessionVars

\* PATCH and DELETE /users/:id.  The guard and the write are one moment here; no property
\* turns on whether the session expires between them.
GuardedEdit(q) ==
  /\ ChangeEmail(q) \/ Remove(q)
  /\ \E s \in sessions :
       /\ SignedIn(s)
       /\ \A a \in Accounts : user'[a] # user[a] => CanActOn(a, s)
  /\ UNCHANGED sessionVars

\* The open routes, and the later steps of the guarded ones.
Unguarded(q) ==
  /\ \/ LookUp(q) \/ Forgot(q) \/ StoreToken(q) \/ Mail(q)
     \/ Reset(q) \/ Save(q) \/ Fail(q)
  /\ UNCHANGED sessionVars

-----------------------------------------------------------------------------
(* The script that makes an account staff.                                 *)

\* A slip in MayCreate: nobody asks whether there is a password.
AlwaysCreates(password) == TRUE

\* ADMIN_PASSWORD is set; an account cannot be created without one.
MayCreate(password) == password # None

SeedFind ==
  /\ seeding = "idle"
  /\ \E a \in Accounts, password \in Passwords \cup {None} :
       /\ \/ /\ a \in Present /\ user[a].email = AdminEmail
             /\ seeding' = "promoting"
          \/ /\ ~Registered(AdminEmail) /\ Unused(a) /\ MayCreate(password)
             /\ seeding' = "inserting"
       /\ script' = [account |-> a, password |-> password]
  /\ UNCHANGED <<vars, fields, signUps, sessions, links, visits, sessionHistory>>

\* The account the save makes staff, with the password that is given, if one is.
Promote(a, stored) ==
  /\ user' = [user EXCEPT ![a] = stored]
  /\ role' = [role EXCEPT ![a] = "admin"]
  /\ verified' = [verified EXCEPT ![a] = TRUE]
  /\ promoted' = promoted \cup {a}

\* save() writes the fields that were changed; a new document passes the unique index.
SeedSave ==
  /\ LET a == script.account
         password == script.password
     IN \/ /\ seeding = "promoting" /\ a \in Present
           /\ Promote(a, IF password = None THEN user[a]
                         ELSE [user[a] EXCEPT !.password = password])
        \/ /\ seeding = "inserting" /\ Admits(a, AdminEmail)
           /\ Promote(a, [email |-> AdminEmail, password |-> password,
                          resetToken |-> None, expires |-> 0])
  /\ seeding' = "done" /\ script' = NoVisit
  /\ UNCHANGED <<step, task, mailed, now, history>>
  /\ UNCHANGED <<signUps, sessions, links, visits, followed>>

\* It has no password to create an account with, or the save is refused or fails.
FailSeed ==
  /\ seeding # "done"
  /\ seeding' = "done" /\ script' = NoVisit
  /\ UNCHANGED <<vars, fields, signUps, sessions, links, visits, sessionHistory>>

SessionNext ==
  \/ \E q \in Requests :
       \/ GuardedRegister(q) \/ GuardedInsert(q) \/ GuardedChange(q)
       \/ GuardedEdit(q) \/ Unguarded(q)
  \/ \E v \in Visits :
       \/ Login(v) \/ Sign(v) \/ Verify(v) \/ MarkVerified(v) \/ FailVisit(v)
  \/ SeedFind \/ SeedSave \/ FailSeed
  \/ Tick /\ UNCHANGED sessionVars

SessionSpec == SessionInit /\ [][SessionNext]_allVars

-----------------------------------------------------------------------------
(* What sessions have to guarantee.                                        *)

\* Only the script makes staff: whoever is staff, and whoever has a session that says
\* so, was promoted ("Signup can never grant admin ..., so this script is the way in",
\* src/seed/admin.seed.ts).
AdminsAreSeeded ==
  /\ \A a \in Present : role[a] = "admin" => a \in promoted
  /\ \A s \in sessions : s.role = "admin" => s.account \in promoted

\* When an account loses its address, or is removed, there is a session of its own, or one
\* that says staff and belongs to somebody the script made staff ("without this check any user could delete any
\* other account", src/users/users.controller.ts).
OnlyStaffActOnOthers ==
  [][\A a \in Present :
       user'[a] = Absent \/ user'[a].email # user[a].email =>
         \E s \in sessions :
           s.account = a \/ (s.role = "admin" /\ s.account \in promoted)]_allVars

\* An account is verified because its own link was followed or because it was made
\* staff, also when its address has passed to another account meanwhile.
VerifiedByOwnLink == \A a \in Present : verified[a] => a \in followed \cup promoted
=============================================================================
