------------------------------ MODULE Accounts ------------------------------
(***************************************************************************)
(* The accounts of one school: signing in, out and over to another role,   *)
(* passwords, the users an Admin keeps, and the students and guardians     *)
(* whose records lead to an account.                                       *)
(*                                                                         *)
(* A token carries the roles and the version its user had at a sign-in.    *)
(* The middleware looks up the tenant and the user of every request, but   *)
(* takes the roles from the token.  Apart from four transactions every     *)
(* statement commits on its own, so a handler that looks and then writes   *)
(* may be overtaken in between, or end there.                              *)
(*                                                                         *)
(* Passwords are left out: that a caller knows the one in the row a        *)
(* handler read is a choice of the environment, and so is must_change_     *)
(* password, which the server only hands on.                               *)
(***************************************************************************)
EXTENDS Integers, FiniteSets

CONSTANTS
  Users, Students, Guardians,   \* ids, most of them not in use yet
  FirstAdmin,                   \* whom createTenant made
  Callers,                      \* one request in flight each
  Staff,                        \* the callers that call what only an Admin may
  Admissions, Slugs,            \* admission numbers, and slugs of the school
  Mails, Capitals,              \* other addresses, and those with capital letters
  RoleSets,                     \* the roles an Admin gives
  Teaching, Attending,          \* users with timeslots, students with records
  NoOne,
  MaxVersion, MaxTokens         \* bounds

ASSUME IdsAssumption ==
  /\ FirstAdmin \in Users /\ NoOne \notin Users \cup Students
  /\ Staff \subseteq Callers /\ Teaching \subseteq Users /\ Attending \subseteq Students

ASSUME InputsAssumption ==
  /\ Slugs # {} /\ Admissions # {} /\ Mails \cap (Admissions \X Slugs) = {}
  /\ Capitals \subseteq Mails /\ Capitals # Mails
  /\ RoleSets \subseteq (SUBSET {"Teacher", "Admin"}) \ {{}}

ASSUME BoundsAssumption == MaxVersion \in Nat /\ MaxTokens \in Nat

VARIABLES
  active,     \* tenants.status = 'active'
  slug,       \* tenants.slug
  users, students, guardians,
  tokens,     \* the tokens handed out
  req,        \* the request of each caller
  signOuts    \* how many sign-outs, password changes and resets were answered

tenantVars == <<active, slug>>
vars == <<tenantVars, users, students, guardians, tokens, req, signOuts>>

Emails == (Admissions \X Slugs) \cup Mails
Roles == {"Teacher", "Admin", "Student", "Guardian"}
States == {"none", "live", "deleted"}

User == [state : States, roles : SUBSET Roles, email : Emails, version : 0..MaxVersion]
Student == [state : States, user : Users \cup {NoOne}, admission : Admissions]
Guardian == [state : States, user : Users \cup {NoOne}, children : SUBSET Students]
Token == [user : Users, roles : SUBSET Roles, version : 0..MaxVersion]

Live(table, x) == table[x].state = "live"
LiveOf(table) == {x \in DOMAIN table : Live(table, x)}
AdminsOf == {u \in LiveOf(users) : "Admin" \in users[u].roles}

Idle == [op |-> "idle"]

(* idx_users_email_active, uq_students_tenant_admission and                *)
(* idx_students_user_id, which covers deleted students too.                *)
EmailFree(e, u) == \A v \in LiveOf(users) \ {u} : users[v].email # e
AdmissionFree(a, s) == \A r \in LiveOf(students) \ {s} : students[r].admission # a
UserFreeOfLive(u, s) == \A r \in LiveOf(students) \ {s} : students[r].user # u
UserFree(u, s) == \A r \in Students \ {s} : students[r].user # u

(***************************************************************************)
(* Sign-in and the middleware                                              *)
(***************************************************************************)
Init ==
  /\ active = TRUE
  /\ slug \in Slugs
  /\ users = [u \in Users |->
       [state |-> IF u = FirstAdmin THEN "live" ELSE "none",
        roles |-> IF u = FirstAdmin THEN {"Admin"} ELSE {},
        email |-> CHOOSE e \in Mails \ Capitals : TRUE, version |-> 0]]
  /\ students = [s \in Students |->
       [state |-> "none", user |-> NoOne, admission |-> CHOOSE a \in Admissions : TRUE]]
  /\ guardians = [g \in Guardians |-> [state |-> "none", user |-> NoOne, children |-> {}]]
  /\ tokens = {}
  /\ req = [c \in Callers |-> Idle]
  /\ signOuts = [u \in Users |-> 0]

TokenOf(r) == [user |-> r.user, roles |-> r.roles, version |-> r.version]
Read(op, u) == [op |-> op, user |-> u, roles |-> users[u].roles, version |-> users[u].version]

(* tenantLogin looks the address up in lower case.                         *)
StartLogin(c, u) ==
  /\ req[c] = Idle
  /\ active
  /\ Live(users, u) /\ users[u].email \notin Capitals
  /\ req' = [req EXCEPT ![c] = Read("signIn", u)]
  /\ UNCHANGED <<tenantVars, users, students, guardians, tokens, signOuts>>

(* Both tenantLogin and switchRole answer a token of the row they read.    *)
IssueToken(c) ==
  /\ req[c].op = "signIn"
  /\ Cardinality(tokens \cup {TokenOf(req[c])}) <= MaxTokens
  /\ tokens' = tokens \cup {TokenOf(req[c])}
  /\ req' = [req EXCEPT ![c] = Idle]
  /\ UNCHANGED <<tenantVars, users, students, guardians, signOuts>>

Accepted(t) == /\ active
               /\ Live(users, t.user)
               /\ t.version >= users[t.user].version

Admit(c, t) ==
  /\ req[c] = Idle
  /\ Accepted(t)
  /\ req' = [req EXCEPT ![c] = [op |-> "admitted", token |-> t]]
  /\ UNCHANGED <<tenantVars, users, students, guardians, tokens, signOuts>>

Admitted(c) == req[c].op = "admitted"
AdmittedAdmin(c) == c \in Staff /\ Admitted(c) /\ "Admin" \in req[c].token.roles

(* A refusal, an error or a restart ends a request where it is.            *)
EndRequest(c) ==
  /\ req[c] # Idle
  /\ req' = [req EXCEPT ![c] = Idle]
  /\ UNCHANGED <<tenantVars, users, students, guardians, tokens, signOuts>>

(***************************************************************************)
(* A user's own requests                                                   *)
(***************************************************************************)
RevokeSessions(u) == signOuts' = [signOuts EXCEPT ![u] = @ + 1]

Logout(c) ==
  /\ Admitted(c)
  /\ LET u == req[c].token.user IN
       /\ users[u].version < MaxVersion
       /\ users' = [users EXCEPT ![u].version = @ + 1]
       /\ RevokeSessions(u)
  /\ req' = [req EXCEPT ![c] = Idle]
  /\ UNCHANGED <<tenantVars, students, guardians, tokens>>

SwitchRole(c) ==
  /\ Admitted(c)
  /\ LET u == req[c].token.user IN
       /\ Live(users, u) /\ Cardinality(users[u].roles) >= 2
       /\ req' = [req EXCEPT ![c] = Read("signIn", u)]
  /\ UNCHANGED <<tenantVars, users, students, guardians, tokens, signOuts>>

StartChangePassword(c) ==
  /\ Admitted(c)
  /\ LET u == req[c].token.user IN
       /\ Live(users, u)
       /\ req' = [req EXCEPT ![c] = Read("change", u)]
  /\ UNCHANGED <<tenantVars, users, students, guardians, tokens, signOuts>>

(* The version the answered token carries is the one the update returned.  *)
NewVersionOfRead(r) == r.version + 1
NewVersion(r) == users[r.user].version + 1
ChangePassword(c) ==
  /\ req[c].op = "change"
  /\ LET u == req[c].user
         t == [TokenOf(req[c]) EXCEPT !.version = NewVersion(req[c])] IN
       /\ NewVersion(req[c]) <= MaxVersion /\ Cardinality(tokens \cup {t}) <= MaxTokens
       /\ users' = [users EXCEPT ![u].version = NewVersion(req[c])]
       /\ tokens' = tokens \cup {t}
       /\ RevokeSessions(u)
  /\ req' = [req EXCEPT ![c] = Idle]
  /\ UNCHANGED <<tenantVars, students, guardians>>

(***************************************************************************)
(* Users, as an Admin keeps them                                           *)
(***************************************************************************)
NewUser(u, roles, e) ==
  /\ users[u].state = "none" /\ EmailFree(e, u)
  /\ users' = [users EXCEPT ![u] = [state |-> "live", roles |-> roles, email |-> e,
                                      version |-> 0]]

CreateUser(c, u, roles, e) ==
  /\ AdmittedAdmin(c)
  /\ e \notin Capitals
  /\ NewUser(u, roles, e)
  /\ req' = [req EXCEPT ![c] = Idle]
  /\ UNCHANGED <<tenantVars, students, guardians, tokens, signOuts>>

(* LASTADMIN of updateUserRoles looks only at Admins who step down.        *)
StartUpdateRoles(c, u, roles) ==
  /\ AdmittedAdmin(c)
  /\ u = req[c].token.user /\ "Admin" \notin roles => Cardinality(AdminsOf) > 1
  /\ req' = [req EXCEPT ![c] = [op |-> "roles", user |-> u, roles |-> roles]]
  /\ UNCHANGED <<tenantVars, users, students, guardians, tokens, signOuts>>

UpdateRoles(c) ==
  /\ req[c].op = "roles"
  /\ Live(users, req[c].user)
  /\ users' = [users EXCEPT ![req[c].user].roles = req[c].roles]
  /\ req' = [req EXCEPT ![c] = Idle]
  /\ UNCHANGED <<tenantVars, students, guardians, tokens, signOuts>>

StartResetPassword(c, u) ==
  /\ AdmittedAdmin(c)
  /\ Live(users, u)
  /\ req' = [req EXCEPT ![c] = [op |-> "reset", user |-> u]]
  /\ UNCHANGED <<tenantVars, users, students, guardians, tokens, signOuts>>

ResetPassword(c) ==
  /\ req[c].op = "reset"
  /\ LET u == req[c].user IN
       /\ users[u].version < MaxVersion
       /\ users' = [users EXCEPT ![u].version = @ + 1]
       /\ RevokeSessions(u)
  /\ req' = [req EXCEPT ![c] = Idle]
  /\ UNCHANGED <<tenantVars, students, guardians, tokens>>

UnlinkLive(u) == students' = [s \in Students |->
  IF Live(students, s) /\ students[s].user = u
    THEN [students[s] EXCEPT !.user = NoOne] ELSE students[s]]
Unlink(u) == students' = [s \in Students |->
  IF students[s].user = u THEN [students[s] EXCEPT !.user = NoOne] ELSE students[s]]

MayDelete(u) ==
  /\ Live(users, u)
  /\ u \in AdminsOf => Cardinality(AdminsOf) > 1
  /\ u \notin Teaching

StartDeleteUser(c, u) ==
  /\ AdmittedAdmin(c)
  /\ MayDelete(u)
  /\ req' = [req EXCEPT ![c] = [op |-> "delete", user |-> u]]
  /\ UNCHANGED <<tenantVars, users, students, guardians, tokens, signOuts>>

DeleteUser(c) ==
  /\ req[c].op = "delete"
  /\ Unlink(req[c].user)
  /\ users' = [users EXCEPT ![req[c].user].state = "deleted"]
  /\ req' = [req EXCEPT ![c] = Idle]
  /\ UNCHANGED <<tenantVars, guardians, tokens, signOuts>>

(* bulkSoftDelete takes one id after the other, each in two statements; a  *)
(* user in use, or deleted before, is passed over.                         *)
StartBulkDelete(c, ids, op) ==
  /\ AdmittedAdmin(c)
  /\ ids # {}
  /\ req' = [req EXCEPT ![c] = [op |-> op, rest |-> ids, now |-> NoOne]]
  /\ UNCHANGED <<tenantVars, users, students, guardians, tokens, signOuts>>

Pass(c, table, inUse) ==
  /\ req[c].now = NoOne
  /\ \E x \in req[c].rest :
       /\ ~Live(table, x) \/ x \in inUse
       /\ req' = [req EXCEPT ![c].rest = @ \ {x}]

Pick(c, table, inUse, x) ==
  /\ req[c].now = NoOne
  /\ x \in req[c].rest /\ Live(table, x) /\ x \notin inUse
  /\ req' = [req EXCEPT ![c].now = x]

Picked(c) ==
  /\ req[c].now # NoOne
  /\ req' = [req EXCEPT ![c].now = NoOne, ![c].rest = @ \ {req[c].now}]

BulkPassUser(c) ==
  /\ req[c].op = "bulkUsers"
  /\ Pass(c, users, Teaching)
  /\ UNCHANGED <<tenantVars, users, students, guardians, tokens, signOuts>>

BulkUnlinkUser(c) ==
  /\ req[c].op = "bulkUsers"
  /\ \E u \in Users : Pick(c, users, Teaching, u) /\ Unlink(u)
  /\ UNCHANGED <<tenantVars, users, guardians, tokens, signOuts>>

BulkDeleteUser(c) ==
  /\ req[c].op = "bulkUsers"
  /\ Picked(c)
  /\ users' = [users EXCEPT ![req[c].now].state = "deleted"]
  /\ UNCHANGED <<tenantVars, students, guardians, tokens, signOuts>>

(***************************************************************************)
(* Students                                                                *)
(***************************************************************************)
LoginId(a) == <<a, slug>>

(* createStudent inserts the account and the student in one transaction.   *)
CreateStudent(c, s, u, a) ==
  /\ AdmittedAdmin(c)
  /\ students[s].state = "none" /\ AdmissionFree(a, s)
  /\ NewUser(u, {"Student"}, LoginId(a))
  /\ students' = [students EXCEPT ![s] = [state |-> "live", user |-> u, admission |-> a]]
  /\ req' = [req EXCEPT ![c] = Idle]
  /\ UNCHANGED <<tenantVars, guardians, tokens, signOuts>>

(* A new admission number, or a new date of birth, resets the credentials  *)
(* of the account the student was read with.                               *)
StartUpdateStudent(c, s, a, newDob) ==
  /\ AdmittedAdmin(c)
  /\ Live(students, s)
  /\ a # students[s].admission => AdmissionFree(a, s)
  /\ req' = [req EXCEPT ![c] = [op |-> "edit", student |-> s, admission |-> a,
       email |-> LoginId(a),
       user |-> IF a # students[s].admission \/ newDob THEN students[s].user ELSE NoOne]]
  /\ UNCHANGED <<tenantVars, users, students, guardians, tokens, signOuts>>

UpdateStudent(c) ==
  /\ req[c].op = "edit"
  /\ LET s == req[c].student
         u == req[c].user IN
       /\ Live(students, s) => AdmissionFree(req[c].admission, s)
       /\ students' = [students EXCEPT ![s].admission = req[c].admission]
       /\ IF u = NoOne
            THEN UNCHANGED users
            ELSE /\ Live(users, u) => EmailFree(req[c].email, u)
                 /\ users' = [users EXCEPT ![u].email = req[c].email]
  /\ req' = [req EXCEPT ![c] = Idle]
  /\ UNCHANGED <<tenantVars, guardians, tokens, signOuts>>

StartLinkAccount(c, s, u) ==
  /\ AdmittedAdmin(c)
  /\ Live(students, s) /\ Live(users, u)
  /\ students[s].user = NoOne
  /\ \A r \in LiveOf(students) : students[r].user # u
  /\ req' = [req EXCEPT ![c] = [op |-> "link", student |-> s, user |-> u]]
  /\ UNCHANGED <<tenantVars, users, students, guardians, tokens, signOuts>>

LinkAccount(c) ==
  /\ req[c].op = "link"
  /\ UserFree(req[c].user, req[c].student)
  /\ students' = [students EXCEPT ![req[c].student].user = req[c].user]
  /\ req' = [req EXCEPT ![c] = Idle]
  /\ UNCHANGED <<tenantVars, users, guardians, tokens, signOuts>>

(* deleteStudent is bulkDeleteStudents of one student.                     *)
BulkPassStudent(c) ==
  /\ req[c].op = "bulkStudents"
  /\ Pass(c, students, Attending)
  /\ UNCHANGED <<tenantVars, users, students, guardians, tokens, signOuts>>

BulkPickStudent(c) ==
  /\ req[c].op = "bulkStudents"
  /\ \E s \in Students : Pick(c, students, Attending, s)
  /\ UNCHANGED <<tenantVars, users, students, guardians, tokens, signOuts>>

BulkDeleteStudent(c) ==
  /\ req[c].op = "bulkStudents"
  /\ Picked(c)
  /\ students' = [students EXCEPT ![req[c].now].state = "deleted"]
  /\ UNCHANGED <<tenantVars, users, guardians, tokens, signOuts>>

(***************************************************************************)
(* Guardians                                                               *)
(***************************************************************************)
(* Guardian, link and perhaps an account, in one transaction; the address  *)
(* is stored as it was written.                                            *)
CreateGuardian(c, g, s, u, e) ==
  /\ AdmittedAdmin(c)
  /\ guardians[g].state = "none" /\ Live(students, s)
  /\ IF u = NoOne THEN UNCHANGED users ELSE NewUser(u, {"Guardian"}, e)
  /\ guardians' = [guardians EXCEPT ![g] = [state |-> "live", user |-> u, children |-> {s}]]
  /\ req' = [req EXCEPT ![c] = Idle]
  /\ UNCHANGED <<tenantVars, students, tokens, signOuts>>

(* The links go with the guardian; the account stays.                      *)
DeleteGuardian(c, g) ==
  /\ AdmittedAdmin(c)
  /\ Live(guardians, g)
  /\ guardians' = [guardians EXCEPT ![g].state = "deleted", ![g].children = {}]
  /\ req' = [req EXCEPT ![c] = Idle]
  /\ UNCHANGED <<tenantVars, users, students, tokens, signOuts>>

(***************************************************************************)
(* Super administration                                                    *)
(***************************************************************************)
DeactivateTenant ==
  /\ active /\ active' = FALSE
  /\ UNCHANGED <<slug, users, students, guardians, tokens, req, signOuts>>

ReactivateTenant ==
  /\ ~active /\ active' = TRUE
  /\ UNCHANGED <<slug, users, students, guardians, tokens, req, signOuts>>

UpdateTenant(s) ==
  /\ s # slug /\ slug' = s
  /\ UNCHANGED <<active, users, students, guardians, tokens, req, signOuts>>

OwnStep(c) ==
  \/ \E u \in Users : StartLogin(c, u)
  \/ IssueToken(c)
  \/ \E t \in tokens : Admit(c, t)
  \/ Logout(c)
  \/ SwitchRole(c)
  \/ StartChangePassword(c)
  \/ ChangePassword(c)
  \/ EndRequest(c)

UserStep(c) ==
  \/ \E u \in Users, roles \in RoleSets, e \in Mails : CreateUser(c, u, roles, e)
  \/ \E u \in Users, roles \in RoleSets : StartUpdateRoles(c, u, roles)
  \/ UpdateRoles(c)
  \/ \E u \in Users : StartResetPassword(c, u)
  \/ ResetPassword(c)
  \/ \E u \in Users : StartDeleteUser(c, u)
  \/ DeleteUser(c)
  \/ \E ids \in SUBSET Users : StartBulkDelete(c, ids, "bulkUsers")
  \/ BulkPassUser(c)
  \/ BulkUnlinkUser(c)
  \/ BulkDeleteUser(c)

StudentStep(c) ==
  \/ \E s \in Students, u \in Users, a \in Admissions : CreateStudent(c, s, u, a)
  \/ \E s \in Students, a \in Admissions, newDob \in BOOLEAN : StartUpdateStudent(c, s, a, newDob)
  \/ UpdateStudent(c)
  \/ \E s \in Students, u \in Users : StartLinkAccount(c, s, u)
  \/ LinkAccount(c)
  \/ \E ids \in SUBSET Students : StartBulkDelete(c, ids, "bulkStudents")
  \/ BulkPassStudent(c)
  \/ BulkPickStudent(c)
  \/ BulkDeleteStudent(c)
  \/ \E g \in Guardians, s \in Students, u \in Users \cup {NoOne}, e \in Mails :
       CreateGuardian(c, g, s, u, e)
  \/ \E g \in Guardians : DeleteGuardian(c, g)

SuperAdminStep == DeactivateTenant \/ ReactivateTenant \/ \E s \in Slugs : UpdateTenant(s)

Next ==
  \/ \E c \in Callers : OwnStep(c)
  \/ \E c \in Callers : UserStep(c)
  \/ \E c \in Callers : StudentStep(c)
  \/ SuperAdminStep

Spec == Init /\ [][Next]_vars

(***************************************************************************)
(* Properties                                                              *)
(***************************************************************************)
Requests ==
  {Idle}
  \cup [op : {"admitted"}, token : Token]
  \cup [op : {"signIn", "change"}, user : Users, roles : SUBSET Roles, version : 0..MaxVersion]
  \cup [op : {"roles"}, user : Users, roles : RoleSets]
  \cup [op : {"reset", "delete"}, user : Users]
  \cup [op : {"bulkUsers"}, rest : SUBSET Users, now : Users \cup {NoOne}]
  \cup [op : {"bulkStudents"}, rest : SUBSET Students, now : Students \cup {NoOne}]
  \cup [op : {"edit"}, student : Students, admission : Admissions, email : Emails,
        user : Users \cup {NoOne}]
  \cup [op : {"link"}, student : Students, user : Users]

(* Every column, token and request is within its type.                     *)
TypeOK ==
  /\ active \in BOOLEAN /\ slug \in Slugs
  /\ users \in [Users -> User]
  /\ students \in [Students -> Student]
  /\ guardians \in [Guardians -> Guardian]
  /\ tokens \subseteq Token
  /\ req \in [Callers -> Requests]
  /\ signOuts \in [Users -> Nat]

(* No token is ahead of its user, so the next sign-out reaches each one.   *)
NeverAhead ==
  /\ \A t \in tokens : t.version <= users[t.user].version
  /\ \A c \in Callers : req[c].op = "signIn" => req[c].version <= users[req[c].user].version

(* Signing out, changing and resetting a password close all the sessions   *)
(* a user has, whichever of them race, and none is ever open again.        *)
SessionOf(t) == <<t.user, t.version>>
Valid(t) == users[t.user].state # "deleted" /\ t.version >= users[t.user].version
OpenSessions == {SessionOf(t) : t \in {x \in tokens : Valid(x)}}
ClosedSessions == {SessionOf(t) : t \in {x \in tokens : ~Valid(x)}}
Abstract == INSTANCE SignIns WITH Versions <- 0..MaxVersion, open <- OpenSessions, closed <- ClosedSessions
ImplementsSignIns == Abstract!Spec

(* No account leads to two students, deleted ones included: linking,       *)
(* creating and unlinking in any order (students/controller.ts:495-561).   *)
OneStudentPerAccount ==
  \A s, r \in Students : students[s].user = students[r].user /\ students[s].user # NoOne => s = r

(* A student is linked to an account that lives: deleteUser and the bulk   *)
(* deletion unlink first.  Holds for one Admin request at a time.          *)
LinkedAccountsLive ==
  \A s \in Students : students[s].user # NoOne => Live(users, students[s].user)

(* The school keeps an Admin, as the guard of deleteUser promises.         *)
AlwaysAnAdmin == AdminsOf # {}

(* An account that was given a password by somebody who may not know it    *)
(* signs in with the address it was created with.                          *)
EveryAccountCanSignIn == \A u \in LiveOf(users) : users[u].email \notin Capitals

(* A student whose account createStudent made signs in with the login id   *)
(* the student's record shows.                                             *)
LoginIdsWork ==
  \A s \in LiveOf(students) :
    students[s].user # NoOne /\ users[students[s].user].roles = {"Student"}
      => users[students[s].user].email = LoginId(students[s].admission)

(* A password is changed by whom knows it: what a reset or another change  *)
(* wrote in between is not overwritten by one that compared the old one.   *)
ChangesFollowTheirRead ==
  [][\A c \in Callers :
       req[c].op = "change" /\ req'[c] = Idle /\ signOuts' # signOuts
         => req[c].version = users[req[c].user].version]_vars
=============================================================================
