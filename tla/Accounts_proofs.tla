-------------------------- MODULE Accounts_proofs ---------------------------
(***************************************************************************)
(* Proofs about Accounts, for any users, students, guardians and callers:  *)
(* types, no account with two students, that sessions once closed stay     *)
(* closed, and that linked accounts live while one Admin is at work.       *)
(***************************************************************************)
EXTENDS Accounts, TLAPS

BulkOf(name, ids) == [op : {name}, rest : SUBSET ids, now : ids \cup {NoOne}]

(* What a request in flight carries.                                       *)
LEMMA RequestFields ==
  ASSUME TypeOK, NEW c \in Callers
  PROVE  /\ req[c] \in Requests
         /\ req[c].op = "admitted" => req[c].token \in Token
         /\ req[c].op \in {"signIn", "change"} =>
              /\ req[c].user \in Users /\ req[c].roles \in SUBSET Roles
              /\ req[c].version \in 0..MaxVersion
         /\ req[c].op = "roles" => req[c].user \in Users /\ req[c].roles \in RoleSets
         /\ req[c].op \in {"reset", "delete"} => req[c].user \in Users
         /\ req[c].op = "bulkUsers" => req[c] \in BulkOf("bulkUsers", Users)
         /\ req[c].op = "bulkStudents" => req[c] \in BulkOf("bulkStudents", Students)
         /\ req[c].op = "edit" =>
              /\ req[c].student \in Students /\ req[c].admission \in Admissions
              /\ req[c].email \in Emails /\ req[c].user \in Users \cup {NoOne}
         /\ req[c].op = "link" => req[c].student \in Students /\ req[c].user \in Users
  BY DEF TypeOK, Requests, Idle, BulkOf

LEMMA IdleIsRequest == Idle \in Requests
  BY DEF Requests, Idle

LEMMA ToIdle ==
  ASSUME TypeOK, NEW c \in Callers
  PROVE  [req EXCEPT ![c] = Idle] \in [Callers -> Requests]
  BY IdleIsRequest DEF TypeOK

LEMMA ToRequest ==
  ASSUME TypeOK, NEW c \in Callers, NEW r \in Requests
  PROVE  [req EXCEPT ![c] = r] \in [Callers -> Requests]
  BY DEF TypeOK

(* A bulk deletion in flight takes one id after the other.                 *)
BulkSteps(c, ids) ==
  /\ req[c].now \in ids \cup {NoOne} /\ req[c].rest \subseteq ids
  /\ \A x \in ids :
       /\ [req EXCEPT ![c].rest = @ \ {x}] \in [Callers -> Requests]
       /\ [req EXCEPT ![c].now = x] \in [Callers -> Requests]
       /\ [req EXCEPT ![c].now = NoOne, ![c].rest = @ \ {x}] \in [Callers -> Requests]

LEMMA BulkRequests ==
  ASSUME TypeOK, NEW c \in Callers, NEW name, NEW ids,
         req[c] \in BulkOf(name, ids), BulkOf(name, ids) \subseteq Requests
  PROVE  BulkSteps(c, ids)
<1>1. req \in [Callers -> Requests]
  BY DEF TypeOK
<1>2. ASSUME NEW x \in ids
      PROVE  /\ [req[c] EXCEPT !.rest = @ \ {x}] \in BulkOf(name, ids)
             /\ [req[c] EXCEPT !.now = x] \in BulkOf(name, ids)
             /\ [[req[c] EXCEPT !.now = NoOne] EXCEPT !.rest = @ \ {x}] \in BulkOf(name, ids)
  BY DEF BulkOf
<1>3. req[c].now \in ids \cup {NoOne} /\ req[c].rest \subseteq ids
  BY DEF BulkOf
<1> QED
  BY <1>1, <1>2, <1>3 DEF BulkSteps

LEMMA BulkFields ==
  ASSUME TypeOK, NEW c \in Callers
  PROVE  /\ req[c].op = "bulkUsers" => BulkSteps(c, Users)
         /\ req[c].op = "bulkStudents" => BulkSteps(c, Students)
<1>1. BulkOf("bulkUsers", Users) \subseteq Requests /\ BulkOf("bulkStudents", Students) \subseteq Requests
  BY DEF Requests, BulkOf
<1> QED
  BY <1>1, RequestFields, BulkRequests

-----------------------------------------------------------------------------
(* Types.                                                                  *)
LEMMA TypeInit == Init => TypeOK
<1> SUFFICES ASSUME Init PROVE TypeOK
  OBVIOUS
<1>1. (CHOOSE e \in Mails \ Capitals : TRUE) \in Emails
  <2>1. \E e \in Mails \ Capitals : TRUE
    BY InputsAssumption
  <2> QED
    BY <2>1 DEF Emails
<1>2. (CHOOSE a \in Admissions : TRUE) \in Admissions
  BY InputsAssumption
<1>3. users \in [Users -> User]
  <2> DEFINE e == CHOOSE e \in Mails \ Capitals : TRUE
  <2>1. e \in Emails /\ 0 \in 0..MaxVersion
    BY <1>1, BoundsAssumption
  <2> HIDE DEF e
  <2>2. \A u \in Users :
          [state |-> IF u = FirstAdmin THEN "live" ELSE "none",
           roles |-> IF u = FirstAdmin THEN {"Admin"} ELSE {}, email |-> e, version |-> 0]
            \in User
    BY <2>1 DEF User, States, Roles
  <2> QED
    BY <2>2 DEF Init, e
<1>4. students \in [Students -> Student] /\ guardians \in [Guardians -> Guardian]
  BY <1>2 DEF Init, Student, Guardian, States
<1> QED
  BY <1>3, <1>4, IdleIsRequest DEF Init, TypeOK

(* A new row, and one column of a user.                                    *)
LEMMA NewUserType ==
  ASSUME TypeOK, NEW u \in Users, NEW roles \in SUBSET Roles, NEW e \in Emails,
         NewUser(u, roles, e)
  PROVE  users' \in [Users -> User]
<1>1. [state |-> "live", roles |-> roles, email |-> e, version |-> 0] \in User
  BY BoundsAssumption DEF User, States
<1> QED
  BY <1>1 DEF NewUser, TypeOK

LEMMA UserColumns ==
  ASSUME TypeOK, NEW u \in Users
  PROVE  /\ users[u].version \in 0..MaxVersion /\ users[u].roles \in SUBSET Roles
         /\ users[u].email \in Emails
         /\ \A n \in 0..MaxVersion : [users EXCEPT ![u].version = n] \in [Users -> User]
         /\ \A e \in Emails : [users EXCEPT ![u].email = e] \in [Users -> User]
         /\ \A roles \in SUBSET Roles : [users EXCEPT ![u].roles = roles] \in [Users -> User]
         /\ [users EXCEPT ![u].state = "deleted"] \in [Users -> User]
<1>1. users[u] \in User /\ users \in [Users -> User]
  BY DEF TypeOK
<1>2. /\ users[u].version \in 0..MaxVersion /\ users[u].roles \in SUBSET Roles
      /\ users[u].email \in Emails
      /\ \A n \in 0..MaxVersion : [users[u] EXCEPT !.version = n] \in User
      /\ \A e \in Emails : [users[u] EXCEPT !.email = e] \in User
      /\ \A roles \in SUBSET Roles : [users[u] EXCEPT !.roles = roles] \in User
      /\ [users[u] EXCEPT !.state = "deleted"] \in User
  BY <1>1 DEF User, States
<1> QED
  BY <1>1, <1>2

(* A sign-out, and a password that is changed or reset.                    *)
LEMMA NextVersionType ==
  ASSUME TypeOK, NEW u \in Users, users[u].version < MaxVersion, RevokeSessions(u),
         users' = [users EXCEPT ![u].version = @ + 1]
  PROVE  users' \in [Users -> User] /\ signOuts' \in [Users -> Nat]
<1>1. users[u].version \in 0..MaxVersion
  BY UserColumns
<1>2. users[u].version + 1 \in 0..MaxVersion
  BY <1>1, BoundsAssumption
<1>3. users' = [users EXCEPT ![u].version = users[u].version + 1]
  BY DEF TypeOK
<1>4. users' \in [Users -> User]
  <2> DEFINE n == users[u].version + 1
  <2>1. n \in 0..MaxVersion /\ users' = [users EXCEPT ![u].version = n]
    BY <1>2, <1>3
  <2> HIDE DEF n
  <2>2. \A m \in 0..MaxVersion : [users EXCEPT ![u].version = m] \in [Users -> User]
    BY UserColumns
  <2>3. [users EXCEPT ![u].version = n] \in [Users -> User]
    BY <2>1, <2>2
  <2> QED
    BY <2>1, <2>3
<1>5. signOuts[u] \in Nat /\ signOuts[u] + 1 \in Nat
  BY DEF TypeOK
<1>6. signOuts' \in [Users -> Nat]
  BY <1>5 DEF RevokeSessions, TypeOK
<1> QED
  BY <1>4, <1>6

LEMMA RoleSetsAreRoles == \A roles \in RoleSets : roles \in SUBSET Roles
  BY InputsAssumption DEF Roles

LEMMA TypeOwn ==
  ASSUME TypeOK, NEW c \in Callers, OwnStep(c)
  PROVE  TypeOK'
<1> USE DEF tenantVars
<1>1. ASSUME NEW op \in {"signIn", "change"}, NEW u \in Users PROVE Read(op, u) \in Requests
  BY UserColumns DEF Read, Requests
<1>2. CASE \E u \in Users : StartLogin(c, u)
  BY <1>1, <1>2, ToRequest DEF StartLogin, TypeOK
<1>3. CASE IssueToken(c)
  <2>1. TokenOf(req[c]) \in Token
    BY <1>3, RequestFields DEF IssueToken, TokenOf, Token
  <2> QED
    BY <1>3, <2>1, ToIdle DEF IssueToken, TypeOK
<1>4. CASE \E t \in tokens : Admit(c, t)
  <2>1. PICK t \in tokens : Admit(c, t)
    BY <1>4
  <2>2. [op |-> "admitted", token |-> t] \in Requests
    BY DEF Requests, TypeOK
  <2> QED
    BY <2>1, <2>2, ToRequest DEF Admit, TypeOK
<1>5. CASE Logout(c)
  <2> DEFINE u == req[c].token.user
  <2>1. u \in Users
    BY <1>5, RequestFields DEF Logout, Admitted, Token
  <2>2. users' \in [Users -> User] /\ signOuts' \in [Users -> Nat]
    BY <1>5, <2>1, NextVersionType DEF Logout
  <2> QED
    BY <1>5, <2>2, ToIdle DEF Logout, TypeOK
<1>6. CASE SwitchRole(c)
  <2>1. req[c].token.user \in Users
    BY <1>6, RequestFields DEF SwitchRole, Admitted, Token
  <2> QED
    BY <1>1, <1>6, <2>1, ToRequest DEF SwitchRole, TypeOK
<1>7. CASE StartChangePassword(c)
  <2>1. req[c].token.user \in Users
    BY <1>7, RequestFields DEF StartChangePassword, Admitted, Token
  <2> QED
    BY <1>1, <1>7, <2>1, ToRequest DEF StartChangePassword, TypeOK
<1>8. CASE ChangePassword(c)
  <2> DEFINE u == req[c].user
             t == [TokenOf(req[c]) EXCEPT !.version = NewVersion(req[c])]
  <2>1. u \in Users /\ req[c].roles \in SUBSET Roles
    BY <1>8, RequestFields DEF ChangePassword
  <2>2. NewVersion(req[c]) \in 0..MaxVersion
    <3>1. users[u].version \in 0..MaxVersion
      BY <2>1, UserColumns
    <3>2. NewVersion(req[c]) = users[u].version + 1 /\ NewVersion(req[c]) <= MaxVersion
      BY <1>8 DEF ChangePassword, NewVersion
    <3> QED
      BY <3>1, <3>2, BoundsAssumption
  <2>3. t \in Token
    BY <2>1, <2>2 DEF TokenOf, Token
  <2>4. signOuts' \in [Users -> Nat]
    BY <1>8, <2>1 DEF ChangePassword, RevokeSessions, TypeOK
  <2>5. tokens' = tokens \cup {t} /\ users' = [users EXCEPT ![u].version = NewVersion(req[c])]
    BY <1>8 DEF ChangePassword
  <2> HIDE DEF u, t
  <2>6. users' \in [Users -> User]
    BY <2>1, <2>2, <2>5, UserColumns
  <2> QED
    BY <1>8, <2>3, <2>4, <2>5, <2>6, ToIdle DEF ChangePassword, TypeOK
<1>9. CASE EndRequest(c)
  BY <1>9, ToIdle DEF EndRequest, TypeOK
<1> QED
  BY <1>2, <1>3, <1>4, <1>5, <1>6, <1>7, <1>8, <1>9 DEF OwnStep

LEMMA UnlinkType ==
  ASSUME TypeOK, NEW u \in Users, Unlink(u)
  PROVE  students' \in [Students -> Student]
<1>1. \A s \in Students : students[s] \in Student /\ [students[s] EXCEPT !.user = NoOne] \in Student
  BY DEF TypeOK, Student
<1> QED
  BY <1>1 DEF Unlink

LEMMA TypeUsers ==
  ASSUME TypeOK, NEW c \in Callers, UserStep(c)
  PROVE  TypeOK'
<1> USE DEF tenantVars
<1>1. CASE \E u \in Users, roles \in RoleSets, e \in Mails : CreateUser(c, u, roles, e)
  <2>1. PICK u \in Users, roles \in RoleSets, e \in Mails : CreateUser(c, u, roles, e)
    BY <1>1
  <2>2. users' \in [Users -> User]
    BY <2>1, NewUserType, RoleSetsAreRoles DEF CreateUser, Emails
  <2> QED
    BY <2>1, <2>2, ToIdle DEF CreateUser, TypeOK
<1>2. CASE \E u \in Users, roles \in RoleSets : StartUpdateRoles(c, u, roles)
  <2>1. \A u \in Users, roles \in RoleSets :
          [op |-> "roles", user |-> u, roles |-> roles] \in Requests
    BY DEF Requests
  <2> QED
    BY <1>2, <2>1, ToRequest DEF StartUpdateRoles, TypeOK
<1>3. CASE UpdateRoles(c)
  <2>1. req[c].user \in Users /\ req[c].roles \in SUBSET Roles
    BY <1>3, RequestFields, RoleSetsAreRoles DEF UpdateRoles
  <2>2. users' \in [Users -> User]
    BY <1>3, <2>1, UserColumns DEF UpdateRoles
  <2> QED
    BY <1>3, <2>2, ToIdle DEF UpdateRoles, TypeOK
<1>4. CASE \E u \in Users : StartResetPassword(c, u) \/ StartDeleteUser(c, u)
  <2>1. \A u \in Users : \A op \in {"reset", "delete"} : [op |-> op, user |-> u] \in Requests
    BY DEF Requests
  <2> QED
    BY <1>4, <2>1, ToRequest DEF StartResetPassword, StartDeleteUser, TypeOK
<1>5. CASE ResetPassword(c)
  <2> DEFINE u == req[c].user
  <2>1. u \in Users
    BY <1>5, RequestFields DEF ResetPassword
  <2>2. users' \in [Users -> User] /\ signOuts' \in [Users -> Nat]
    BY <1>5, <2>1, NextVersionType DEF ResetPassword
  <2> QED
    BY <1>5, <2>2, ToIdle DEF ResetPassword, TypeOK
<1>6. CASE DeleteUser(c)
  <2>1. req[c].user \in Users
    BY <1>6, RequestFields DEF DeleteUser
  <2> QED
    BY <1>6, <2>1, UserColumns, UnlinkType, ToIdle DEF DeleteUser, TypeOK
<1>7. CASE \E ids \in SUBSET Users : StartBulkDelete(c, ids, "bulkUsers")
  <2>1. \A ids \in SUBSET Users : [op |-> "bulkUsers", rest |-> ids, now |-> NoOne] \in Requests
    BY DEF Requests
  <2> QED
    BY <1>7, <2>1, ToRequest DEF StartBulkDelete, TypeOK
<1>8. CASE BulkPassUser(c)
  <2>1. req' \in [Callers -> Requests]
    <3>1. PICK x \in req[c].rest : req' = [req EXCEPT ![c].rest = @ \ {x}]
      BY <1>8 DEF BulkPassUser, Pass
    <3>2. BulkSteps(c, Users)
      BY <1>8, BulkFields DEF BulkPassUser
    <3> QED
      BY <3>1, <3>2 DEF BulkSteps
  <2> QED
    BY <1>8, <2>1 DEF BulkPassUser, TypeOK
<1>9. CASE BulkUnlinkUser(c)
  <2>1. PICK u \in Users : Pick(c, users, Teaching, u) /\ Unlink(u)
    BY <1>9 DEF BulkUnlinkUser
  <2>2. req' \in [Callers -> Requests]
    BY <1>9, <2>1, BulkFields DEF BulkSteps, BulkUnlinkUser, Pick
  <2> QED
    BY <1>9, <2>1, <2>2, UnlinkType DEF BulkUnlinkUser, TypeOK
<1>10. CASE BulkDeleteUser(c)
  <2>1. req[c].now \in Users /\ req' \in [Callers -> Requests]
    BY <1>10, BulkFields DEF BulkSteps, BulkDeleteUser, Picked
  <2> QED
    BY <1>10, <2>1, UserColumns DEF BulkDeleteUser, TypeOK
<1> QED
  BY <1>1, <1>2, <1>3, <1>4, <1>5, <1>6, <1>7, <1>8, <1>9, <1>10 DEF UserStep

LEMMA TypeStudents ==
  ASSUME TypeOK, NEW c \in Callers, StudentStep(c)
  PROVE  TypeOK'
<1> USE DEF tenantVars
<1>1. \A a \in Admissions : LoginId(a) \in Emails
  BY DEF LoginId, Emails, TypeOK
<1>2. CASE \E s \in Students, u \in Users, a \in Admissions : CreateStudent(c, s, u, a)
  <2>1. PICK s \in Students, u \in Users, a \in Admissions : CreateStudent(c, s, u, a)
    BY <1>2
  <2>2. users' \in [Users -> User]
    BY <1>1, <2>1, NewUserType DEF CreateStudent, Roles
  <2>3. students' \in [Students -> Student]
    BY <2>1 DEF CreateStudent, Student, States, TypeOK
  <2> QED
    BY <2>1, <2>2, <2>3, ToIdle DEF CreateStudent, TypeOK
<1>3. CASE \E s \in Students, a \in Admissions, newDob \in BOOLEAN :
             StartUpdateStudent(c, s, a, newDob)
  <2>1. PICK s \in Students, a \in Admissions, newDob \in BOOLEAN :
               StartUpdateStudent(c, s, a, newDob)
    BY <1>3
  <2> DEFINE r == [op |-> "edit", student |-> s, admission |-> a, email |-> LoginId(a),
                   user |-> IF a # students[s].admission \/ newDob THEN students[s].user ELSE NoOne]
  <2>2. students[s].user \in Users \cup {NoOne}
    BY DEF TypeOK, Student
  <2>3. r \in Requests
    BY <1>1, <2>2 DEF Requests
  <2>4. req' = [req EXCEPT ![c] = r]
    BY <2>1 DEF StartUpdateStudent
  <2> HIDE DEF r
  <2> QED
    BY <2>1, <2>3, <2>4, ToRequest DEF StartUpdateStudent, TypeOK
<1>4. CASE UpdateStudent(c)
  <2> DEFINE s == req[c].student
             u == req[c].user
  <2>1. /\ s \in Students /\ req[c].admission \in Admissions /\ req[c].email \in Emails
        /\ u \in Users \cup {NoOne}
    BY <1>4, RequestFields DEF UpdateStudent
  <2>2. students' \in [Students -> Student]
    BY <1>4, <2>1 DEF UpdateStudent, TypeOK, Student
  <2>3. users' \in [Users -> User]
    <3>1. CASE u = NoOne
      BY <1>4, <3>1 DEF UpdateStudent, TypeOK
    <3>2. CASE u # NoOne
      <4>1. u \in Users /\ users' = [users EXCEPT ![u].email = req[c].email]
        BY <1>4, <2>1, <3>2 DEF UpdateStudent
      <4> HIDE DEF u
      <4> QED
        BY <2>1, <4>1, UserColumns
    <3> QED
      BY <3>1, <3>2
  <2> HIDE DEF s, u
  <2> QED
    BY <1>4, <2>2, <2>3, ToIdle DEF UpdateStudent, TypeOK
<1>5. CASE \E s \in Students, u \in Users : StartLinkAccount(c, s, u)
  <2>1. \A s \in Students, u \in Users : [op |-> "link", student |-> s, user |-> u] \in Requests
    BY DEF Requests
  <2> QED
    BY <1>5, <2>1, ToRequest DEF StartLinkAccount, TypeOK
<1>6. CASE LinkAccount(c)
  <2>1. req[c].student \in Students /\ req[c].user \in Users
    BY <1>6, RequestFields DEF LinkAccount
  <2>2. students' \in [Students -> Student]
    BY <1>6, <2>1 DEF LinkAccount, TypeOK, Student
  <2> QED
    BY <1>6, <2>2, ToIdle DEF LinkAccount, TypeOK
<1>7. CASE \E ids \in SUBSET Students : StartBulkDelete(c, ids, "bulkStudents")
  <2>1. \A ids \in SUBSET Students : [op |-> "bulkStudents", rest |-> ids, now |-> NoOne] \in Requests
    BY DEF Requests
  <2> QED
    BY <1>7, <2>1, ToRequest DEF StartBulkDelete, TypeOK
<1>8. CASE BulkPassStudent(c)
  <2>1. req' \in [Callers -> Requests]
    <3>1. PICK x \in req[c].rest : req' = [req EXCEPT ![c].rest = @ \ {x}]
      BY <1>8 DEF BulkPassStudent, Pass
    <3>2. BulkSteps(c, Students)
      BY <1>8, BulkFields DEF BulkPassStudent
    <3> QED
      BY <3>1, <3>2 DEF BulkSteps
  <2> QED
    BY <1>8, <2>1 DEF BulkPassStudent, TypeOK
<1>9. CASE BulkPickStudent(c)
  <2>1. req' \in [Callers -> Requests]
    <3>1. PICK x \in Students : req' = [req EXCEPT ![c].now = x]
      BY <1>9 DEF BulkPickStudent, Pick
    <3>2. BulkSteps(c, Students)
      BY <1>9, BulkFields DEF BulkPickStudent
    <3> QED
      BY <3>1, <3>2 DEF BulkSteps
  <2> QED
    BY <1>9, <2>1 DEF BulkPickStudent, TypeOK
<1>10. CASE BulkDeleteStudent(c)
  <2>1. req[c].now \in Students /\ req' \in [Callers -> Requests]
    BY <1>10, BulkFields DEF BulkSteps, BulkDeleteStudent, Picked
  <2>2. students' \in [Students -> Student]
    BY <1>10, <2>1 DEF BulkDeleteStudent, TypeOK, Student, States
  <2> QED
    BY <1>10, <2>1, <2>2 DEF BulkDeleteStudent, TypeOK
<1>11. CASE \E g \in Guardians, s \in Students, u \in Users \cup {NoOne}, e \in Mails :
              CreateGuardian(c, g, s, u, e)
  <2>1. PICK g \in Guardians, s \in Students, u \in Users \cup {NoOne}, e \in Mails :
               CreateGuardian(c, g, s, u, e)
    BY <1>11
  <2>2. users' \in [Users -> User]
    <3>1. CASE u = NoOne
      BY <2>1, <3>1 DEF CreateGuardian, TypeOK
    <3>2. CASE u # NoOne
      BY <2>1, <3>2, NewUserType DEF CreateGuardian, Roles, Emails
    <3> QED
      BY <3>1, <3>2
  <2>3. guardians' \in [Guardians -> Guardian]
    BY <2>1 DEF CreateGuardian, Guardian, States, TypeOK
  <2> QED
    BY <2>1, <2>2, <2>3, ToIdle DEF CreateGuardian, TypeOK
<1>12. CASE \E g \in Guardians : DeleteGuardian(c, g)
  <2>1. PICK g \in Guardians : DeleteGuardian(c, g)
    BY <1>12
  <2>2. guardians' \in [Guardians -> Guardian]
    BY <2>1 DEF DeleteGuardian, Guardian, States, TypeOK
  <2> QED
    BY <2>1, <2>2, ToIdle DEF DeleteGuardian, TypeOK
<1> QED
  BY <1>2, <1>3, <1>4, <1>5, <1>6, <1>7, <1>8, <1>9, <1>10, <1>11, <1>12 DEF StudentStep

LEMMA TypeNext == TypeOK /\ [Next]_vars => TypeOK'
<1> SUFFICES ASSUME TypeOK, [Next]_vars PROVE TypeOK'
  OBVIOUS
<1>1. CASE \E c \in Callers : OwnStep(c) \/ UserStep(c) \/ StudentStep(c)
  BY <1>1, TypeOwn, TypeUsers, TypeStudents
<1>2. CASE SuperAdminStep
  BY <1>2 DEF SuperAdminStep, DeactivateTenant, ReactivateTenant, UpdateTenant, TypeOK
<1>3. CASE UNCHANGED vars
  BY <1>3 DEF vars, tenantVars, TypeOK
<1> QED
  BY <1>1, <1>2, <1>3 DEF Next

(* Every column, token and request stays within its type.                  *)
THEOREM TypeCorrect == Spec => []TypeOK
<1> QED
  BY TypeInit, TypeNext, PTL DEF Spec

-----------------------------------------------------------------------------
(* Tokens, requests and links lead to users that exist, and no token is    *)
(* ahead of its user.                                                      *)
Known(u) == users[u].state # "none"

TokensKnown == \A t \in tokens : Known(t.user) /\ t.version <= users[t.user].version

RequestOK(table, r) ==
  /\ r.op = "admitted" => table[r.token.user].state # "none"
  /\ r.op \in {"signIn", "change", "link"} => table[r.user].state # "none"
  /\ r.op = "signIn" => r.version <= table[r.user].version

LinksKnown == \A s \in Students : students[s].user # NoOne => Known(students[s].user)

AccountInv ==
  /\ TypeOK
  /\ TokensKnown
  /\ \A c \in Callers : RequestOK(users, req[c])
  /\ LinksKnown
  /\ OneStudentPerAccount

LEMMA AccountInit == Init => AccountInv
<1> SUFFICES ASSUME Init PROVE AccountInv
  OBVIOUS
<1>1. tokens = {} /\ \A c \in Callers : req[c] = Idle
  BY DEF Init
<1>2. \A s \in Students : students[s].user = NoOne
  BY DEF Init
<1> QED
  BY <1>1, <1>2, TypeInit
     DEF AccountInv, TokensKnown, RequestOK, Idle, LinksKnown, OneStudentPerAccount

(* What a step does to the versions and states of users that exist.        *)
Keeps ==
  /\ UNCHANGED <<tokens, signOuts>>
  /\ \A u \in Users : Known(u) =>
       /\ Known(u)' /\ users'[u].version = users[u].version
       /\ users'[u].state = "deleted" <=> users[u].state = "deleted"

Closing(u) ==
  /\ u \in Users /\ tokens' = tokens
  /\ \/ users' = [users EXCEPT ![u].version = @ + 1] /\ RevokeSessions(u)
     \/ users' = [users EXCEPT ![u].state = "deleted"] /\ UNCHANGED signOuts

LEMMA NewUserKeeps ==
  ASSUME TypeOK, NEW u \in Users, NEW roles, NEW e, NewUser(u, roles, e),
         UNCHANGED <<tokens, signOuts>>
  PROVE  Keeps
<1>1. \A v \in Users : v # u => users'[v] = users[v]
  BY DEF NewUser, TypeOK
<1>2. ~Known(u)
  BY DEF NewUser, Known
<1> QED
  BY <1>1, <1>2 DEF Keeps, Known

LEMMA ColumnKeeps ==
  ASSUME TypeOK, NEW u \in Users, NEW x, UNCHANGED <<tokens, signOuts>>,
         \/ users' = [users EXCEPT ![u].email = x]
         \/ users' = [users EXCEPT ![u].roles = x]
  PROVE  Keeps
<1>1. \A v \in Users : users[v] \in User
  BY DEF TypeOK
<1>2. \A v \in Users : users'[v].version = users[v].version /\ users'[v].state = users[v].state
  BY <1>1 DEF User, TypeOK
<1> QED
  BY <1>2 DEF Keeps, Known

LEMMA OwnKinds ==
  ASSUME TypeOK, NEW c \in Callers, OwnStep(c)
  PROVE  \/ Keeps \/ IssueToken(c) \/ ChangePassword(c)
         \/ \E u \in Users : Closing(u) /\ RevokeSessions(u)
<1> USE DEF Keeps, Known
<1>1. CASE Logout(c)
  <2>1. req[c].token.user \in Users
    BY <1>1, RequestFields DEF Logout, Admitted, Token
  <2> QED
    BY <1>1, <2>1 DEF Logout, Closing
<1> QED
  BY <1>1
     DEF OwnStep, StartLogin, Admit, SwitchRole, StartChangePassword, EndRequest

LEMMA UserKinds ==
  ASSUME TypeOK, NEW c \in Callers, UserStep(c)
  PROVE  Keeps \/ \E u \in Users : Closing(u)
<1>1. CASE \E u \in Users, roles \in RoleSets, e \in Mails : CreateUser(c, u, roles, e)
  BY <1>1, NewUserKeeps DEF CreateUser
<1>2. CASE UpdateRoles(c)
  <2>1. req[c].user \in Users /\ users' = [users EXCEPT ![req[c].user].roles = req[c].roles]
    BY <1>2, RequestFields DEF UpdateRoles
  <2> QED
    BY <1>2, <2>1, ColumnKeeps DEF UpdateRoles
<1>3. CASE ResetPassword(c)
  <2>1. req[c].user \in Users
    BY <1>3, RequestFields DEF ResetPassword
  <2> QED
    BY <1>3, <2>1 DEF ResetPassword, Closing
<1>4. CASE DeleteUser(c)
  <2>1. req[c].user \in Users
    BY <1>4, RequestFields DEF DeleteUser
  <2> QED
    BY <1>4, <2>1 DEF DeleteUser, Closing
<1>5. CASE BulkDeleteUser(c)
  <2>1. req[c].now \in Users
    BY <1>5, BulkFields DEF BulkDeleteUser, Picked, BulkSteps
  <2> QED
    BY <1>5, <2>1 DEF BulkDeleteUser, Closing
<1> QED
  BY <1>1, <1>2, <1>3, <1>4, <1>5
     DEF UserStep, StartUpdateRoles, StartResetPassword, StartDeleteUser, StartBulkDelete,
         BulkPassUser, BulkUnlinkUser, Keeps, Known

LEMMA StudentKinds ==
  ASSUME TypeOK, NEW c \in Callers, StudentStep(c)
  PROVE  Keeps
<1>1. CASE \E s \in Students, u \in Users, a \in Admissions : CreateStudent(c, s, u, a)
  BY <1>1, NewUserKeeps DEF CreateStudent
<1>2. CASE UpdateStudent(c)
  <2>1. CASE req[c].user = NoOne
    BY <1>2, <2>1 DEF UpdateStudent, Keeps, Known
  <2>2. CASE req[c].user # NoOne
    <3>1. /\ req[c].user \in Users /\ users' = [users EXCEPT ![req[c].user].email = req[c].email]
      BY <1>2, <2>2, RequestFields DEF UpdateStudent
    <3> QED
      BY <1>2, <3>1, ColumnKeeps DEF UpdateStudent
  <2> QED
    BY <2>1, <2>2
<1>3. CASE \E g \in Guardians, s \in Students, u \in Users \cup {NoOne}, e \in Mails :
             CreateGuardian(c, g, s, u, e)
  <2>1. PICK g \in Guardians, s \in Students, u \in Users \cup {NoOne}, e \in Mails :
               CreateGuardian(c, g, s, u, e)
    BY <1>3
  <2>2. CASE u = NoOne
    BY <2>1, <2>2 DEF CreateGuardian, Keeps, Known
  <2>3. CASE u # NoOne
    BY <2>1, <2>3, NewUserKeeps DEF CreateGuardian
  <2> QED
    BY <2>2, <2>3
<1> QED
  BY <1>1, <1>2, <1>3
     DEF StudentStep, StartUpdateStudent, StartLinkAccount, LinkAccount, StartBulkDelete,
         BulkPassStudent, BulkPickStudent, BulkDeleteStudent, DeleteGuardian, Keeps, Known

LEMMA StepKinds ==
  ASSUME TypeOK, [Next]_vars
  PROVE  \/ Keeps \/ \E u \in Users : Closing(u)
         \/ \E c \in Callers : IssueToken(c) \/ ChangePassword(c)
<1>1. CASE UNCHANGED vars
  BY <1>1 DEF vars, Keeps, Known
<1>2. CASE SuperAdminStep
  BY <1>2 DEF SuperAdminStep, DeactivateTenant, ReactivateTenant, UpdateTenant, Keeps, Known
<1> QED
  BY <1>1, <1>2, OwnKinds, UserKinds, StudentKinds DEF Next

(* Who exists stays, and versions only grow.                               *)
LEMMA UsersGrow ==
  ASSUME TypeOK, [Next]_vars, NEW u \in Users, Known(u)
  PROVE  Known(u)' /\ users[u].version <= users'[u].version
<1>1. users[u].version \in Nat /\ users[u] \in User /\ users \in [Users -> User]
  <2>1. users[u].version \in 0..MaxVersion
    BY UserColumns
  <2> QED
    BY <2>1, BoundsAssumption DEF TypeOK
<1>2. CASE Keeps
  BY <1>1, <1>2 DEF Keeps
<1>3. CASE \E v \in Users : Closing(v)
  <2>1. PICK v \in Users : Closing(v)
    BY <1>3
  <2>2. CASE v = u
    BY <1>1, <2>1, <2>2 DEF Closing, Known, User
  <2>3. CASE v # u
    BY <1>1, <2>1, <2>3 DEF Closing, Known
  <2> QED
    BY <2>2, <2>3
<1>4. CASE \E c \in Callers : IssueToken(c)
  BY <1>1, <1>4 DEF IssueToken, Known
<1>5. CASE \E c \in Callers : ChangePassword(c)
  <2>1. PICK c \in Callers : ChangePassword(c)
    BY <1>5
  <2>2. CASE req[c].user = u
    BY <1>1, <2>1, <2>2 DEF ChangePassword, NewVersion, Known, User
  <2>3. CASE req[c].user # u
    BY <1>1, <2>1, <2>3 DEF ChangePassword, Known
  <2> QED
    BY <2>2, <2>3
<1> QED
  BY <1>2, <1>3, <1>4, <1>5, StepKinds

(* A request that goes on, or begins, carries what exists.                 *)
LEMMA RequestsGrow ==
  ASSUME TypeOK, [Next]_vars, NEW r \in Requests, RequestOK(users, r)
  PROVE  RequestOK(users', r)
<1>1. r.op = "admitted" => r.token.user \in Users
  BY DEF Requests, Idle, Token
<1>2. r.op \in {"signIn", "change", "link"} => r.user \in Users
  BY DEF Requests, Idle
<1>3. r.op = "signIn" => r.version \in Int /\ users[r.user].version \in Int
  <2>1. ASSUME r.op = "signIn" PROVE r.version \in 0..MaxVersion /\ r.user \in Users
    BY <2>1 DEF Requests, Idle
  <2>2. ASSUME r.op = "signIn" PROVE users[r.user].version \in 0..MaxVersion
    BY <2>1, <2>2, UserColumns
  <2> QED
    BY <2>1, <2>2
<1>4. r.op = "signIn" => users'[r.user].version \in Int
  <2>1. TypeOK'
    BY TypeNext
  <2>2. \A u \in Users : users'[u] \in User
    BY <2>1 DEF TypeOK
  <2> QED
    BY <1>2, <2>2 DEF User
<1>5. \A u \in Users : Known(u) => Known(u)' /\ users[u].version <= users'[u].version
  BY UsersGrow
<1>6. /\ r.op = "admitted" => Known(r.token.user)'
      /\ r.op \in {"signIn", "change", "link"} => Known(r.user)'
  BY <1>1, <1>2, <1>5 DEF RequestOK, Known
<1>7. r.op = "signIn" => r.version <= users'[r.user].version
  BY <1>2, <1>3, <1>4, <1>5 DEF RequestOK, Known
<1> QED
  BY <1>6, <1>7 DEF RequestOK, Known

LEMMA PlainRequestOK ==
  ASSUME NEW table, NEW r, r.op \notin {"admitted", "signIn", "change", "link"}
  PROVE  RequestOK(table, r)
  BY DEF RequestOK

LEMMA OwnRequests ==
  ASSUME AccountInv, NEW c \in Callers, OwnStep(c), [Next]_vars
  PROVE  \A d \in Callers : RequestOK(users', req'[d])
<1> USE DEF AccountInv
<1>1. \A d \in Callers : RequestOK(users', req[d])
  BY RequestsGrow, RequestFields
<1>2. req \in [Callers -> Requests]
  BY DEF TypeOK
<1>3. ASSUME NEW op \in {"signIn", "change"}, NEW u \in Users, Known(u), UNCHANGED users
      PROVE  RequestOK(users', Read(op, u))
  <2>1. users[u].version \in 0..MaxVersion
    BY UserColumns
  <2> QED
    BY <1>3, <2>1 DEF RequestOK, Read, Known
<1>4. CASE req' = [req EXCEPT ![c] = Idle]
  BY <1>1, <1>2, <1>4, PlainRequestOK DEF Idle
<1>5. CASE \E u \in Users : StartLogin(c, u)
  BY <1>1, <1>2, <1>3, <1>5 DEF StartLogin, Live, Known
<1>6. CASE \E t \in tokens : Admit(c, t)
  <2>1. PICK t \in tokens : Admit(c, t)
    BY <1>6
  <2>2. t.user \in Users /\ Known(t.user)'
    BY <2>1, UsersGrow DEF TokensKnown, TypeOK, Token
  <2>3. req'[c] = [op |-> "admitted", token |-> t] /\ \A d \in Callers : d # c => req'[d] = req[d]
    BY <1>2, <2>1 DEF Admit
  <2> QED
    BY <1>1, <2>2, <2>3 DEF RequestOK, Known
<1>7. CASE SwitchRole(c)
  <2>1. req[c].token.user \in Users
    BY <1>7, RequestFields DEF SwitchRole, Admitted, Token
  <2> QED
    BY <1>1, <1>2, <1>3, <1>7, <2>1 DEF SwitchRole, Live, Known
<1>8. CASE StartChangePassword(c)
  <2>1. req[c].token.user \in Users
    BY <1>8, RequestFields DEF StartChangePassword, Admitted, Token
  <2> QED
    BY <1>1, <1>2, <1>3, <1>8, <2>1 DEF StartChangePassword, Live, Known
<1> QED
  BY <1>4, <1>5, <1>6, <1>7, <1>8
     DEF OwnStep, IssueToken, Logout, ChangePassword, EndRequest

LEMMA UserRequests ==
  ASSUME AccountInv, NEW c \in Callers, UserStep(c), [Next]_vars
  PROVE  \A d \in Callers : RequestOK(users', req'[d])
<1> USE DEF AccountInv
<1>1. \A d \in Callers : RequestOK(users', req[d])
  BY RequestsGrow, RequestFields
<1>2. req \in [Callers -> Requests]
  BY DEF TypeOK
<1>3. req'[c].op \in {"idle", "roles", "reset", "delete", "bulkUsers"}
  <2>1. CASE BulkPassUser(c) \/ BulkUnlinkUser(c) \/ BulkDeleteUser(c)
    <3>1. req[c] \in BulkOf("bulkUsers", Users)
      BY <2>1, RequestFields DEF BulkPassUser, BulkUnlinkUser, BulkDeleteUser
    <3> QED
      BY <1>2, <2>1, <3>1
         DEF BulkPassUser, BulkUnlinkUser, BulkDeleteUser, Pass, Pick, Picked, BulkOf
  <2> QED
    BY <1>2, <2>1
       DEF UserStep, CreateUser, StartUpdateRoles, UpdateRoles, StartResetPassword,
           ResetPassword, StartDeleteUser, DeleteUser, StartBulkDelete, Idle
<1>4. \A d \in Callers : d # c => req'[d] = req[d]
  BY <1>2
     DEF UserStep, CreateUser, StartUpdateRoles, UpdateRoles, StartResetPassword, ResetPassword,
         StartDeleteUser, DeleteUser, StartBulkDelete, BulkPassUser, BulkUnlinkUser,
         BulkDeleteUser, Pass, Pick, Picked
<1> QED
  BY <1>1, <1>3, <1>4, PlainRequestOK

LEMMA StudentRequests ==
  ASSUME AccountInv, NEW c \in Callers, StudentStep(c), [Next]_vars
  PROVE  \A d \in Callers : RequestOK(users', req'[d])
<1> USE DEF AccountInv
<1>1. \A d \in Callers : RequestOK(users', req[d])
  BY RequestsGrow, RequestFields
<1>2. req \in [Callers -> Requests]
  BY DEF TypeOK
<1>3. CASE \E s \in Students, u \in Users : StartLinkAccount(c, s, u)
  <2>1. PICK s \in Students, u \in Users : StartLinkAccount(c, s, u)
    BY <1>3
  <2>2. req'[c] = [op |-> "link", student |-> s, user |-> u]
    BY <1>2, <2>1 DEF StartLinkAccount
  <2>3. RequestOK(users', req'[c])
    BY <2>1, <2>2 DEF StartLinkAccount, RequestOK, Known, Live
  <2> QED
    BY <1>1, <1>2, <2>1, <2>3 DEF StartLinkAccount
<1>4. CASE ~ \E s \in Students, u \in Users : StartLinkAccount(c, s, u)
  <2>1. req'[c].op \in {"idle", "edit", "bulkStudents"}
    <3>1. CASE BulkPassStudent(c) \/ BulkPickStudent(c) \/ BulkDeleteStudent(c)
      <4>1. req[c] \in BulkOf("bulkStudents", Students)
        BY <3>1, RequestFields DEF BulkPassStudent, BulkPickStudent, BulkDeleteStudent
      <4> QED
        BY <1>2, <3>1, <4>1
           DEF BulkPassStudent, BulkPickStudent, BulkDeleteStudent, Pass, Pick, Picked, BulkOf
    <3>2. CASE \E s \in Students, a \in Admissions, newDob \in BOOLEAN :
                 StartUpdateStudent(c, s, a, newDob)
      BY <1>2, <3>2 DEF StartUpdateStudent
    <3>3. CASE \E ids \in SUBSET Students : StartBulkDelete(c, ids, "bulkStudents")
      BY <1>2, <3>3 DEF StartBulkDelete
    <3>4. CASE req' = [req EXCEPT ![c] = Idle]
      BY <1>2, <3>4 DEF Idle
    <3> QED
      BY <1>4, <3>1, <3>2, <3>3, <3>4
         DEF StudentStep, CreateStudent, UpdateStudent, LinkAccount, CreateGuardian, DeleteGuardian
  <2>2. \A d \in Callers : d # c => req'[d] = req[d]
    BY <1>2, <1>4
       DEF StudentStep, CreateStudent, StartUpdateStudent, UpdateStudent, LinkAccount,
           StartBulkDelete, BulkPassStudent, BulkPickStudent, BulkDeleteStudent, Pass, Pick,
           Picked, CreateGuardian, DeleteGuardian
  <2> QED
    BY <1>1, <2>1, <2>2, PlainRequestOK
<1> QED
  BY <1>3, <1>4

LEMMA RequestsNext ==
  AccountInv /\ [Next]_vars => \A d \in Callers : RequestOK(users', req'[d])
<1> SUFFICES ASSUME AccountInv, [Next]_vars PROVE \A d \in Callers : RequestOK(users', req'[d])
  OBVIOUS
<1>1. CASE SuperAdminStep \/ UNCHANGED vars
  <2>1. req' = req
    BY <1>1 DEF vars, SuperAdminStep, DeactivateTenant, ReactivateTenant, UpdateTenant
  <2> QED
    BY <2>1, RequestsGrow, RequestFields DEF AccountInv
<1> QED
  BY <1>1, OwnRequests, UserRequests, StudentRequests DEF Next

LEMMA TokensNext ==
  ASSUME AccountInv, [Next]_vars
  PROVE  TokensKnown'
<1> USE DEF AccountInv
<1>1. \A t \in tokens : t \in Token /\ t.user \in Users /\ t.version \in Int
  BY DEF TypeOK, Token
<1>2. \A u \in Users : users[u].version \in Int /\ users'[u].version \in Int
  <2>1. TypeOK'
    BY TypeNext
  <2>2. \A u \in Users : users'[u] \in User /\ users[u] \in User
    BY <2>1 DEF TypeOK
  <2> QED
    BY <2>2 DEF User
<1>3. \A t \in tokens : Known(t.user)' /\ t.version <= users'[t.user].version
  BY <1>1, <1>2, UsersGrow DEF TokensKnown
<1>4. CASE tokens' = tokens
  BY <1>3, <1>4 DEF TokensKnown
<1>5. CASE \E c \in Callers : IssueToken(c)
  <2>1. PICK c \in Callers : IssueToken(c)
    BY <1>5
  <2>2. req[c].op = "signIn" /\ tokens' = tokens \cup {TokenOf(req[c])} /\ users' = users
    BY <2>1 DEF IssueToken
  <2>3. Known(req[c].user) /\ req[c].version <= users[req[c].user].version
    BY <2>2 DEF RequestOK, Known
  <2> QED
    BY <1>3, <2>2, <2>3 DEF TokensKnown, TokenOf, Known
<1>6. CASE \E c \in Callers : ChangePassword(c)
  <2>1. PICK c \in Callers : ChangePassword(c)
    BY <1>6
  <2> DEFINE u == req[c].user
             t == [TokenOf(req[c]) EXCEPT !.version = NewVersion(req[c])]
  <2>2. u \in Users /\ Known(u)
    BY <2>1, RequestFields DEF ChangePassword, RequestOK, Known
  <2>3. users'[u].state # "none"
    BY <2>2, UsersGrow DEF Known
  <2>4. users'[u].version = NewVersion(req[c]) /\ tokens' = tokens \cup {t}
    BY <2>1, <2>2 DEF ChangePassword, TypeOK, User
  <2>5. t.user = u /\ t.version = users'[u].version
    BY <2>4 DEF TokenOf
  <2> HIDE DEF t, u
  <2> QED
    BY <1>2, <1>3, <2>2, <2>3, <2>4, <2>5 DEF TokensKnown, Known
<1> QED
  BY <1>4, <1>5, <1>6, StepKinds DEF Keeps, Closing

-----------------------------------------------------------------------------
(* Links.                                                                  *)
LEMMA LinksKept ==
  ASSUME AccountInv, [Next]_vars,
         \A s \in Students : students'[s].user \in {students[s].user, NoOne}
  PROVE  LinksKnown' /\ OneStudentPerAccount'
<1>1. \A s \in Students : students[s].user \in Users \cup {NoOne}
  BY DEF AccountInv, TypeOK, Student
<1>2. LinksKnown'
  BY <1>1, UsersGrow DEF AccountInv, LinksKnown
<1>3. OneStudentPerAccount'
  BY DEF AccountInv, OneStudentPerAccount
<1> QED
  BY <1>2, <1>3

LEMMA LinkMade ==
  ASSUME AccountInv, [Next]_vars, NEW s \in Students, NEW u \in Users,
         students'[s].user = u, users'[u].state # "none",
         \A r \in Students \ {s} : students'[r].user = students[r].user /\ students[r].user # u
  PROVE  LinksKnown' /\ OneStudentPerAccount'
<1>1. \A r \in Students : students[r].user \in Users \cup {NoOne}
  BY DEF AccountInv, TypeOK, Student
<1>2. LinksKnown'
  BY <1>1, UsersGrow DEF AccountInv, LinksKnown, Known
<1>3. OneStudentPerAccount'
  BY DEF AccountInv, OneStudentPerAccount
<1> QED
  BY <1>2, <1>3

LEMMA UnlinkKeeps ==
  ASSUME TypeOK, NEW u \in Users, Unlink(u)
  PROVE  \A s \in Students : students'[s].user \in {students[s].user, NoOne}
<1>1. \A s \in Students : students[s] \in Student
  BY DEF TypeOK
<1> QED
  BY <1>1 DEF Unlink, Student

LEMMA LinksNext ==
  ASSUME AccountInv, [Next]_vars
  PROVE  LinksKnown' /\ OneStudentPerAccount'
<1> DEFINE Kept == \A s \in Students : students'[s].user \in {students[s].user, NoOne}
<1> USE DEF AccountInv
<1>1. students \in [Students -> Student]
  BY DEF TypeOK
<1>2. CASE SuperAdminStep \/ UNCHANGED vars
  <2>1. students' = students
    BY <1>2 DEF vars, SuperAdminStep, DeactivateTenant, ReactivateTenant, UpdateTenant
  <2> QED
    BY <2>1, LinksKept
<1>3. ASSUME NEW c \in Callers, OwnStep(c) PROVE Kept
  BY <1>3
     DEF OwnStep, StartLogin, IssueToken, Admit, Logout, SwitchRole, StartChangePassword,
         ChangePassword, EndRequest
<1>4. ASSUME NEW c \in Callers, UserStep(c) PROVE Kept
  <2>1. CASE DeleteUser(c)
    BY <2>1, UnlinkKeeps, RequestFields DEF DeleteUser
  <2>2. CASE BulkUnlinkUser(c)
    BY <2>2, UnlinkKeeps DEF BulkUnlinkUser
  <2> QED
    BY <1>4, <2>1, <2>2
       DEF UserStep, CreateUser, StartUpdateRoles, UpdateRoles, StartResetPassword,
           ResetPassword, StartDeleteUser, StartBulkDelete, BulkPassUser, BulkDeleteUser
<1>5. ASSUME NEW c \in Callers, StudentStep(c) PROVE LinksKnown' /\ OneStudentPerAccount'
  <2>1. CASE \E s \in Students, u \in Users, a \in Admissions : CreateStudent(c, s, u, a)
    <3>1. PICK s \in Students, u \in Users, a \in Admissions : CreateStudent(c, s, u, a)
      BY <2>1
    <3>2. ~Known(u) /\ users'[u].state # "none"
      BY <3>1 DEF CreateStudent, NewUser, Known, TypeOK
    <3>3. /\ students'[s].user = u
          /\ \A r \in Students \ {s} : students'[r] = students[r] /\ students[r].user # u
      <4>1. u # NoOne
        BY IdsAssumption
      <4> QED
        BY <1>1, <3>1, <3>2, <4>1 DEF CreateStudent, LinksKnown
    <3> QED
      BY <3>2, <3>3, LinkMade
  <2>2. CASE LinkAccount(c)
    <3>1. req[c].student \in Students /\ req[c].user \in Users
      BY <2>2, RequestFields DEF LinkAccount
    <3>2. users'[req[c].user].state # "none"
      BY <2>2, <3>1, UsersGrow DEF LinkAccount, RequestOK, Known
    <3>3. /\ students'[req[c].student].user = req[c].user
          /\ \A r \in Students \ {req[c].student} :
               students'[r] = students[r] /\ students[r].user # req[c].user
      BY <1>1, <2>2, <3>1 DEF LinkAccount, UserFree, Student
    <3> QED
      BY <3>1, <3>2, <3>3, LinkMade
  <2>3. CASE UpdateStudent(c) \/ BulkDeleteStudent(c)
    <3>1. \A s \in Students : students[s] \in Student
      BY <1>1
    <3>2. Kept
      BY <1>1, <2>3, <3>1 DEF UpdateStudent, BulkDeleteStudent, Student
    <3> QED
      BY <3>2, LinksKept
  <2>4. CASE students' = students
    BY <2>4, LinksKept
  <2> QED
    BY <1>5, <2>1, <2>2, <2>3, <2>4
       DEF StudentStep, StartUpdateStudent, StartLinkAccount, StartBulkDelete, BulkPassStudent,
           BulkPickStudent, CreateGuardian, DeleteGuardian
<1> QED
  BY <1>2, <1>3, <1>4, <1>5, LinksKept DEF Next

LEMMA AccountNext == AccountInv /\ [Next]_vars => AccountInv'
<1> SUFFICES ASSUME AccountInv, [Next]_vars PROVE AccountInv'
  OBVIOUS
<1>1. TypeOK'
  BY TypeNext DEF AccountInv
<1>2. (\A c \in Callers : RequestOK(users, req[c]))'
  BY RequestsNext
<1> QED
  BY <1>1, <1>2, TokensNext, LinksNext DEF AccountInv

(* No account leads to two students, deleted ones included, however        *)
(* accounts and students are created, linked, unlinked and deleted.        *)
THEOREM OneStudentPerAccountHolds == Spec => []OneStudentPerAccount
<1>1. AccountInv => OneStudentPerAccount
  BY DEF AccountInv
<1> QED
  BY <1>1, AccountInit, AccountNext, PTL DEF Spec

(* No token is ahead of its user.                                          *)
THEOREM NeverAheadHolds == Spec => []NeverAhead
<1>1. AccountInv => NeverAhead
  BY DEF AccountInv, TokensKnown, RequestOK, NeverAhead
<1> QED
  BY <1>1, AccountInit, AccountNext, PTL DEF Spec

-----------------------------------------------------------------------------
(* Sessions: whether a token is valid depends on its session, and what a   *)
(* step does to the versions it does to the sessions.                      *)
OpenOf(u) == {s \in OpenSessions : s[1] = u}

LEMMA ViewKept ==
  ASSUME tokens' = tokens, \A t \in tokens : Valid(t)' <=> Valid(t)
  PROVE  OpenSessions' = OpenSessions /\ ClosedSessions' = ClosedSessions
  BY DEF OpenSessions, ClosedSessions

LEMMA ViewClosed ==
  ASSUME NEW u \in Users, tokens' = tokens,
         \A t \in tokens : Valid(t)' <=> Valid(t) /\ t.user # u
  PROVE  /\ OpenSessions' = OpenSessions \ OpenOf(u)
         /\ ClosedSessions' = ClosedSessions \cup OpenOf(u)
<1>1. OpenSessions' = OpenSessions \ OpenOf(u)
  BY DEF OpenSessions, OpenOf, SessionOf
<1>2. ClosedSessions' = ClosedSessions \cup OpenOf(u)
  BY DEF OpenSessions, ClosedSessions, OpenOf, SessionOf
<1> QED
  BY <1>1, <1>2

ValidIn(table, t) ==
  table[t.user].state # "deleted" /\ t.version >= table[t.user].version

(* A token is added, and those of its user are closed.                     *)
LEMMA TwoViews ==
  ASSUME NEW u \in Users, NEW t, tokens' = tokens \cup {t},
         \A x \in tokens : Valid(x)' <=> Valid(x) /\ x.user # u
  PROVE  /\ ValidIn(users', t) =>
              /\ OpenSessions' = (OpenSessions \ OpenOf(u)) \cup {SessionOf(t)}
              /\ ClosedSessions' = ClosedSessions \cup OpenOf(u)
         /\ ~ValidIn(users', t) =>
              /\ OpenSessions' = OpenSessions \ OpenOf(u)
              /\ ClosedSessions' = ClosedSessions \cup OpenOf(u) \cup {SessionOf(t)}
  BY DEF OpenSessions, ClosedSessions, OpenOf, SessionOf, Valid, ValidIn

LEMMA KeptSteps ==
  ASSUME AccountInv, Keeps
  PROVE  UNCHANGED Abstract!vars
<1>1. \A t \in tokens : Known(t.user) /\ t.user \in Users
  BY DEF AccountInv, TokensKnown, TypeOK, Token
<1>2. \A t \in tokens : Valid(t)' <=> Valid(t)
  BY <1>1 DEF Keeps, Valid
<1> QED
  BY <1>2, ViewKept DEF Keeps, Abstract!vars

LEMMA ClosingSteps ==
  ASSUME AccountInv, NEW u \in Users, Closing(u)
  PROVE  Abstract!SignOut(u) \/ Abstract!Expel(u)
<1>1. \A t \in tokens :
        /\ t.user \in Users /\ t.version \in Int /\ t.version <= users[t.user].version
        /\ users[t.user] \in User /\ users[t.user].version \in Int
  <2>1. \A v \in Users : users[v].version \in 0..MaxVersion
    BY UserColumns DEF AccountInv
  <2> QED
    BY <2>1 DEF AccountInv, TokensKnown, TypeOK, Token
<1>2. \A t \in tokens : Valid(t)' <=> Valid(t) /\ t.user # u
  <2>1. SUFFICES ASSUME NEW t \in tokens PROVE Valid(t)' <=> Valid(t) /\ t.user # u
    OBVIOUS
  <2>2. CASE t.user # u
    <3>1. users \in [Users -> User] /\ t.user \in Users
      BY <1>1 DEF AccountInv, TypeOK
    <3>2. users'[t.user] = users[t.user]
      <4>1. CASE users' = [users EXCEPT ![u].version = @ + 1]
        BY <2>2, <3>1, <4>1
      <4>2. CASE users' = [users EXCEPT ![u].state = "deleted"]
        BY <2>2, <3>1, <4>2
      <4> QED
        BY <4>1, <4>2 DEF Closing
    <3> QED
      BY <2>2, <3>2 DEF Valid
  <2>3. CASE t.user = u
    <3>1. users \in [Users -> User]
      BY DEF AccountInv, TypeOK
    <3>2. CASE users' = [users EXCEPT ![u].version = @ + 1]
      <4>1. users'[u].version = users[u].version + 1
        BY <3>1, <3>2 DEF User
      <4>2. ~(t.version >= users'[u].version)
        BY <1>1, <2>3, <4>1
      <4> QED
        BY <2>3, <4>2 DEF Valid
    <3>3. CASE users' = [users EXCEPT ![u].state = "deleted"]
      BY <2>3, <3>1, <3>3 DEF Valid, User
    <3> QED
      BY <3>2, <3>3 DEF Closing
  <2> QED
    BY <2>2, <2>3
<1>3. /\ OpenSessions' = OpenSessions \ OpenOf(u)
      /\ ClosedSessions' = ClosedSessions \cup OpenOf(u)
  BY <1>2, ViewClosed DEF Closing
<1> QED
  BY <1>3
     DEF Closing, RevokeSessions, OpenOf, Abstract!SignOut, Abstract!Expel, Abstract!CloseAllBut,
         Abstract!SessionsOf

LEMMA IssueSteps ==
  ASSUME AccountInv, NEW c \in Callers, IssueToken(c)
  PROVE  \E s \in Users \X (0..MaxVersion) : Abstract!Open(s) \/ Abstract!OpenTooLate(s)
<1> DEFINE t == TokenOf(req[c])
           s == SessionOf(t)
<1>1. s \in Users \X (0..MaxVersion)
  BY RequestFields DEF AccountInv, IssueToken, SessionOf, TokenOf
<1>2. tokens' = tokens \cup {t} /\ UNCHANGED <<users, signOuts>>
  BY DEF IssueToken
<1>3. \A x : SessionOf(x) = s => (Valid(x) <=> Valid(t))
  BY DEF SessionOf, Valid
<1> HIDE DEF t, s
<1>4. CASE Valid(t)
  <2>1. s \notin ClosedSessions
    BY <1>3, <1>4 DEF ClosedSessions
  <2>2. ClosedSessions' = ClosedSessions /\ OpenSessions' = OpenSessions \cup {s}
    BY <1>2, <1>4 DEF ClosedSessions, OpenSessions, Valid, s
  <2> QED
    BY <1>1, <1>2, <2>1, <2>2 DEF Abstract!Open
<1>5. CASE ~Valid(t)
  <2>1. s \notin OpenSessions
    BY <1>3, <1>5 DEF OpenSessions
  <2>2. OpenSessions' = OpenSessions /\ ClosedSessions' = ClosedSessions \cup {s}
    BY <1>2, <1>5 DEF ClosedSessions, OpenSessions, Valid, s
  <2> QED
    BY <1>1, <1>2, <2>1, <2>2 DEF Abstract!OpenTooLate
<1> QED
  BY <1>4, <1>5

LEMMA ChangeSteps ==
  ASSUME AccountInv, NEW c \in Callers, ChangePassword(c)
  PROVE  \E u \in Users, s \in Users \X (0..MaxVersion) : Abstract!Renew(u, s)
<1> DEFINE u == req[c].user
           n == NewVersion(req[c])
           t == [TokenOf(req[c]) EXCEPT !.version = n]
           s == SessionOf(t)
<1>1. u \in Users /\ users \in [Users -> User]
  BY RequestFields DEF AccountInv, ChangePassword, TypeOK
<1>2. users[u].version \in 0..MaxVersion
  BY <1>1, UserColumns DEF AccountInv
<1>3. n = users[u].version + 1 /\ n <= MaxVersion
  BY DEF ChangePassword, NewVersion
<1>4. t.user = u /\ t.version = n /\ s = <<u, n>>
  BY DEF TokenOf, SessionOf
<1>5. /\ tokens' = tokens \cup {t} /\ users' = [users EXCEPT ![u].version = n]
      /\ signOuts' = [signOuts EXCEPT ![u] = @ + 1]
  BY DEF ChangePassword, RevokeSessions
<1> HIDE DEF u, n, t, s
<1>6. s \in Users \X (0..MaxVersion)
  BY <1>1, <1>2, <1>3, <1>4, BoundsAssumption
<1>7. \A x \in tokens : /\ x.user \in Users /\ x.version \in Int
                        /\ x.version <= users[x.user].version
  BY DEF AccountInv, TokensKnown, TypeOK, Token
<1>8. \A x \in tokens : Valid(x)' <=> Valid(x) /\ x.user # u
  <2>1. SUFFICES ASSUME NEW x \in tokens PROVE Valid(x)' <=> Valid(x) /\ x.user # u
    OBVIOUS
  <2>2. CASE x.user # u
    BY <1>1, <1>5, <1>7, <2>2 DEF Valid
  <2>3. CASE x.user = u
    <3>1. users'[u].version = n
      BY <1>1, <1>5 DEF User
    <3>2. ~(x.version >= n)
      BY <1>2, <1>3, <1>7, <2>3
    <3> QED
      BY <2>3, <3>1, <3>2 DEF Valid
  <2> QED
    BY <2>2, <2>3
<1>9. s \notin OpenSessions \cup ClosedSessions
  <2>1. \A x \in tokens : SessionOf(x) # s
    BY <1>2, <1>3, <1>4, <1>7 DEF SessionOf
  <2> QED
    BY <2>1 DEF OpenSessions, ClosedSessions
<1>10. CASE users'[u].state # "deleted"
  <2>1. ValidIn(users', t)
    BY <1>1, <1>2, <1>3, <1>4, <1>5, <1>10 DEF User, ValidIn
  <2>2. /\ OpenSessions' = (OpenSessions \ OpenOf(u)) \cup {s}
        /\ ClosedSessions' = ClosedSessions \cup OpenOf(u)
    BY <1>1, <1>5, <1>8, <2>1, TwoViews DEF s
  <2> QED
    BY <1>1, <1>4, <1>5, <1>6, <1>9, <2>2
       DEF OpenOf, Abstract!Renew, Abstract!CloseAllBut, Abstract!SessionsOf
<1>11. CASE users'[u].state = "deleted"
  <2>1. ~ValidIn(users', t)
    BY <1>4, <1>11 DEF ValidIn
  <2>2. /\ OpenSessions' = OpenSessions \ OpenOf(u)
        /\ ClosedSessions' = ClosedSessions \cup OpenOf(u) \cup {s}
    BY <1>1, <1>5, <1>8, <2>1, TwoViews DEF s
  <2> QED
    BY <1>1, <1>4, <1>5, <1>6, <1>9, <2>2
       DEF OpenOf, Abstract!Renew, Abstract!CloseAllBut, Abstract!SessionsOf
<1> QED
  BY <1>10, <1>11

LEMMA SignInsInit == Init => Abstract!Init
  BY DEF Init, Abstract!Init, OpenSessions, ClosedSessions

LEMMA SignInsStep ==
  ASSUME AccountInv, [Next]_vars
  PROVE  Abstract!Next \/ UNCHANGED Abstract!vars
<1>1. CASE Keeps
  BY <1>1, KeptSteps
<1>2. CASE \E u \in Users : Closing(u)
  BY <1>2, ClosingSteps DEF Abstract!Next
<1>3. CASE \E c \in Callers : IssueToken(c)
  BY <1>3, IssueSteps DEF Abstract!Next
<1>4. CASE \E c \in Callers : ChangePassword(c)
  BY <1>4, ChangeSteps DEF Abstract!Next
<1> QED
  BY <1>1, <1>2, <1>3, <1>4, StepKinds DEF AccountInv

(* Signing out, changing and resetting a password close all the sessions a *)
(* user has, and none is open again, whatever requests race.               *)
THEOREM ImplementsSignInsHolds == Spec => ImplementsSignIns
<1>1. AccountInv /\ [Next]_vars => [Abstract!Next]_(Abstract!vars)
  BY SignInsStep
<1> QED
  BY AccountInit, AccountNext, SignInsInit, <1>1, PTL DEF Spec, ImplementsSignIns, Abstract!Spec

-----------------------------------------------------------------------------
(* One Admin request at a time: only caller a changes records.             *)
Plain == {"idle", "admitted", "signIn", "change"}

OneStaffInv(a) ==
  /\ TypeOK
  /\ \A c \in Callers \ {a} : req[c].op \in Plain
  /\ req[a].op = "link" => Live(users, req[a].user)
  /\ req[a].op = "bulkUsers" /\ req[a].now # NoOne
       => \A s \in Students : students[s].user # req[a].now
  /\ LinkedAccountsLive

(* Links and states stay, and no link or deletion is begun.                *)
LinksStay ==
  /\ \A s \in Students : students'[s].user = students[s].user
  /\ \A u \in Users : Live(users, u) => users'[u].state = "live"

LEMMA OwnKeepsLinks ==
  ASSUME TypeOK, NEW c \in Callers, OwnStep(c)
  PROVE  LinksStay /\ req'[c].op \in Plain /\ \A d \in Callers \ {c} : req'[d] = req[d]
<1>1. users \in [Users -> User] /\ req \in [Callers -> Requests]
  BY DEF TypeOK
<1>2. CASE Logout(c) \/ ChangePassword(c)
  <2>1. ASSUME NEW u, NEW n, users' = [users EXCEPT ![u].version = n]
        PROVE  \A v \in Users : users'[v].state = users[v].state
    <3>1. \A v \in Users : v # u => users'[v] = users[v]
      BY <1>1, <2>1
    <3>2. u \in Users => users'[u].state = users[u].state
      BY <1>1, <2>1 DEF User
    <3> QED
      BY <3>1, <3>2
  <2>2. \A v \in Users : users'[v].state = users[v].state
    <3>1. CASE Logout(c)
      BY <2>1, <3>1 DEF Logout
    <3>2. CASE ChangePassword(c)
      BY <2>1, <3>2 DEF ChangePassword
    <3> QED
      BY <1>2, <3>1, <3>2
  <2> QED
    BY <1>1, <1>2, <2>2 DEF Logout, ChangePassword, Idle, LinksStay, Live, Plain
<1>3. CASE ~(Logout(c) \/ ChangePassword(c))
  BY <1>1, <1>3
     DEF OwnStep, StartLogin, IssueToken, Admit, SwitchRole, StartChangePassword, EndRequest,
         Read, Idle, LinksStay, Live, Plain
<1> QED
  BY <1>2, <1>3

LEMMA LinksStayLive ==
  ASSUME TypeOK, LinkedAccountsLive, LinksStay
  PROVE  LinkedAccountsLive'
<1>1. \A s \in Students : students[s].user \in Users \cup {NoOne}
  BY DEF TypeOK, Student
<1> QED
  BY <1>1 DEF LinkedAccountsLive, LinksStay, Live

(* What caller a carries after a step of its own.                          *)
CarriesOK(a) ==
  /\ req[a].op = "link" => Live(users, req[a].user)
  /\ req[a].op = "bulkUsers" /\ req[a].now # NoOne
       => \A s \in Students : students[s].user # req[a].now

LEMMA KeepsLive ==
  ASSUME TypeOK, TypeOK', Keeps
  PROVE  \A u \in Users : Live(users, u) => users'[u].state = "live"
<1>1. \A u \in Users : users'[u].state \in States
  BY DEF TypeOK, User
<1> QED
  BY <1>1 DEF Keeps, Known, Live, States

LEMMA DeletedUser ==
  ASSUME TypeOK, NEW u \in Users, users' = [users EXCEPT ![u].state = "deleted"],
         LinkedAccountsLive,
         \A s \in Students : students'[s].user \in {students[s].user, NoOne} \ {u}
  PROVE  LinkedAccountsLive'
<1>1. \A s \in Students : students[s].user \in Users \cup {NoOne}
  BY DEF TypeOK, Student
<1>2. \A v \in Users \ {u} : users'[v] = users[v]
  BY DEF TypeOK
<1> QED
  BY <1>1, <1>2 DEF LinkedAccountsLive, Live

LEMMA Unlinked ==
  ASSUME TypeOK, NEW u \in Users, Unlink(u)
  PROVE  \A s \in Students : students'[s].user \in {students[s].user, NoOne} \ {u}
<1>1. students \in [Students -> Student] /\ NoOne \notin Users
  BY IdsAssumption DEF TypeOK
<1>2. \A s \in Students : students'[s].user = IF students[s].user = u THEN NoOne ELSE students[s].user
  BY <1>1 DEF Unlink, Student
<1> QED
  BY <1>1, <1>2

LEMMA UserStepCarries ==
  ASSUME NEW a \in Callers, OneStaffInv(a), TypeOK', UserStep(a)
  PROVE  CarriesOK(a)' /\ LinkedAccountsLive'
<1>1. /\ TypeOK /\ LinkedAccountsLive /\ req \in [Callers -> Requests]
      /\ users \in [Users -> User] /\ NoOne \notin Users
  BY IdsAssumption DEF OneStaffInv, TypeOK
<1>2. CASE DeleteUser(a)
  <2>1. req[a].user \in Users
    BY <1>1, <1>2, RequestFields DEF DeleteUser
  <2>2. req'[a] = Idle
    BY <1>1, <1>2 DEF DeleteUser
  <2> QED
    BY <1>1, <1>2, <2>1, <2>2, Unlinked, DeletedUser DEF DeleteUser, CarriesOK, Idle
<1>3. CASE BulkDeleteUser(a)
  <2>1. req[a].now \in Users /\ req[a].op = "bulkUsers" /\ req[a].now # NoOne
    BY <1>1, <1>3, BulkFields DEF BulkDeleteUser, Picked, BulkSteps
  <2>2. \A s \in Students : students'[s].user \in {students[s].user, NoOne} \ {req[a].now}
    BY <1>3, <2>1 DEF BulkDeleteUser, OneStaffInv
  <2>3. req[a] \in BulkOf("bulkUsers", Users)
    BY <1>1, <2>1, RequestFields
  <2>4. req'[a].op = "bulkUsers" /\ req'[a].now = NoOne
    BY <1>1, <1>3, <2>3 DEF BulkDeleteUser, Picked, BulkOf
  <2> QED
    BY <1>1, <1>3, <2>1, <2>2, <2>4, DeletedUser DEF BulkDeleteUser, CarriesOK
<1>4. CASE BulkUnlinkUser(a)
  <2>1. PICK u \in Users : Pick(a, users, Teaching, u) /\ Unlink(u)
    BY <1>4 DEF BulkUnlinkUser
  <2>2. \A s \in Students : students'[s].user \in {students[s].user, NoOne} \ {u}
    BY <1>1, <2>1, Unlinked
  <2>3. req[a] \in BulkOf("bulkUsers", Users)
    BY <1>1, <1>4, RequestFields DEF BulkUnlinkUser
  <2>4. req'[a].op = "bulkUsers" /\ req'[a].now = u
    BY <1>1, <2>1, <2>3 DEF Pick, BulkOf
  <2>5. LinkedAccountsLive'
    BY <1>1, <1>4, <2>2 DEF BulkUnlinkUser, LinkedAccountsLive
  <2> QED
    BY <2>2, <2>4, <2>5 DEF CarriesOK
<1>5. CASE BulkPassUser(a)
  <2>1. req[a] \in BulkOf("bulkUsers", Users) /\ req[a].now = NoOne
    BY <1>1, <1>5, RequestFields DEF BulkPassUser, Pass
  <2>2. req'[a].op = "bulkUsers" /\ req'[a].now = NoOne
    BY <1>1, <1>5, <2>1 DEF BulkPassUser, Pass, BulkOf
  <2> QED
    BY <1>1, <1>5, <2>2 DEF BulkPassUser, CarriesOK, LinkedAccountsLive
<1>6. CASE ~(DeleteUser(a) \/ BulkDeleteUser(a) \/ BulkUnlinkUser(a) \/ BulkPassUser(a))
  <2>1. /\ students' = students
        /\ req'[a].op # "link"
        /\ req'[a].op = "bulkUsers" => req'[a].now = NoOne
    BY <1>1, <1>6
       DEF UserStep, CreateUser, StartUpdateRoles, UpdateRoles, StartResetPassword, ResetPassword,
           StartDeleteUser, StartBulkDelete, Idle
  <2>2. Keeps \/ ResetPassword(a)
    <3>1. CASE UpdateRoles(a)
      BY <1>1, <3>1, RequestFields, ColumnKeeps DEF UpdateRoles
    <3>2. CASE \E u \in Users, roles \in RoleSets, e \in Mails : CreateUser(a, u, roles, e)
      BY <1>1, <3>2, NewUserKeeps DEF CreateUser
    <3> QED
      BY <1>6, <3>1, <3>2
         DEF UserStep, StartUpdateRoles, StartResetPassword, StartDeleteUser, StartBulkDelete,
             Keeps, Known
  <2>3. \A u \in Users : Live(users, u) => users'[u].state = "live"
    <3>1. CASE ResetPassword(a)
      BY <1>1, <3>1 DEF ResetPassword, Live, User
    <3> QED
      BY <1>1, <2>2, <3>1, KeepsLive
  <2> QED
    BY <1>1, <2>1, <2>3, LinksStayLive DEF CarriesOK, LinksStay
<1> QED
  BY <1>2, <1>3, <1>4, <1>5, <1>6

LEMMA StudentStepCarries ==
  ASSUME NEW a \in Callers, OneStaffInv(a), TypeOK', StudentStep(a)
  PROVE  CarriesOK(a)' /\ LinkedAccountsLive'
<1>1. /\ TypeOK /\ LinkedAccountsLive /\ req \in [Callers -> Requests]
      /\ students \in [Students -> Student] /\ NoOne \notin Users
      /\ \A s \in Students : students[s].user \in Users \cup {NoOne}
  BY IdsAssumption DEF OneStaffInv, TypeOK, Student
<1>2. \A u \in Users : Live(users, u) => users'[u].state = "live"
  BY <1>1, StudentKinds, KeepsLive
<1>3. CASE \E s \in Students, u \in Users, n \in Admissions : CreateStudent(a, s, u, n)
  <2>1. PICK s \in Students, u \in Users, n \in Admissions : CreateStudent(a, s, u, n)
    BY <1>3
  <2>2. req'[a] = Idle
    BY <1>1, <2>1 DEF CreateStudent
  <2>3. users'[u].state = "live"
    BY <1>1, <2>1 DEF CreateStudent, NewUser, TypeOK
  <2>4. students'[s].user = u /\ \A r \in Students \ {s} : students'[r] = students[r]
    BY <1>1, <2>1 DEF CreateStudent
  <2> QED
    BY <1>1, <1>2, <2>2, <2>3, <2>4 DEF CarriesOK, Idle, LinkedAccountsLive, Live
<1>4. CASE \E s \in Students, u \in Users : StartLinkAccount(a, s, u)
  <2>1. PICK s \in Students, u \in Users : StartLinkAccount(a, s, u)
    BY <1>4
  <2>2. req'[a] = [op |-> "link", student |-> s, user |-> u] /\ students' = students /\ Live(users, u)
    BY <1>1, <2>1 DEF StartLinkAccount
  <2> QED
    BY <1>1, <1>2, <2>2, LinksStayLive DEF CarriesOK, LinksStay, Live
<1>5. CASE LinkAccount(a)
  <2>1. req[a].student \in Students /\ req[a].user \in Users /\ Live(users, req[a].user)
    BY <1>1, <1>5, RequestFields DEF LinkAccount, OneStaffInv
  <2>2. /\ students'[req[a].student].user = req[a].user /\ req'[a] = Idle
        /\ \A r \in Students \ {req[a].student} : students'[r] = students[r]
    BY <1>1, <1>5, <2>1 DEF LinkAccount, Student
  <2> QED
    BY <1>1, <1>2, <2>1, <2>2 DEF CarriesOK, Idle, LinkedAccountsLive, Live
<1>6. CASE UpdateStudent(a)
  <2>1. req'[a] = Idle
    BY <1>1, <1>6 DEF UpdateStudent
  <2>2. \A s \in Students : students'[s].user = students[s].user
    BY <1>1, <1>6 DEF UpdateStudent, Student
  <2> QED
    BY <1>1, <1>2, <2>1, <2>2, LinksStayLive DEF CarriesOK, Idle, LinksStay
<1>7. CASE BulkPassStudent(a) \/ BulkPickStudent(a) \/ BulkDeleteStudent(a)
  <2>1. req[a] \in BulkOf("bulkStudents", Students)
    BY <1>1, <1>7, RequestFields DEF BulkPassStudent, BulkPickStudent, BulkDeleteStudent
  <2>2. req'[a].op = "bulkStudents"
    BY <1>1, <1>7, <2>1
       DEF BulkPassStudent, BulkPickStudent, BulkDeleteStudent, Pass, Pick, Picked, BulkOf
  <2>3. \A s \in Students : students'[s].user = students[s].user
    BY <1>1, <1>7 DEF BulkPassStudent, BulkPickStudent, BulkDeleteStudent, Student
  <2> QED
    BY <1>1, <1>2, <2>2, <2>3, LinksStayLive DEF CarriesOK, LinksStay
<1>8. CASE \/ \E s \in Students, n \in Admissions, d \in BOOLEAN : StartUpdateStudent(a, s, n, d)
           \/ \E ids \in SUBSET Students : StartBulkDelete(a, ids, "bulkStudents")
           \/ \E g \in Guardians, s \in Students, u \in Users \cup {NoOne}, e \in Mails :
                CreateGuardian(a, g, s, u, e)
           \/ \E g \in Guardians : DeleteGuardian(a, g)
  <2>1. students' = students /\ req'[a].op \in {"idle", "edit", "bulkStudents"}
    <3>1. CASE \E s \in Students, n \in Admissions, d \in BOOLEAN : StartUpdateStudent(a, s, n, d)
      BY <1>1, <3>1 DEF StartUpdateStudent
    <3>2. CASE \E ids \in SUBSET Students : StartBulkDelete(a, ids, "bulkStudents")
      BY <1>1, <3>2 DEF StartBulkDelete
    <3>3. CASE \E g \in Guardians, s \in Students, u \in Users \cup {NoOne}, e \in Mails :
                 CreateGuardian(a, g, s, u, e)
      BY <1>1, <3>3 DEF CreateGuardian, Idle
    <3>4. CASE \E g \in Guardians : DeleteGuardian(a, g)
      BY <1>1, <3>4 DEF DeleteGuardian, Idle
    <3> QED
      BY <1>8, <3>1, <3>2, <3>3, <3>4
  <2> QED
    BY <1>1, <1>2, <2>1, LinksStayLive DEF CarriesOK, LinksStay
<1> QED
  BY <1>3, <1>4, <1>5, <1>6, <1>7, <1>8 DEF StudentStep

(* Only caller a begins what only an Admin may, and only a goes on with it. *)
LEMMA AdminStepsAreOfStaff ==
  ASSUME NEW a, Staff = {a}, OneStaffInv(a), NEW c \in Callers, UserStep(c) \/ StudentStep(c)
  PROVE  c = a /\ \A d \in Callers \ {a} : req'[d] = req[d]
<1>1. CASE c = a
  <2>1. req \in [Callers -> Requests]
    BY DEF OneStaffInv, TypeOK
  <2>2. CASE UserStep(c)
    BY <1>1, <2>1, <2>2
       DEF UserStep, CreateUser, StartUpdateRoles, UpdateRoles, StartResetPassword, ResetPassword,
           StartDeleteUser, DeleteUser, StartBulkDelete, BulkPassUser, BulkUnlinkUser,
           BulkDeleteUser, Pass, Pick, Picked
  <2>3. CASE StudentStep(c)
    BY <1>1, <2>1, <2>3
       DEF StudentStep, CreateStudent, StartUpdateStudent, UpdateStudent, StartLinkAccount,
           LinkAccount, StartBulkDelete, BulkPassStudent, BulkPickStudent, BulkDeleteStudent,
           CreateGuardian, DeleteGuardian, Pass, Pick, Picked
  <2> QED
    BY <1>1, <2>2, <2>3
<1>2. CASE c # a
  <2>1. req[c].op \in Plain /\ ~AdmittedAdmin(c)
    BY <1>2 DEF OneStaffInv, AdmittedAdmin
  <2>2. ~UserStep(c)
    BY <2>1
       DEF UserStep, CreateUser, StartUpdateRoles, UpdateRoles, StartResetPassword, ResetPassword,
           StartDeleteUser, DeleteUser, StartBulkDelete, BulkPassUser, BulkUnlinkUser,
           BulkDeleteUser, Plain
  <2>3. ~StudentStep(c)
    BY <2>1
       DEF StudentStep, CreateStudent, StartUpdateStudent, UpdateStudent, StartLinkAccount,
           LinkAccount, StartBulkDelete, BulkPassStudent, BulkPickStudent, BulkDeleteStudent,
           CreateGuardian, DeleteGuardian, Plain
  <2> QED
    BY <2>2, <2>3
<1> QED
  BY <1>1, <1>2

LEMMA OneStaffInit ==
  ASSUME NEW a, Staff = {a}, Init
  PROVE  OneStaffInv(a)
<1>1. \A c \in Callers : req[c] = Idle
  BY DEF Init
<1>2. \A s \in Students : students[s].user = NoOne
  BY DEF Init
<1> QED
  BY <1>1, <1>2, IdsAssumption, TypeInit DEF OneStaffInv, Idle, Plain, LinkedAccountsLive

LEMMA OneStaffNext ==
  ASSUME NEW a, Staff = {a}, OneStaffInv(a), [Next]_vars
  PROVE  OneStaffInv(a)'
<1>1. a \in Callers /\ TypeOK /\ TypeOK'
  BY IdsAssumption, TypeNext DEF OneStaffInv
<1>2. CASE UNCHANGED vars \/ SuperAdminStep
  <2>1. UNCHANGED <<users, students, req>>
    BY <1>2 DEF vars, SuperAdminStep, DeactivateTenant, ReactivateTenant, UpdateTenant
  <2> QED
    BY <1>1, <2>1 DEF OneStaffInv, LinkedAccountsLive, Live
<1>3. CASE \E c \in Callers : OwnStep(c)
  <2>1. PICK c \in Callers : OwnStep(c)
    BY <1>3
  <2>2. LinksStay /\ req'[c].op \in Plain /\ \A d \in Callers \ {c} : req'[d] = req[d]
    BY <1>1, <2>1, OwnKeepsLinks
  <2>3. LinkedAccountsLive'
    BY <2>2, LinksStayLive DEF OneStaffInv
  <2>4. \A d \in Callers \ {a} : req'[d].op \in Plain
    BY <2>2 DEF OneStaffInv
  <2>5. CASE c = a
    BY <1>1, <2>2, <2>3, <2>4, <2>5 DEF OneStaffInv, Plain
  <2>6. CASE c # a
    <3>1. req'[a] = req[a]
      BY <1>1, <2>2, <2>6
    <3>2. req[a].op = "link" => req[a].user \in Users
      BY <1>1, RequestFields
    <3> QED
      BY <1>1, <2>2, <2>3, <2>4, <3>1, <3>2 DEF OneStaffInv, LinksStay, Live
  <2> QED
    BY <2>5, <2>6
<1>4. CASE \E c \in Callers : UserStep(c) \/ StudentStep(c)
  <2>1. /\ UserStep(a) \/ StudentStep(a)
        /\ \A d \in Callers \ {a} : req'[d] = req[d]
    BY <1>4, AdminStepsAreOfStaff
  <2>2. CarriesOK(a)' /\ LinkedAccountsLive'
    BY <1>1, <2>1, UserStepCarries, StudentStepCarries
  <2> QED
    BY <1>1, <2>1, <2>2 DEF OneStaffInv, CarriesOK
<1> QED
  BY <1>2, <1>3, <1>4 DEF Next

(* With one caller that may do what only an Admin may, every student's     *)
(* account lives: both deletions unlink first, and linking is not overtaken *)
(* by them (users/controller.ts:254, students/controller.ts:495).          *)
THEOREM LinkedAccountsLiveForOneAdmin ==
  ASSUME NEW a, Staff = {a}
  PROVE  Spec => []LinkedAccountsLive
<1>1. Init => OneStaffInv(a)
  BY OneStaffInit
<1>2. OneStaffInv(a) /\ [Next]_vars => OneStaffInv(a)'
  BY OneStaffNext
<1>3. OneStaffInv(a) => LinkedAccountsLive
  BY DEF OneStaffInv
<1> QED
  BY <1>1, <1>2, <1>3, PTL DEF Spec
=============================================================================
