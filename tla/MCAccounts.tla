----------------------------- MODULE MCAccounts -----------------------------
(***************************************************************************)
(* Instances of Accounts for TLC, two in one run: sessions, an Admin and a *)
(* second request of two users without students; and links, one request at *)
(* a time of the first Admin on users, students and a guardian, who keep   *)
(* the roles they have.                                                    *)
(***************************************************************************)
EXTENDS Accounts, TLC

CONSTANTS
  Third, Second,    \* a user and a caller only one of the two has
  Renamed           \* the slugs the school may have while there are links

VARIABLE scope

StaffMails == {<<"office", "mail">>, <<"staff", "mail">>}
WrittenInCapitals == {<<"Parent", "mail">>}
WrittenMails == StaffMails \cup WrittenInCapitals
TeacherOrAdmin == {{"Teacher"}, {"Teacher", "Admin"}}

MCInit == Init /\ scope \in {"sessions", "links"}

NamesNone(r) ==
  /\ r.op \notin {"bulkStudents", "edit", "link"}
  /\ r.op \in {"roles", "reset", "delete"} => r.user # Third
  /\ r.op = "bulkUsers" => Third \notin r.rest

Sessions ==
  /\ ~Live(users, Third) /\ LiveOf(students) = {} /\ LiveOf(guardians) = {}
  /\ \A c \in Callers : NamesNone(req[c])

Links ==
  /\ Second \in Callers => req[Second] = Idle
  /\ slug \in Renamed /\ active
  /\ \A u \in Users : users[u].version = 0
  /\ Cardinality(tokens) <= 1
  /\ \A c \in Callers :
       /\ req[c].op \notin {"change", "reset", "roles"}
       /\ req[c].op = "signIn" => tokens = {}

MCNext ==
  /\ Next
  /\ UNCHANGED scope
  /\ IF scope = "sessions" THEN Sessions' ELSE Links'

MCSpec == MCInit /\ [][MCNext]_<<vars, scope>>
=============================================================================
