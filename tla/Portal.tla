------------------------------- MODULE Portal -------------------------------
(***************************************************************************)
(* One tab of the school's web application: the session it keeps in the    *)
(* sessionStorage, the page it shows, and the cache of answers             *)
(* (TanStack Query) behind its pages.  Entries of the cache do not         *)
(* influence each other, so one of them is followed, `watched', any one;   *)
(* pages that neither read nor change it are all Elsewhere.  Any request   *)
(* may be refused with 401, for a token that was revoked or has run out.   *)
(* A page and its gate draw on the cache through observers: when the cache *)
(* is cleared under a page that stays, they keep the answers they had, or  *)
(* wait for one that was dropped, until they are drawn anew.               *)
(***************************************************************************)
EXTENDS PortalPages, SequencesExt

CONSTANTS
  Pages,      \* the pages of the router
  RolesOf,    \* the users, each with the sequence of its roles
  Forced,     \* the users who have to change their password first
  None        \* no session, no entry, nothing in flight

ASSUME RolesOfAssumption ==
  \A u \in DOMAIN RolesOf : RolesOf[u] \in Seq(Everyone) /\ RolesOf[u] # <<>>

VARIABLES
  session,    \* who is signed in, as which role, and whether a new password is due
  expired,    \* whether the Session Expired dialog is up
  page,       \* the path of the page
  flags,      \* whether the features of the school are in the cache
  gate,       \* whether the gate of the page follows the cache, or stays open or shut
  onshow,     \* the same of the page: it follows the cache, keeps a role's answer, or waits
  watched,    \* the key of the query that is followed
  entry,      \* what the cache has for it
  fetch,      \* the request for it that is on its way
  change,     \* the change that is on its way, as far as the entry is concerned
  auth,       \* the changes of role and of password that are on their way
  crossed     \* since the sign-in or switch, a password sent in another role was changed

tabVars ==
  <<session, expired, page, flags, gate, onshow, watched, entry, fetch, change, auth, crossed>>
cache == <<entry, fetch>>
view == <<gate, onshow>>

Elsewhere == Page("elsewhere", Everyone, FALSE, {})
Router == Pages \cup {Elsewhere, ChangePasswordPage}
PageAt == [path \in {p.name : p \in Router} |-> CHOOSE p \in Router : p.name = path]
Queries == UNION {p.reads[r] : p \in Pages, r \in Everyone}
QueryFor == [k \in {q.key : q \in Queries} |-> CHOOSE q \in Queries : q.key = k]

Current == PageAt[page]
Watched == QueryFor[watched]

(* invalidateQueries takes every key that starts with the one it is given. *)
Touches(c, q) == c.route.to \cap q.route.of # {}
Tells(c, q) == \E t \in c.tells : IsPrefix(t, q.key)

(* The pages that read or change a query, and the changes that do.         *)
ChangesOf == [k \in DOMAIN QueryFor |-> [path \in DOMAIN PageAt |->
  {c \in PageAt[path].does : Touches(c, QueryFor[k]) \/ Tells(c, QueryFor[k])}]]
RelevantTo == [k \in DOMAIN QueryFor |->
  {Elsewhere.name, ChangePasswordPage.name} \cup
    {path \in DOMAIN PageAt : (\E r \in Everyone : QueryFor[k] \in PageAt[path].reads[r])
                                 \/ ChangesOf[k][path] # {}}]

SignedIn == session # None

(* A page is mounted for a role it is for, once its gate, if it has one,   *)
(* has the features.                                                       *)
Admitted == SignedIn /\ session.role \in Current.roles
GateOpen == IF gate = "follows" THEN flags ELSE gate = "open"
Mounted == Admitted /\ (Current.gated => GateOpen)
Watching == Mounted /\ Watched \in Current.reads[session.role]

---------------------------------------------------------------------------
Entries == [role : Everyone, own : BOOLEAN, valid : BOOLEAN,
            behind : {"no", "told", "overtaken"} \cup DOMAIN PageAt]
Fetches == [role : Everyone, own : BOOLEAN, late : BOOLEAN]
Changes == [own : BOOLEAN, from : DOMAIN PageAt, touches : BOOLEAN, tells : BOOLEAN]
Requests == [own : BOOLEAN, kind : {"switch", "password"}, user : DOMAIN RolesOf, role : Everyone]
Views == {"cache", "nothing"} \cup Everyone

TabTypeOK ==
  /\ session \in {None} \cup [user : DOMAIN RolesOf, role : Everyone, forced : BOOLEAN]
  /\ SignedIn => session.role \in Range(RolesOf[session.user]) /\ ~expired
  /\ watched \in DOMAIN QueryFor /\ page \in RelevantTo[watched]
  /\ entry \in {None} \cup Entries
  /\ fetch \in {None} \cup Fetches
  /\ change \in {None} \cup Changes
  /\ auth \subseteq Requests
  /\ gate \in {"follows", "open", "shut"} /\ onshow \in Views
  /\ expired \in BOOLEAN /\ flags \in BOOLEAN /\ crossed \in BOOLEAN

TabInit ==
  /\ session = None /\ expired = FALSE /\ page = Elsewhere.name /\ flags = FALSE
  /\ watched \in DOMAIN QueryFor
  /\ gate = "follows" /\ onshow = "cache"
  /\ entry = None /\ fetch = None /\ change = None /\ auth = {} /\ crossed = FALSE

---------------------------------------------------------------------------
(* Signing in and out.  What a sign-in finds in the cache or in flight was *)
(* not asked for by it; nothing but a switch of role clears the cache.     *)
Foreign(x) == IF x = None THEN None ELSE [x EXCEPT !.own = FALSE]
AllForeign(requests) == {[q EXCEPT !.own = FALSE] : q \in requests}

DrawnAnew == gate' = "follows" /\ onshow' = "cache"

Login(u) ==
  /\ ~SignedIn /\ ~expired
  /\ session' = [user |-> u, role |-> RolesOf[u][1], forced |-> u \in Forced]
  /\ page' = IF u \in Forced THEN ChangePasswordPage.name ELSE Elsewhere.name
  /\ entry' = Foreign(entry) /\ fetch' = Foreign(fetch)
  /\ change' = Foreign(change) /\ auth' = AllForeign(auth)
  /\ UNCHANGED <<expired, flags, view, watched, crossed>>

Logout ==
  /\ SignedIn
  /\ session' = None /\ page' = Elsewhere.name /\ DrawnAnew /\ crossed' = FALSE
  /\ UNCHANGED <<expired, flags, watched, cache, change, auth>>

(* A 401 ends the session of the tab, whichever request it answers, be it  *)
(* a wrong password at the sign-in or the sign-out itself, which goes out  *)
(* after the token was dropped.                                            *)
Expire ==
  /\ ~expired
  /\ session' = None /\ expired' = TRUE /\ page' = Elsewhere.name
  /\ DrawnAnew /\ crossed' = FALSE
  /\ fetch' \in {fetch, None}
  /\ UNCHANGED <<flags, watched, entry, change, auth>>

DismissExpired ==
  /\ expired
  /\ expired' = FALSE
  /\ UNCHANGED <<session, page, flags, view, watched, cache, change, auth, crossed>>

(* The switcher and the page of the password each wait for their own       *)
(* answer, and for that only while they are on show: both can be left and  *)
(* used again.  Requests that ask the same count as one.                   *)
Ask(kind, r) ==
  /\ auth' = auth \cup {[own |-> TRUE, kind |-> kind, user |-> session.user, role |-> r]}
  /\ UNCHANGED <<session, expired, page, flags, view, watched, cache, change, crossed>>

AskSwitch(r) ==
  /\ SignedIn /\ page # ChangePasswordPage.name
  /\ r \in Range(RolesOf[session.user]) \ {session.role}
  /\ Ask("switch", r)

AskPassword ==
  /\ SignedIn /\ page = ChangePasswordPage.name
  /\ Ask("password", session.role)

(* An answer signs in whatever became of the session meanwhile.            *)
SignsIn(q) ==
  /\ session' = [user |-> q.user, role |-> q.role, forced |-> FALSE]
  /\ expired' = FALSE
  /\ auth' = IF SignedIn /\ q.own THEN auth \ {q} ELSE AllForeign(auth \ {q})

(* A slip: a switch that keeps the cache. *)
SwitchKeepsTheCache(q) ==
  /\ q.kind = "switch" /\ SignsIn(q) /\ crossed' = FALSE /\ onshow' = "cache"
  /\ UNCHANGED <<page, flags, gate, watched, cache, change>>

(* The cache is cleared and its observers are not told: the gate of a page *)
(* that is also for the new role is not drawn anew, the page may be.       *)
Kept == IF onshow # "cache" THEN onshow ELSE IF entry = None THEN "nothing" ELSE entry.role

SwitchAnswered(q) ==
  /\ q.kind = "switch" /\ SignsIn(q) /\ crossed' = FALSE
  /\ flags' = FALSE /\ entry' = None /\ fetch' = None
  /\ change' = Foreign(change)
  /\ gate' = IF ~(Admitted /\ Current.gated /\ q.role \in Current.roles) THEN "follows"
             ELSE IF GateOpen THEN "open" ELSE "shut"
  /\ \/ onshow' = "cache"
     \/ /\ Watching /\ q.role \in Current.roles /\ Watched \in Current.reads[q.role]
        /\ onshow' = Kept
  /\ UNCHANGED <<page, watched>>

Landing == "/dashboard"

(* The answer to a password keeps the cache, also when a switch that came  *)
(* between has changed the role since it was sent.                         *)
PasswordAnswered(q) ==
  /\ q.kind = "password" /\ SignsIn(q)
  /\ page' = IF Landing \in RelevantTo[watched] THEN Landing ELSE Elsewhere.name
  /\ IF SignedIn /\ page' = page /\ q.role = session.role THEN UNCHANGED view
     ELSE gate' = (IF page' = page THEN gate ELSE "follows") /\ onshow' = "cache"
  /\ IF SignedIn /\ q.own
     THEN crossed' = (crossed \/ q.role # session.role) /\ UNCHANGED <<cache, change>>
     ELSE /\ entry' = Foreign(entry) /\ fetch' = Foreign(fetch) /\ change' = Foreign(change)
          /\ crossed' = FALSE
  /\ UNCHANGED <<flags, watched>>

AuthFails(q) ==
  /\ auth' = auth \ {q}
  /\ UNCHANGED <<session, expired, page, flags, view, watched, cache, change, crossed>>

(* A reload keeps the session and nothing else.                            *)
Reload ==
  /\ expired' = FALSE /\ flags' = FALSE /\ DrawnAnew /\ crossed' = FALSE
  /\ entry' = None /\ fetch' = None /\ change' = None /\ auth' = {}
  /\ UNCHANGED <<session, page, watched>>

---------------------------------------------------------------------------
(* Pages and what they ask for.                                            *)
Navigate(p) ==
  /\ SignedIn /\ p # page /\ session.role \in PageAt[p].roles
  /\ session.forced => p = ChangePasswordPage.name
  /\ page' = p /\ DrawnAnew
  /\ UNCHANGED <<session, expired, flags, watched, cache, change, auth, crossed>>

(* Whatever else the page shows changes, and it is drawn anew.             *)
Redraw ==
  /\ onshow # "cache" /\ onshow' = "cache"
  /\ UNCHANGED <<session, expired, page, flags, gate, watched, cache, change, auth, crossed>>

LearnFlags ==
  /\ Admitted /\ ~flags
  /\ (Current.gated /\ gate = "follows") \/ FeatureFlag \in Current.reads[session.role]
  /\ session.role \in FeatureFlag.route.roles
  /\ flags' = TRUE
  /\ UNCHANGED <<session, expired, page, view, watched, cache, change, auth, crossed>>

Asked == [role |-> session.role, own |-> TRUE, late |-> FALSE]

StartFetch ==
  /\ Watching /\ onshow = "cache" /\ fetch = None
  /\ session.role \in Watched.route.roles
  /\ fetch' = Asked
  /\ UNCHANGED <<session, expired, page, flags, view, watched, entry, change, auth, crossed>>

Answered ==
  /\ fetch # None
  /\ entry' = [role |-> fetch.role, own |-> fetch.own, valid |-> TRUE,
               behind |-> IF fetch.late THEN "overtaken" ELSE "no"]
  /\ fetch' = None
  /\ UNCHANGED <<session, expired, page, flags, view, watched, change, auth, crossed>>

FetchFails ==
  /\ fetch # None
  /\ fetch' = None
  /\ UNCHANGED <<session, expired, page, flags, view, watched, entry, change, auth, crossed>>

(* Of a change that does not tell the query, the page is remembered.       *)
Submit(c) ==
  /\ Mounted /\ change = None
  /\ session.role \in c.route.roles
  /\ change' = [own |-> TRUE, touches |-> Touches(c, Watched), tells |-> Tells(c, Watched),
                from |-> IF Tells(c, Watched) THEN Elsewhere.name ELSE page]
  /\ UNCHANGED <<session, expired, page, flags, view, watched, cache, auth, crossed>>

(* The answer of a change marks the entries it tells; one that is on the   *)
(* page is asked for again, and a request for it that is on its way starts *)
(* over, unless it is the first.                                           *)
Refetched == change.tells /\ Watching /\ onshow = "cache" /\ (entry # None \/ fetch = None)

Outdated(e) ==
  IF e = None THEN None ELSE
    [e EXCEPT !.valid = @ /\ ~change.tells,
              !.behind = IF ~(change.touches /\ change.own) THEN @
                         ELSE IF change.tells THEN "told" ELSE change.from]

ChangeAnswered ==
  /\ change # None
  /\ entry' = Outdated(entry)
  /\ IF Refetched
     THEN fetch' = IF session.role \in Watched.route.roles THEN Asked ELSE None
     ELSE \/ UNCHANGED fetch
          \/ /\ fetch # None /\ change.touches
             /\ fetch' = [fetch EXCEPT !.late = TRUE]
  /\ change' = None
  /\ UNCHANGED <<session, expired, page, flags, view, watched, auth, crossed>>

(* A change that fails, or whose answer is lost.                           *)
ChangeFails ==
  /\ change # None
  /\ change' = None
  /\ UNCHANGED <<session, expired, page, flags, view, watched, cache, auth, crossed>>

---------------------------------------------------------------------------
Settled ==
  /\ Watching /\ onshow = "cache" /\ ~crossed
  /\ entry # None /\ entry.own /\ entry.valid
  /\ fetch = None /\ change = None

(* The pages whose changes do not tell some of the keys that depend on     *)
(* them: what is read there stays as it was until it is asked for anew.    *)
MarkingPages == {"/attendance/record", "/admin/attendance/correction",
                 "/students/:studentId/attendance"}
LeavePages == {"/admin/leave", "/teacher/leave"}
EnrolmentPages == {"/manage/students", "/manage/classes", "/admin/students/new",
                   "/admin/sessions/:id/promote", "/admin/import"}
TimetablePages == {"/timetable", "/manage/school-periods", "/admin/sessions/:id"}
ClassKeys == {<<"attendance-monthly-sheet", "filters">>, <<"daily-summary", "filters">>,
              <<"streaks", "id">>, <<"toppers", "filters">>,
              <<"absentees", "filters">>, <<"attendance-summary", "filters">>}
AttendanceKeys == ClassKeys \cup {<<"student-attendance-summary", "id">>}
FeeKeys == {<<"fees", "charges", "filters">>, <<"fees", "summary", "filters">>}
StudentKeys == {<<"students">>, <<"students", "filters">>, <<"students", "list">>,
                <<"students", "count">>}

Forgotten == UNION {
  (MarkingPages \cup LeavePages) \X AttendanceKeys,
  LeavePages \X {<<"student-attendance", "id">>, <<"exams", "id", "results">>},
  EnrolmentPages \X (ClassKeys \cup FeeKeys \cup
                       {<<"leave", "filters">>, <<"students-list-picker">>}),
  {"/manage/users"} \X (StudentKeys \cup {<<"students-list-picker">>}),
  {"/admin/sessions/:id/promote", "/admin/import"} \X StudentKeys,
  {"/manage/students", "/admin/students/new", "/admin/import"} \X {<<"users", "filters">>},
  {"/admin/import"} \X {<<"import", "history">>},
  TimetablePages \X {<<"daily-summary", "filters">>},
  {"/admin/sessions/:id"} \X {<<"timetable", "filters">>},
  {"/admin/sessions", "/admin/sessions/:id"} \X {<<"academic-sessions">>},
  {"/teacher/leave"} \X {<<"exams", "id", "subjects", "id", "marks">>},
  {"/admin/exams/:examId"} \X {<<"exams", "filters">>, <<"exams", "id">>,
                               <<"exams", "id", "results">>},
  {"/teacher/exams/:examId/subjects/:subjectId/marks"} \X {<<"exams", "list">>, <<"exams", "id">>},
  {"/teacher/assignments"} \X {<<"assignments", "list">>},
  {"/admin/fees", "/admin/fees/bulk"} \X {<<"fees", "summary", "filters">>}}

(* Once nothing is on its way, what a page shows of the cache has the      *)
(* changes answered to this tab, or is known to be out of date.  Left out  *)
(* are the answers to a request that was on its way when a change was      *)
(* answered and is not made again, a cache that mixes the answers of two   *)
(* roles, and the keys that the changes of a page are known to forget.     *)
OwnChangesAreShown ==
  Settled => \/ entry.behind \in {"no", "overtaken"}
             \/ <<entry.behind, watched>> \in Forgotten

(* What a sign-in has in the cache was asked for by the role it acts in,   *)
(* however many switches are on their way and whatever answers late: but   *)
(* for a password changed in another role than it was sent in, which signs *)
(* that role in again and leaves the cache.                                *)
SwitchStartsAfresh ==
  SignedIn /\ ~crossed /\ entry # None /\ entry.own => entry.role = session.role

(* What a page asks for, the server answers the role that asks: but for    *)
(* the session by its id, which has no route, the exams a student lists,   *)
(* and the pages the router leaves open to a guardian.                     *)
Refused == {
  <<"/admin/sessions/:id", <<"sessions", "id">>, "Admin">>,
  <<"/student/dashboard", <<"exams", "list">>, "Student">>,
  <<"/student/results", <<"exams", "list">>, "Student">>,
  <<"/dashboard", <<"daily-summary", "filters">>, "Guardian">>,
  <<"/timetable", <<"daily-summary", "filters">>, "Guardian">>,
  <<"/dashboard", <<"events", "upcoming">>, "Guardian">>}

RequestsAreAdmitted ==
  Watching => \/ session.role \in Watched.route.roles
              \/ <<page, watched, session.role>> \in Refused

(* What these properties ask of the pages alone, whoever signs in and      *)
(* whatever order the answers come in: each page, for each role.           *)
ReadBy(r, k) ==
  \E path \in DOMAIN PageAt : r \in PageAt[path].roles /\ QueryFor[k] \in PageAt[path].reads[r]

ChangesAreTold ==
  \A r \in Everyone, k \in DOMAIN QueryFor, path \in DOMAIN PageAt :
    ReadBy(r, k) /\ r \in PageAt[path].roles =>
      \A c \in ChangesOf[k][path] :
        r \in c.route.roles /\ Touches(c, QueryFor[k]) =>
          Tells(c, QueryFor[k]) \/ <<path, k>> \in Forgotten

RequestsAreServed ==
  \A path \in DOMAIN PageAt : \A r \in PageAt[path].roles : \A q \in PageAt[path].reads[r] :
    r \in q.route.roles \/ <<path, q.key, r>> \in Refused

---------------------------------------------------------------------------
(* What the documents promise and the code does not keep, each refuted by  *)
(* an instance.                                                            *)

(* A page behind a FeatureGate learns the features whatever the role.      *)
GatesOpen ==
  Admitted /\ Current.gated => GateOpen \/ session.role \in FeatureFlag.route.roles

(* The cache never mixes what two roles have asked for.                    *)
RolesStayApart == SignedIn /\ entry # None /\ entry.own => entry.role = session.role

(* Once a switch has cleared the cache, no page shows what the other role  *)
(* has asked for.                                                          *)
ShownToTheRole == Watching => onshow \in {"cache", "nothing", session.role}

(* A page whose answer was dropped with the cache asks for it again.       *)
SwitchedPagesAskAgain == Watching => onshow # "nothing"

(* Charging a class refreshes the fees outstanding.                        *)
FeeSummaryIsTold ==
  Settled /\ watched = <<"fees", "summary", "filters">> => entry.behind # "/admin/fees/bulk"

(* The first answer of a query has the changes answered before it.         *)
LateAnswersAreFresh == Settled => entry.behind # "overtaken"

(* What a page shows was asked for by the user who is signed in.           *)
NothingOfTheUserBefore == Watching /\ entry # None /\ entry.valid => entry.own

(* Nobody is signed in but by signing in.                                  *)
SignedOutStaysOut == [][session = None /\ session' # None => \E u \in DOMAIN RolesOf : Login(u)]_tabVars

---------------------------------------------------------------------------
TabNext ==
  \/ \E u \in DOMAIN RolesOf : Login(u)
  \/ Logout \/ Expire \/ DismissExpired \/ Reload
  \/ (\E r \in Everyone : AskSwitch(r)) \/ AskPassword
  \/ \E q \in auth : SwitchAnswered(q) \/ PasswordAnswered(q) \/ AuthFails(q)
  \/ \E p \in RelevantTo[watched] : Navigate(p)
  \/ Redraw \/ LearnFlags \/ StartFetch \/ Answered \/ FetchFails
  \/ \E c \in ChangesOf[watched][page] : Submit(c)
  \/ ChangeAnswered \/ ChangeFails

TabSpec == TabInit /\ [][TabNext]_tabVars
=============================================================================
