-------------------------- MODULE AnnouncementPush --------------------------
(***************************************************************************)
(* Announcements and their push messages: the handlers of                  *)
(* modules/announcements and modules/push, the minutely job                *)
(* dispatchAnnouncementPush of services/cron.service.ts and the sending of *)
(* services/push.service.ts.                                               *)
(*                                                                         *)
(* The job marks what is due as pushed in one UPDATE and then sends, one   *)
(* announcement after the other, to all subscriptions of the audience at   *)
(* once.  Its timer does not wait for the run before, so runs overlap.     *)
(***************************************************************************)
EXTENDS Integers

CONSTANTS
  Announcements, \* ids
  Users,
  AudienceOf,    \* whom the query of an announcement's audience_type finds
  Subscriptions, \* push_subscriptions rows, by user and end point
  UserOf,        \* push_subscriptions.user_id
  Editors,       \* Admins and teachers, one update in flight each
  Admins,
  Runs,          \* bounds how many runs of the job overlap
  Texts,         \* title and body
  Expiries,      \* the expires_at editors choose from
  MaxTime,       \* bounds the clock
  MaxEdition,    \* bounds how often an announcement is armed again
  NoRow,         \* not created, or deleted
  Nothing        \* no update, or no announcement being sent

ASSUME BoundsAssumption == MaxTime \in Nat /\ MaxEdition \in Nat \ {0}

ASSUME UsersAssumption ==
  /\ AudienceOf \in [Announcements -> SUBSET Users]
  /\ UserOf \in [Subscriptions -> Users]

Times == 0 .. MaxTime

(* expires_at IS NULL                                                      *)
Never == MaxTime + 1

ASSUME ExpiriesAssumption == Expiries \subseteq Times \cup {Never}

Rows ==
  [text : Texts, publish : Times, expires : Expiries, sent : BOOLEAN, by : Editors]

ASSUME NamesAssumption == NoRow \notin Rows

(* What the UPDATE of the job returns, and how often the announcement had  *)
(* been armed then.                                                        *)
Items == [ann : Announcements, text : Texts, edition : 1 .. MaxEdition]

Updates ==
  [ann : Announcements, text : Texts, publish : Times, expires : Expiries,
   rearm : BOOLEAN]

ASSUME NothingAssumption == Nothing \notin Items \cup Updates

VARIABLES
  now,           \* the clock of server and database
  ann,           \* announcements
  edition,       \* how often push_sent became false
  update,        \* what an editor's request is about to write
  subs,          \* push_subscriptions
  gone,          \* the end points the push service has given up
  run,           \* the runs of the job
  shown          \* what the push service took for a subscription

annVars == <<ann, edition, update>>
pushVars == <<subs, gone>>
vars == <<now, annVars, pushVars, run, shown>>

(* sendPushNotification: at most this many calls of the push service.      *)
Attempts == 3

(* A run: what it claimed and has not begun, what it is sending, the users *)
(* whose subscriptions it has not read, and the attempts in flight.        *)
Quiet == [s \in Subscriptions |-> 0]

Idle == [todo |-> {}, item |-> Nothing, users |-> {}, sends |-> Quiet]

TypeOK ==
  /\ now \in Times
  /\ ann \in [Announcements -> Rows \cup {NoRow}]
  /\ edition \in [Announcements -> 0 .. MaxEdition]
  /\ update \in [Editors -> Updates \cup {Nothing}]
  /\ subs \subseteq Subscriptions
  /\ gone \subseteq Subscriptions
  /\ run \in [Runs -> [todo : SUBSET Items, item : Items \cup {Nothing},
                       users : SUBSET Users, sends : [Subscriptions -> 0 .. Attempts]]]
  /\ shown \in [Announcements \X (1 .. MaxEdition) \X Subscriptions -> Nat]

Init ==
  /\ now = 0
  /\ ann = [a \in Announcements |-> NoRow]
  /\ edition = [a \in Announcements |-> 0]
  /\ update = [e \in Editors |-> Nothing]
  /\ subs = {}
  /\ gone = {}
  /\ run = [r \in Runs |-> Idle]
  /\ shown = [x \in Announcements \X (1 .. MaxEdition) \X Subscriptions |-> 0]

Tick ==
  /\ now < MaxTime
  /\ now' = now + 1
  /\ UNCHANGED <<annVars, pushVars, run, shown>>

-----------------------------------------------------------------------------
(* POST /announcements, at any time of publication, past ones included.    *)
CreateAnnouncement(e, a, text, publish, expires) ==
  /\ edition[a] = 0
  /\ ann' = [ann EXCEPT ![a] = [text |-> text, publish |-> publish, expires |-> expires,
                                sent |-> FALSE, by |-> e]]
  /\ edition' = [edition EXCEPT ![a] = 1]
  /\ UNCHANGED <<now, update, pushVars, run, shown>>

MayEdit(e, a) == e \in Admins \/ ann[a].by = e

(* PUT /announcements/:id reads the row and decides, and writes by id all  *)
(* columns, those it was not asked to change as it read them.  The time is *)
(* compared as text, so one time spelt in two ways is a new one.           *)
(* A bug to detect: moved to another time, it is not armed again.          *)
StartUpdateUnarmed(e, a, text, publish, expires, respelt) ==
  /\ update[e] = Nothing
  /\ ann[a] # NoRow
  /\ MayEdit(e, a)
  /\ ann[a].publish >= now
  /\ update' = [update EXCEPT ![e] =
                  [ann |-> a, text |-> text, publish |-> publish, expires |-> expires,
                   rearm |-> FALSE]]
  /\ UNCHANGED <<now, ann, edition, pushVars, run, shown>>

StartUpdate(e, a, text, publish, expires, respelt) ==
  /\ update[e] = Nothing
  /\ ann[a] # NoRow
  /\ MayEdit(e, a)
  /\ ann[a].publish >= now
  /\ update' = [update EXCEPT ![e] =
                  [ann |-> a, text |-> text, publish |-> publish, expires |-> expires,
                   rearm |-> publish > now /\ (publish # ann[a].publish \/ respelt)]]
  /\ UNCHANGED <<now, ann, edition, pushVars, run, shown>>

WriteUpdate(e) ==
  /\ update[e] # Nothing
  /\ LET u == update[e]
         a == u.ann
         again == ann[a] # NoRow /\ u.rearm /\ ann[a].sent
     IN /\ again => edition[a] < MaxEdition
        /\ ann' = IF ann[a] = NoRow THEN ann
                  ELSE [ann EXCEPT ![a] = [text |-> u.text, publish |-> u.publish,
                                           expires |-> u.expires, by |-> ann[a].by,
                                           sent |-> ann[a].sent /\ ~ u.rearm]]
        /\ edition' = IF again THEN [edition EXCEPT ![a] = edition[a] + 1] ELSE edition
  /\ update' = [update EXCEPT ![e] = Nothing]
  /\ UNCHANGED <<now, pushVars, run, shown>>

DeleteAnnouncement(e, a) ==
  /\ ann[a] # NoRow
  /\ MayEdit(e, a)
  /\ ann' = [ann EXCEPT ![a] = NoRow]
  /\ UNCHANGED <<now, edition, update, pushVars, run, shown>>

-----------------------------------------------------------------------------
(* POST and DELETE /push/subscribe.  A browser whose end point is gone     *)
(* subscribes with another one.                                            *)
Subscribe(s) ==
  /\ s \notin gone
  /\ subs' = subs \cup {s}
  /\ UNCHANGED <<now, annVars, gone, run, shown>>

Unsubscribe(s) ==
  /\ subs' = subs \ {s}
  /\ UNCHANGED <<now, annVars, gone, run, shown>>

(* The push service gives up an end point.                                 *)
LoseEndpoint(s) ==
  /\ s \in subs \ gone
  /\ gone' = gone \cup {s}
  /\ UNCHANGED <<now, annVars, subs, run, shown>>

-----------------------------------------------------------------------------
(* The job: due announcements are claimed by an UPDATE that returns them.  *)
(* A bug to detect: what was pushed is pushed again.                       *)
DueOrSent(a) ==
  /\ ann[a] # NoRow
  /\ ann[a].publish <= now /\ now < ann[a].expires

Due(a) ==
  /\ ann[a] # NoRow
  /\ ann[a].publish <= now /\ now < ann[a].expires
  /\ ~ ann[a].sent

(* A bug to detect: what the job missed in its minute it never finds.      *)
ClaimDueNow(r) ==
  LET due == {a \in Announcements : Due(a) /\ ann[a].publish = now}
  IN /\ run[r] = Idle
     /\ due # {}
     /\ ann' = [a \in Announcements |->
                  IF a \in due THEN [ann[a] EXCEPT !.sent = TRUE] ELSE ann[a]]
     /\ run' = [run EXCEPT ![r].todo =
                  {[ann |-> a, text |-> ann[a].text, edition |-> edition[a]] : a \in due}]
     /\ UNCHANGED <<now, edition, update, pushVars, shown>>

ClaimDue(r) ==
  LET due == {a \in Announcements : Due(a)}
  IN /\ run[r] = Idle
     /\ due # {}
     /\ ann' = [a \in Announcements |->
                  IF a \in due THEN [ann[a] EXCEPT !.sent = TRUE] ELSE ann[a]]
     /\ run' = [run EXCEPT ![r].todo =
                  {[ann |-> a, text |-> ann[a].text, edition |-> edition[a]] : a \in due}]
     /\ UNCHANGED <<now, edition, update, pushVars, shown>>

(* The next announcement, in no promised order; the read of its audience   *)
(* may fail, and then it is passed over.                                   *)
TakeNext(r, x, found) ==
  /\ run[r].item = Nothing
  /\ x \in run[r].todo
  /\ run' = [run EXCEPT ![r].todo = run[r].todo \ {x},
                        ![r].item = IF found THEN x ELSE Nothing,
                        ![r].users = IF found THEN AudienceOf[x.ann] ELSE {}]
  /\ UNCHANGED <<now, annVars, pushVars, shown>>

(* A bug to detect: after a failed read the announcement is sent again.    *)
ReadSubscriptionsAgain(r, u, read) ==
  /\ u \in run[r].users
  /\ run' = [run EXCEPT
               ![r] = IF read
                        THEN [@ EXCEPT !.users = @ \ {u},
                                       !.sends = [s \in Subscriptions |->
                                          IF s \in subs /\ UserOf[s] = u THEN 1
                                          ELSE run[r].sends[s]]]
                        ELSE [@ EXCEPT !.todo = @ \cup {run[r].item},
                                       !.item = Nothing,
                                       !.users = {}]]
  /\ UNCHANGED <<now, annVars, pushVars, shown>>

(* sendPushToUser; this read may fail too.                                 *)
ReadSubscriptions(r, u, read) ==
  /\ u \in run[r].users
  /\ run' = [run EXCEPT
               ![r].users = run[r].users \ {u},
               ![r].sends = [s \in Subscriptions |->
                               IF read /\ s \in subs /\ UserOf[s] = u THEN 1
                               ELSE run[r].sends[s]]]
  /\ UNCHANGED <<now, annVars, pushVars, shown>>

(* sendPushNotification.                                                   *)
Sending(r, s) == run[r].sends[s] > 0

(* A bug to detect: attempts are not counted.                              *)
NextAttemptUncounted(n) == n + 1

NextAttempt(n) == IF n < Attempts THEN n + 1 ELSE 0

Show(r, s) ==
  shown' = [shown EXCEPT ![<<run[r].item.ann, run[r].item.edition, s>>] =
              shown[<<run[r].item.ann, run[r].item.edition, s>>] + 1]

SetSend(r, s, n) == run' = [run EXCEPT ![r].sends[s] = n]

Deliver(r, s) ==
  /\ Sending(r, s)
  /\ s \notin gone
  /\ Show(r, s)
  /\ SetSend(r, s, 0)
  /\ UNCHANGED <<now, annVars, pushVars>>

(* The message is taken, the answer is late or lost.                       *)
LoseAnswer(r, s) ==
  /\ Sending(r, s)
  /\ s \notin gone
  /\ Show(r, s)
  /\ SetSend(r, s, NextAttempt(run[r].sends[s]))
  /\ UNCHANGED <<now, annVars, pushVars>>

LoseMessage(r, s) ==
  /\ Sending(r, s)
  /\ SetSend(r, s, NextAttempt(run[r].sends[s]))
  /\ UNCHANGED <<now, annVars, pushVars, shown>>

(* 400 and 404 are not tried again.                                        *)
Refuse(r, s) ==
  /\ Sending(r, s)
  /\ SetSend(r, s, 0)
  /\ UNCHANGED <<now, annVars, pushVars, shown>>

(* 410 deletes the subscription, unless that fails.                        *)
DropGone(r, s, removed) ==
  /\ Sending(r, s)
  /\ s \in gone
  /\ subs' = IF removed THEN subs \ {s} ELSE subs
  /\ SetSend(r, s, 0)
  /\ UNCHANGED <<now, annVars, gone, shown>>

FinishItem(r) ==
  /\ run[r].item # Nothing
  /\ run[r].users = {} /\ run[r].sends = Quiet
  /\ run' = [run EXCEPT ![r].item = Nothing]
  /\ UNCHANGED <<now, annVars, pushVars, shown>>

(* The server stops, and starts again.                                     *)
Crash ==
  /\ run' = [r \in Runs |-> Idle]
  /\ update' = [e \in Editors |-> Nothing]
  /\ UNCHANGED <<now, ann, edition, pushVars, shown>>

-----------------------------------------------------------------------------
Edit ==
  \E e \in Editors :
    \/ \E a \in Announcements, text \in Texts, publish \in Times,
          expires \in Expiries :
         \/ CreateAnnouncement(e, a, text, publish, expires)
         \/ \E respelt \in BOOLEAN : StartUpdate(e, a, text, publish, expires, respelt)
    \/ WriteUpdate(e)
    \/ \E a \in Announcements : DeleteAnnouncement(e, a)

Endpoints == \E s \in Subscriptions : Subscribe(s) \/ Unsubscribe(s) \/ LoseEndpoint(s)

Attempt(r, s) ==
  \/ Deliver(r, s)
  \/ LoseAnswer(r, s)
  \/ LoseMessage(r, s)
  \/ Refuse(r, s)
  \/ \E removed \in BOOLEAN : DropGone(r, s, removed)

RunStep(r) ==
  \/ \E x \in run[r].todo, found \in BOOLEAN : TakeNext(r, x, found)
  \/ \E u \in Users, read \in BOOLEAN : ReadSubscriptions(r, u, read)
  \/ \E s \in Subscriptions : Attempt(r, s)
  \/ FinishItem(r)

Next ==
  \/ Tick
  \/ Edit
  \/ Endpoints
  \/ \E r \in Runs : ClaimDue(r) \/ RunStep(r)
  \/ Crash

Spec == Init /\ [][Next]_vars

(* The timer of the job goes on, some of its claims succeed, and a run in  *)
(* progress makes progress: every call it awaits answers or times out.     *)
Fairness ==
  /\ WF_vars(\E r \in Runs : ClaimDue(r))
  /\ \A r \in Runs : WF_vars(RunStep(r))

FairSpec == Spec /\ Fairness

-----------------------------------------------------------------------------
(* Any number of editors, one update between its read and its write.       *)
OneUpdate ==
  \A e, f \in Editors : update[e] # Nothing /\ update[f] # Nothing => e = f

(* Nobody is pushed an announcement he cannot open: what counts as pushed  *)
(* has been published.  updateAnnouncement lets nobody edit what has been  *)
(* published, but looks before it writes; what it moves into the future it *)
(* must arm again, also when the job claimed it in between.  It holds as   *)
(* long as one person edits at a time (OneUpdate).                         *)
PushedIsPublished ==
  \A a \in Announcements : ann[a] # NoRow /\ ann[a].sent => ann[a].publish <= now

(* However runs of the job overlap, messages and answers are lost and the  *)
(* announcement is moved, a subscription is sent an edition at most as     *)
(* often as sendPushNotification tries.                                    *)
ShownAtMostThrice ==
  \A x \in Announcements \X (1 .. MaxEdition) \X Subscriptions : shown[x] <= Attempts

(* What is due does not stay so: the job claims it although a run before   *)
(* may still be sending, or the minute may have been missed in a restart.  *)
DueArePushed == \A a \in Announcements : Due(a) ~> ~ Due(a)

(* A run ends, whatever the push service answers.                          *)
RunsEnd == \A r \in Runs : run[r] # Idle ~> run[r] = Idle

(* What has been published is edited no more ("Cannot edit an announcement *)
(* that has already been published").  An update that looked before the    *)
(* publication and writes after it breaks this.                            *)
PublishedStaysUnedited ==
  [][\A a \in Announcements :
       ann[a] # NoRow /\ ann[a].publish < now /\ ann'[a] # NoRow
         => ann'[a] = [ann[a] EXCEPT !.sent = ann'[a].sent]]_vars
=============================================================================
