----------------------- MODULE AnnouncementPush_proofs -----------------------
(***************************************************************************)
(* Proofs about AnnouncementPush, for any announcements, subscriptions,    *)
(* editors and overlapping runs.  PushInv is the inductive invariant: an   *)
(* edition of an announcement is held by one run at most, by none before   *)
(* it is marked as pushed, and a subscription has been sent it at most as  *)
(* often as the run that holds it has tried.  EditInv adds, for one update *)
(* in flight, that what it does not arm again keeps a time that has come.  *)
(*                                                                         *)
(* The last part is about Portal, whose names these modules share none of: *)
(* a tab with any pages and any users.  TabInv says that what the user of  *)
(* a tab has asked for since the last sign-in or switch of role was asked  *)
(* for in the role of now.                                                 *)
(***************************************************************************)
EXTENDS AnnouncementPush, Portal, TLAPS

(* Only a run that sends has users or attempts.                            *)
RunsAreShaped ==
  \A r \in Runs : run[r].item = Nothing => run[r].users = {} /\ run[r].sends = Quiet

CreatedAreArmed == \A a \in Announcements : ann[a] # NoRow => edition[a] > 0

Holds(r, x) == x \in run[r].todo \/ x = run[r].item

(* What a run holds was armed, and if not since then, is marked as pushed. *)
ClaimsAreRecorded ==
  \A r \in Runs, x \in Items : Holds(r, x) =>
    /\ x.edition <= edition[x.ann]
    /\ x.edition = edition[x.ann] => ann[x.ann] = NoRow \/ ann[x.ann].sent

ClaimsExclude ==
  /\ \A r, q \in Runs, x, y \in Items :
       Holds(r, x) /\ Holds(q, y) /\ x.ann = y.ann /\ x.edition = y.edition
         => r = q /\ x = y
  /\ \A r \in Runs : run[r].item \notin run[r].todo

(* Editions nobody can have claimed yet.                                   *)
Unclaimed(a, k) == k > edition[a] \/ (k = edition[a] /\ ann[a] # NoRow /\ ~ ann[a].sent)

UnclaimedAreUnshown ==
  \A a \in Announcements, k \in 1 .. MaxEdition, s \in Subscriptions :
    Unclaimed(a, k) => shown[<<a, k, s>>] = 0

WaitingAreUnshown ==
  \A r \in Runs : \A x \in run[r].todo : \A s \in Subscriptions :
    shown[<<x.ann, x.edition, s>>] = 0

SendingIsCounted ==
  \A r \in Runs, s \in Subscriptions, x \in Items : run[r].item = x =>
    /\ UserOf[s] \in run[r].users => shown[<<x.ann, x.edition, s>>] = 0
    /\ run[r].sends[s] > 0 =>
         UserOf[s] \notin run[r].users /\ shown[<<x.ann, x.edition, s>>] < run[r].sends[s]

PushInv ==
  /\ TypeOK
  /\ RunsAreShaped
  /\ CreatedAreArmed
  /\ ClaimsAreRecorded
  /\ ClaimsExclude
  /\ UnclaimedAreUnshown
  /\ WaitingAreUnshown
  /\ SendingIsCounted
  /\ ShownAtMostThrice

LEMMA InvInit == Init => PushInv
<1> SUFFICES ASSUME Init PROVE PushInv
  OBVIOUS
<1>1. TypeOK
  BY BoundsAssumption DEF Init, TypeOK, Times, Idle, Quiet, Attempts
<1>2. RunsAreShaped /\ CreatedAreArmed
  BY DEF Init, Idle, RunsAreShaped, CreatedAreArmed
<1>3. \A r \in Runs, x \in Items : ~ Holds(r, x)
  BY NothingAssumption DEF Init, Idle, Holds
<1>4. ClaimsAreRecorded /\ ClaimsExclude
  BY <1>3 DEF ClaimsAreRecorded, ClaimsExclude, Init, Idle
<1>5. UnclaimedAreUnshown /\ WaitingAreUnshown /\ ShownAtMostThrice
  BY DEF Init, Idle, UnclaimedAreUnshown, WaitingAreUnshown, ShownAtMostThrice, Attempts
<1>6. SendingIsCounted
  BY NothingAssumption DEF Init, Idle, SendingIsCounted
<1> QED
  BY <1>1, <1>2, <1>4, <1>5, <1>6 DEF PushInv

-----------------------------------------------------------------------------
(* An attempt on a subscription: it was sent less than tried before, and   *)
(* what is in flight afterwards is the next attempt or none.               *)
LEMMA NextAttemptGrows ==
  ASSUME NEW n \in 1 .. Attempts
  PROVE  /\ NextAttempt(n) \in 0 .. Attempts
         /\ NextAttempt(n) > 0 => NextAttempt(n) = n + 1
  BY DEF NextAttempt, Attempts

LEMMA SendingHasItem ==
  ASSUME TypeOK, RunsAreShaped, NEW r \in Runs, NEW s \in Subscriptions, Sending(r, s)
  PROVE  /\ run[r].item \in Items
         /\ run[r].sends[s] \in 1 .. Attempts
<1>1. run[r].item # Nothing
  BY DEF RunsAreShaped, Sending, Quiet
<1>2. run[r].item \in Items \cup {Nothing} /\ run[r].sends \in [Subscriptions -> 0 .. Attempts]
  BY DEF TypeOK
<1> QED
  BY <1>1, <1>2 DEF Sending, Attempts

(* What editors do to a row: they arm a new edition, or delete it, or      *)
(* leave it marked as it was, or nobody had claimed it.                    *)
RowKept(a) ==
  /\ edition'[a] \in Nat /\ edition'[a] >= edition[a]
  /\ ann'[a] # NoRow => edition'[a] > 0
  /\ edition'[a] = edition[a] =>
       \/ ann'[a] = NoRow
       \/ ann[a] # NoRow /\ (ann'[a].sent = ann[a].sent \/ ~ ann[a].sent)

LEMMA RowStep ==
  ASSUME PushInv, TypeOK', UNCHANGED <<run, shown>>,
         \A a \in Announcements : RowKept(a)
  PROVE  PushInv'
<1> USE DEF PushInv
<1>1. \A r \in Runs, x \in Items : Holds(r, x)' <=> Holds(r, x)
  BY DEF Holds
<1>2. \A a \in Announcements : edition[a] \in Nat
  BY DEF TypeOK
<1>3. RunsAreShaped' /\ CreatedAreArmed'
  BY DEF RunsAreShaped, CreatedAreArmed, RowKept
<1>4. ClaimsAreRecorded'
  <2> SUFFICES ASSUME NEW r \in Runs, NEW x \in Items, Holds(r, x)
               PROVE  /\ x.edition <= edition'[x.ann]
                      /\ x.edition = edition'[x.ann] => ann'[x.ann] = NoRow \/ ann'[x.ann].sent
    BY <1>1 DEF ClaimsAreRecorded
  <2>1. /\ x.edition <= edition[x.ann]
        /\ x.edition = edition[x.ann] => ann[x.ann] = NoRow \/ ann[x.ann].sent
    BY DEF ClaimsAreRecorded
  <2>2. x.ann \in Announcements /\ x.edition \in Nat
    BY DEF Items
  <2> QED
    BY <1>2, <2>1, <2>2 DEF RowKept
<1>5. ClaimsExclude'
  BY <1>1 DEF ClaimsExclude
<1>6. \A a \in Announcements, k \in 1 .. MaxEdition : Unclaimed(a, k)' => Unclaimed(a, k)
  BY <1>2 DEF Unclaimed, RowKept
<1>7. UnclaimedAreUnshown' /\ WaitingAreUnshown' /\ SendingIsCounted' /\ ShownAtMostThrice'
  BY <1>6 DEF UnclaimedAreUnshown, WaitingAreUnshown, SendingIsCounted, ShownAtMostThrice
<1> QED
  BY <1>3, <1>4, <1>5, <1>7

LEMMA CreateStep ==
  ASSUME PushInv, NEW e \in Editors, NEW a \in Announcements, NEW text \in Texts,
         NEW publish \in Times, NEW expires \in Expiries,
         CreateAnnouncement(e, a, text, publish, expires)
  PROVE  PushInv'
<1> USE DEF PushInv
<1>1. [text |-> text, publish |-> publish, expires |-> expires, sent |-> FALSE, by |-> e]
        \in Rows
  BY DEF Rows
<1>2. TypeOK'
  BY <1>1, BoundsAssumption DEF TypeOK, CreateAnnouncement, pushVars
<1>3. \A b \in Announcements : edition[b] \in Nat
  BY DEF TypeOK
<1>4. \A b \in Announcements : RowKept(b)
  <2> SUFFICES ASSUME NEW b \in Announcements PROVE RowKept(b)
    OBVIOUS
  <2>1. edition[b] \in Nat
    BY <1>3
  <2>2. CASE b = a
    <3>1. edition[b] = 0 /\ edition'[b] = 1
      BY <2>2 DEF TypeOK, CreateAnnouncement
    <3> QED
      BY <3>1 DEF RowKept
  <2>3. CASE b # a
    <3>1. edition'[b] = edition[b] /\ ann'[b] = ann[b]
      BY <2>3 DEF TypeOK, CreateAnnouncement
    <3> QED
      BY <2>1, <3>1 DEF RowKept, CreatedAreArmed
  <2> QED
    BY <2>2, <2>3
<1>5. UNCHANGED <<run, shown>>
  BY DEF CreateAnnouncement
<1> QED
  BY <1>2, <1>4, <1>5, RowStep

LEMMA UpdateStep ==
  ASSUME PushInv, NEW e \in Editors, NEW a \in Announcements, NEW text \in Texts,
         NEW publish \in Times, NEW expires \in Expiries, NEW respelt \in BOOLEAN,
         StartUpdate(e, a, text, publish, expires, respelt)
  PROVE  PushInv'
<1> USE DEF PushInv
<1> DEFINE u == [ann |-> a, text |-> text, publish |-> publish, expires |-> expires,
                 rearm |-> publish > now /\ (publish # ann[a].publish \/ respelt)]
<1>1. u \in Updates
  BY DEF Updates
<1>2. update' = [update EXCEPT ![e] = u]
  BY DEF StartUpdate
<1>3. TypeOK'
  <2> HIDE DEF u
  <2> QED
    BY <1>1, <1>2 DEF TypeOK, StartUpdate, pushVars
<1>4. UNCHANGED <<ann, edition, run, shown>>
  BY DEF StartUpdate
<1>5. \A b \in Announcements : RowKept(b)
  BY <1>4 DEF TypeOK, CreatedAreArmed, RowKept
<1> QED
  BY <1>3, <1>4, <1>5, RowStep

LEMMA DeleteStep ==
  ASSUME PushInv, NEW e \in Editors, NEW a \in Announcements, DeleteAnnouncement(e, a)
  PROVE  PushInv'
<1> USE DEF PushInv
<1>1. TypeOK'
  BY DEF TypeOK, DeleteAnnouncement, pushVars
<1>2. \A b \in Announcements : RowKept(b)
  BY DEF TypeOK, DeleteAnnouncement, CreatedAreArmed, RowKept
<1>3. UNCHANGED <<run, shown>>
  BY DEF DeleteAnnouncement
<1> QED
  BY <1>1, <1>2, <1>3, RowStep

LEMMA WriteStep ==
  ASSUME PushInv, NEW e \in Editors, WriteUpdate(e)
  PROVE  PushInv'
<1> USE DEF PushInv
<1> DEFINE u == update[e]
           a == u.ann
           again == ann[a] # NoRow /\ u.rearm /\ ann[a].sent
           row == [text |-> u.text, publish |-> u.publish, expires |-> u.expires,
                   by |-> ann[a].by, sent |-> ann[a].sent /\ ~ u.rearm]
<1>1. u \in Updates
  BY DEF WriteUpdate, TypeOK
<1>2. a \in Announcements /\ u.rearm \in BOOLEAN
  BY <1>1 DEF Updates
<1>3. /\ again => edition[a] < MaxEdition
      /\ ann' = IF ann[a] = NoRow THEN ann ELSE [ann EXCEPT ![a] = row]
      /\ edition' = IF again THEN [edition EXCEPT ![a] = edition[a] + 1] ELSE edition
      /\ update' = [update EXCEPT ![e] = Nothing]
      /\ UNCHANGED <<now, pushVars, run, shown>>
  BY DEF WriteUpdate
<1>4. ann[a] # NoRow => row \in Rows /\ ann[a] \in Rows
  BY <1>1, <1>2 DEF TypeOK, Rows, Updates
<1>5. edition' \in [Announcements -> 0 .. MaxEdition]
  BY <1>2, <1>3, BoundsAssumption DEF TypeOK
<1>6. TypeOK'
  <2>1. ann' \in [Announcements -> Rows \cup {NoRow}]
    <3> HIDE DEF row, a
    <3> QED
      BY <1>2, <1>3, <1>4 DEF TypeOK
  <2> QED
    BY <1>3, <1>5, <2>1 DEF TypeOK, pushVars
<1>7. /\ row.sent = (ann[a].sent /\ ~ u.rearm)
      /\ ann[a] # NoRow => ann[a].sent \in BOOLEAN /\ row # NoRow
  BY <1>4, NamesAssumption DEF Rows
<1>8. ASSUME NEW b \in Announcements
      PROVE  RowKept(b)
  <2>1. edition[b] \in Nat
    BY DEF TypeOK
  <2>2. CASE b # a
    BY <1>2, <1>3, <2>1, <2>2 DEF TypeOK, CreatedAreArmed, RowKept
  <2>3. CASE b = a /\ ann[a] = NoRow
    BY <1>2, <1>3, <2>1, <2>3 DEF RowKept
  <2>4. CASE b = a /\ ann[a] # NoRow
    <3>1. ann'[a] = row
      <4> HIDE DEF row
      <4> QED
        BY <1>2, <1>3, <2>4 DEF TypeOK
    <3>2. edition[a] > 0
      BY <1>2, <2>4 DEF CreatedAreArmed
    <3>3. CASE again
      <4>1. edition'[a] = edition[a] + 1
        BY <1>2, <1>3, <3>3 DEF TypeOK
      <4> QED
        BY <2>1, <2>4, <3>2, <4>1 DEF RowKept
    <3>4. CASE ~ again
      <4>1. edition' = edition
        BY <1>3, <3>4
      <4>2. row.sent = ann[a].sent \/ ~ ann[a].sent
        BY <1>2, <1>7, <2>4, <3>4
      <4> QED
        BY <2>1, <2>4, <3>1, <3>2, <4>1, <4>2 DEF RowKept
    <3> QED
      BY <3>3, <3>4
  <2> QED
    BY <2>2, <2>3, <2>4
<1> QED
  BY <1>3, <1>6, <1>8, RowStep

-----------------------------------------------------------------------------
(* The items of a run.                                                     *)
LEMMA RunFields ==
  ASSUME TypeOK, NEW r \in Runs
  PROVE  /\ run[r].todo \in SUBSET Items /\ run[r].item \in Items \cup {Nothing}
         /\ run[r].users \in SUBSET Users
         /\ run[r].sends \in [Subscriptions -> 0 .. Attempts]
  BY DEF TypeOK

LEMMA ItemFields ==
  ASSUME NEW x \in Items
  PROVE  x.ann \in Announcements /\ x.edition \in 1 .. MaxEdition /\ x # Nothing
  BY NothingAssumption DEF Items

(* What is claimed was due, so no run held this edition of it.             *)
LEMMA ClaimStep ==
  ASSUME PushInv, NEW r \in Runs, ClaimDue(r)
  PROVE  PushInv'
<1> USE DEF PushInv
<1> DEFINE due == {a \in Announcements : Due(a)}
           claimed == {[ann |-> a, text |-> ann[a].text, edition |-> edition[a]] : a \in due}
           marked == [a \in Announcements |->
                        IF a \in due THEN [ann[a] EXCEPT !.sent = TRUE] ELSE ann[a]]
<1>1. /\ run[r] = Idle
      /\ ann' = marked
      /\ run' = [run EXCEPT ![r].todo = claimed]
      /\ UNCHANGED <<now, edition, update, pushVars, shown>>
  BY DEF ClaimDue
<1>2. \A a \in due : ann[a] \in Rows /\ ~ ann[a].sent /\ ann[a] # NoRow
                     /\ edition[a] \in 1 .. MaxEdition
  <2> SUFFICES ASSUME NEW a \in due
               PROVE  ann[a] \in Rows /\ ~ ann[a].sent /\ ann[a] # NoRow
                      /\ edition[a] \in 1 .. MaxEdition
    OBVIOUS
  <2>1. ann[a] # NoRow /\ ~ ann[a].sent /\ a \in Announcements
    BY DEF Due
  <2>2. ann[a] \in Rows
    BY <2>1 DEF TypeOK
  <2>3. edition[a] \in 0 .. MaxEdition /\ edition[a] > 0
    BY <2>1 DEF TypeOK, CreatedAreArmed
  <2> QED
    BY <2>1, <2>2, <2>3
<1>3. claimed \in SUBSET Items
  <2> SUFFICES ASSUME NEW a \in due
               PROVE  [ann |-> a, text |-> ann[a].text, edition |-> edition[a]] \in Items
    OBVIOUS
  <2>1. ann[a].text \in Texts
    BY <1>2 DEF Rows
  <2> QED
    BY <1>2, <2>1 DEF Items
<1>4. \A x \in claimed : x.ann \in due /\ x.edition = edition[x.ann]
  OBVIOUS
<1>5. \A x, y \in claimed : x.ann = y.ann => x = y
  OBVIOUS
<1>6. \A a \in Announcements :
        /\ a \in due => ann'[a] # NoRow /\ ann'[a].sent
        /\ a \notin due => ann'[a] = ann[a]
        /\ ann'[a] \in Rows \cup {NoRow}
  <2> SUFFICES ASSUME NEW a \in Announcements
               PROVE  /\ a \in due => ann'[a] # NoRow /\ ann'[a].sent
                      /\ a \notin due => ann'[a] = ann[a]
                      /\ ann'[a] \in Rows \cup {NoRow}
    OBVIOUS
  <2>1. CASE a \in due
    <3>1. ann'[a] = [ann[a] EXCEPT !.sent = TRUE]
      BY <1>1, <2>1
    <3>2. ann'[a] \in Rows /\ ann'[a].sent
      BY <1>2, <2>1, <3>1 DEF Rows
    <3> QED
      BY <2>1, <3>2, NamesAssumption
  <2>2. CASE a \notin due
    BY <1>1, <2>2 DEF TypeOK
  <2> QED
    BY <2>1, <2>2
<1> HIDE DEF due, claimed, marked
<1>7. /\ run'[r].todo = claimed
      /\ run'[r].item = Nothing /\ run'[r].users = {} /\ run'[r].sends = Quiet
      /\ \A q \in Runs \ {r} : run'[q] = run[q]
  BY <1>1 DEF TypeOK, Idle
<1>8. TypeOK'
  <2>1. ann' \in [Announcements -> Rows \cup {NoRow}]
    <3>1. DOMAIN ann' = Announcements /\ ann' = [a \in Announcements |-> ann'[a]]
      BY <1>1 DEF marked
    <3> QED
      BY <1>6, <3>1
  <2>2. [Idle EXCEPT !.todo = claimed]
          \in [todo : SUBSET Items, item : Items \cup {Nothing},
               users : SUBSET Users, sends : [Subscriptions -> 0 .. Attempts]]
    BY <1>3 DEF Idle, Quiet, Attempts
  <2>3. run' = [run EXCEPT ![r] = [Idle EXCEPT !.todo = claimed]]
    BY <1>1
  <2> QED
    BY <1>1, <2>1, <2>2, <2>3 DEF TypeOK, pushVars
<1>9. \A q \in Runs, x \in Items : Holds(q, x)' <=> (q = r /\ x \in claimed) \/ (q # r /\ Holds(q, x))
  BY <1>1, <1>7, ItemFields DEF Holds, Idle
<1>10. \A q \in Runs, x \in Items : Holds(q, x) /\ x.ann \in due => x.edition # edition[x.ann]
  BY <1>2, ItemFields DEF ClaimsAreRecorded
<1>11. RunsAreShaped' /\ CreatedAreArmed'
  <2>1. RunsAreShaped'
    BY <1>7 DEF RunsAreShaped
  <2>2. CreatedAreArmed'
    BY <1>1, <1>2, <1>6 DEF CreatedAreArmed, TypeOK
  <2> QED
    BY <2>1, <2>2
<1>12. ClaimsAreRecorded'
  <2> SUFFICES ASSUME NEW q \in Runs, NEW x \in Items, Holds(q, x)'
               PROVE  /\ x.edition <= edition[x.ann]
                      /\ x.edition = edition[x.ann] => ann'[x.ann] = NoRow \/ ann'[x.ann].sent
    BY <1>1 DEF ClaimsAreRecorded
  <2>1. x.ann \in Announcements /\ edition[x.ann] \in Nat /\ x.edition \in Nat
    BY ItemFields DEF TypeOK
  <2>2. CASE x \in claimed
    BY <1>4, <1>6, <2>1, <2>2
  <2>3. CASE Holds(q, x)
    BY <1>6, <2>1, <2>3 DEF ClaimsAreRecorded
  <2> QED
    BY <1>9, <2>2, <2>3
<1>13. ClaimsExclude'
  <2>1. ASSUME NEW q1 \in Runs, NEW q2 \in Runs, NEW x \in Items, NEW y \in Items,
               Holds(q1, x)', Holds(q2, y)', x.ann = y.ann, x.edition = y.edition
        PROVE  q1 = q2 /\ x = y
    BY <1>4, <1>5, <1>9, <1>10, <2>1 DEF ClaimsExclude
  <2>2. ASSUME NEW q \in Runs PROVE run'[q].item \notin run'[q].todo
    BY <1>3, <1>7, ItemFields DEF ClaimsExclude
  <2> QED
    BY <2>1, <2>2 DEF ClaimsExclude, Holds
<1>14. \A a \in Announcements, k \in 1 .. MaxEdition : Unclaimed(a, k)' => Unclaimed(a, k)
  BY <1>1, <1>6 DEF Unclaimed
<1>15. UnclaimedAreUnshown' /\ ShownAtMostThrice'
  BY <1>1, <1>14 DEF UnclaimedAreUnshown, ShownAtMostThrice
<1>16. WaitingAreUnshown'
  <2> SUFFICES ASSUME NEW q \in Runs, NEW x \in run'[q].todo, NEW s \in Subscriptions
               PROVE  shown[<<x.ann, x.edition, s>>] = 0
    BY <1>1 DEF WaitingAreUnshown
  <2>1. CASE q = r
    <3>1. x \in claimed /\ x \in Items
      BY <1>3, <1>7, <2>1
    <3>2. Unclaimed(x.ann, x.edition)
      BY <1>2, <1>4, <3>1 DEF Unclaimed
    <3> QED
      BY <3>1, <3>2, ItemFields DEF UnclaimedAreUnshown
  <2>2. CASE q # r
    BY <1>7, <2>2 DEF WaitingAreUnshown
  <2> QED
    BY <2>1, <2>2
<1>17. SendingIsCounted'
  BY <1>1, <1>7, ItemFields DEF SendingIsCounted
<1> QED
  BY <1>8, <1>11, <1>12, <1>13, <1>15, <1>16, <1>17

-----------------------------------------------------------------------------
(* A run goes on with what it holds.                                       *)
States ==
  [todo : SUBSET Items, item : Items \cup {Nothing}, users : SUBSET Users,
   sends : [Subscriptions -> 0 .. Attempts]]

LEMMA HoldStep ==
  ASSUME PushInv, NEW r \in Runs, NEW new \in States,
         run' = [run EXCEPT ![r] = new],
         UNCHANGED <<ann, edition>>,
         new.todo \subseteq run[r].todo,
         new.item = Nothing => new.users = {} /\ new.sends = Quiet,
         new.item # Nothing => Holds(r, new.item) /\ new.item \notin new.todo
  PROVE  /\ run' \in [Runs -> States]
         /\ run'[r] = new /\ \A q \in Runs \ {r} : run'[q] = run[q]
         /\ RunsAreShaped' /\ CreatedAreArmed' /\ ClaimsAreRecorded' /\ ClaimsExclude'
         /\ \A q \in Runs, x \in Items : Holds(q, x)' => Holds(q, x)
<1> USE DEF PushInv
<1>1. run \in [Runs -> States]
  BY DEF TypeOK, States
<1>2. /\ run' \in [Runs -> States]
      /\ run'[r] = new /\ \A q \in Runs \ {r} : run'[q] = run[q]
  BY <1>1
<1>3. \A q \in Runs, x \in Items : Holds(q, x)' => Holds(q, x)
  BY <1>2, ItemFields DEF Holds
<1>4. RunsAreShaped' /\ CreatedAreArmed'
  BY <1>2 DEF RunsAreShaped, CreatedAreArmed
<1>5. ClaimsAreRecorded'
  BY <1>3 DEF ClaimsAreRecorded
<1>6. ClaimsExclude'
  <2>1. ASSUME NEW q \in Runs
        PROVE  run'[q].item \notin run'[q].todo
    <3>1. Nothing \notin new.todo
      BY NothingAssumption DEF States
    <3> QED
      BY <1>2, <3>1 DEF ClaimsExclude
  <2> QED
    BY <1>3, <2>1 DEF ClaimsExclude
<1> QED
  BY <1>2, <1>3, <1>4, <1>5, <1>6

(* A step of a run that sends nothing.                                     *)
LEMMA SilentStep ==
  ASSUME PushInv, NEW r \in Runs, NEW new \in States,
         run' = [run EXCEPT ![r] = new],
         UNCHANGED <<now, ann, edition, update, gone, shown>>,
         subs' \subseteq Subscriptions,
         new.todo \subseteq run[r].todo,
         new.item = Nothing => new.users = {} /\ new.sends = Quiet,
         new.item # Nothing => Holds(r, new.item) /\ new.item \notin new.todo,
         \A x \in Items, s \in Subscriptions : new.item = x =>
           /\ UserOf[s] \in new.users => shown[<<x.ann, x.edition, s>>] = 0
           /\ new.sends[s] > 0 =>
                UserOf[s] \notin new.users /\ shown[<<x.ann, x.edition, s>>] < new.sends[s]
  PROVE  PushInv'
<1>1. /\ run' \in [Runs -> States]
      /\ run'[r] = new /\ \A q \in Runs \ {r} : run'[q] = run[q]
      /\ RunsAreShaped' /\ CreatedAreArmed' /\ ClaimsAreRecorded' /\ ClaimsExclude'
  BY HoldStep
<1>2. TypeOK'
  BY <1>1 DEF PushInv, TypeOK, States
<1>3. UnclaimedAreUnshown' /\ ShownAtMostThrice'
  BY DEF PushInv, UnclaimedAreUnshown, Unclaimed, ShownAtMostThrice
<1>4. WaitingAreUnshown'
  <2>1. \A q \in Runs : run'[q].todo \subseteq run[q].todo
    BY <1>1
  <2> QED
    BY <2>1 DEF PushInv, WaitingAreUnshown
<1>5. SendingIsCounted'
  BY <1>1 DEF PushInv, SendingIsCounted
<1> QED
  BY <1>1, <1>2, <1>3, <1>4, <1>5 DEF PushInv

LEMMA TakeStep ==
  ASSUME PushInv, NEW r \in Runs, NEW x \in run[r].todo, NEW found \in BOOLEAN,
         TakeNext(r, x, found)
  PROVE  PushInv'
<1> USE DEF PushInv
<1> DEFINE new == [run[r] EXCEPT !.todo = run[r].todo \ {x},
                                 !.item = IF found THEN x ELSE Nothing,
                                 !.users = IF found THEN AudienceOf[x.ann] ELSE {}]
<1>1. run[r] \in States /\ x \in Items
  BY DEF TypeOK, States
<1>2. x.ann \in Announcements /\ x # Nothing
  BY <1>1, ItemFields
<1>3. run[r].item = Nothing /\ run[r].sends = Quiet
  BY DEF TakeNext, RunsAreShaped
<1>4. /\ new \in States
      /\ new.todo = run[r].todo \ {x}
      /\ new.item = IF found THEN x ELSE Nothing
      /\ new.users = IF found THEN AudienceOf[x.ann] ELSE {}
      /\ new.sends = Quiet
  BY <1>1, <1>2, <1>3, UsersAssumption DEF States
<1>5. run' = [run EXCEPT ![r] = new]
  BY DEF TakeNext, TypeOK
<1>6. UNCHANGED <<now, ann, edition, update, gone, shown>> /\ subs' \subseteq Subscriptions
  BY DEF TakeNext, TypeOK, annVars, pushVars
<1>7. \A y \in Items, s \in Subscriptions : new.item = y =>
        /\ UserOf[s] \in new.users => shown[<<y.ann, y.edition, s>>] = 0
        /\ new.sends[s] > 0 =>
             UserOf[s] \notin new.users /\ shown[<<y.ann, y.edition, s>>] < new.sends[s]
  BY <1>2, <1>4, ItemFields DEF WaitingAreUnshown, Quiet
<1> HIDE DEF new
<1> QED
  BY <1>2, <1>4, <1>5, <1>6, <1>7, SilentStep DEF Holds

LEMMA ReadStep ==
  ASSUME PushInv, NEW r \in Runs, NEW u \in Users, NEW read \in BOOLEAN,
         ReadSubscriptions(r, u, read)
  PROVE  PushInv'
<1> USE DEF PushInv
<1> DEFINE started == [s \in Subscriptions |->
                         IF read /\ s \in subs /\ UserOf[s] = u THEN 1 ELSE run[r].sends[s]]
           new == [run[r] EXCEPT !.users = run[r].users \ {u}, !.sends = started]
<1>1. run[r] \in States
  BY DEF TypeOK, States
<1>2. started \in [Subscriptions -> 0 .. Attempts]
  BY <1>1 DEF States, Attempts
<1>3. /\ new \in States
      /\ new.todo = run[r].todo /\ new.item = run[r].item
      /\ new.users = run[r].users \ {u} /\ new.sends = started
  <2> HIDE DEF started
  <2> QED
    BY <1>1, <1>2 DEF States
<1>4. run' = [run EXCEPT ![r] = new]
  BY DEF ReadSubscriptions, TypeOK
<1>5. UNCHANGED <<now, ann, edition, update, gone, shown>> /\ subs' \subseteq Subscriptions
  BY DEF ReadSubscriptions, TypeOK, annVars, pushVars
<1>6. u \in run[r].users /\ run[r].item # Nothing
  BY DEF ReadSubscriptions, RunsAreShaped
<1>7. \A x \in Items, s \in Subscriptions : new.item = x =>
        /\ UserOf[s] \in new.users => shown[<<x.ann, x.edition, s>>] = 0
        /\ new.sends[s] > 0 =>
             UserOf[s] \notin new.users /\ shown[<<x.ann, x.edition, s>>] < new.sends[s]
  BY <1>3, <1>6 DEF SendingIsCounted
<1>8. new.item \notin new.todo
  BY <1>3 DEF ClaimsExclude
<1> HIDE DEF new
<1> QED
  BY <1>3, <1>4, <1>5, <1>6, <1>7, <1>8, SilentStep DEF Holds

LEMMA FinishStep ==
  ASSUME PushInv, NEW r \in Runs, FinishItem(r)
  PROVE  PushInv'
<1> USE DEF PushInv
<1> DEFINE new == [run[r] EXCEPT !.item = Nothing]
<1>1. run[r] \in States
  BY DEF TypeOK, States
<1>2. /\ new \in States
      /\ new.todo = run[r].todo /\ new.item = Nothing
      /\ new.users = {} /\ new.sends = Quiet
  BY <1>1 DEF States, FinishItem
<1>3. run' = [run EXCEPT ![r] = new]
  BY DEF FinishItem, TypeOK
<1>4. UNCHANGED <<now, ann, edition, update, gone, shown>> /\ subs' \subseteq Subscriptions
  BY DEF FinishItem, TypeOK, annVars, pushVars
<1>5. \A x \in Items : new.item # x
  BY <1>2, ItemFields
<1> HIDE DEF new
<1> QED
  BY <1>2, <1>3, <1>4, <1>5, SilentStep

-----------------------------------------------------------------------------
(* What an attempt leaves in flight: nothing, or the next attempt.         *)
LEMMA SetSendStep ==
  ASSUME PushInv, NEW r \in Runs, NEW s \in Subscriptions, Sending(r, s),
         NEW n \in {0, NextAttempt(run[r].sends[s])}, SetSend(r, s, n)
  PROVE  \E new \in States :
           /\ run' = [run EXCEPT ![r] = new]
           /\ new.todo = run[r].todo /\ new.item = run[r].item
           /\ new.users = run[r].users
           /\ new.sends[s] = n
           /\ \A other \in Subscriptions \ {s} : new.sends[other] = run[r].sends[other]
           /\ new.item \in Items /\ Holds(r, new.item) /\ new.item \notin new.todo
           /\ n > 0 => n = run[r].sends[s] + 1
<1> USE DEF PushInv
<1> DEFINE new == [run[r] EXCEPT !.sends = [run[r].sends EXCEPT ![s] = n]]
<1>1. run[r] \in States /\ run[r].sends \in [Subscriptions -> 0 .. Attempts]
  BY DEF TypeOK, States
<1>2. run[r].item \in Items /\ run[r].sends[s] \in 1 .. Attempts
  BY SendingHasItem
<1>3. n \in 0 .. Attempts /\ (n > 0 => n = run[r].sends[s] + 1)
  BY <1>2, NextAttemptGrows DEF Attempts
<1>4. [run[r].sends EXCEPT ![s] = n] \in [Subscriptions -> 0 .. Attempts]
  BY <1>1, <1>3
<1>5. /\ new \in States
      /\ new.todo = run[r].todo /\ new.item = run[r].item /\ new.users = run[r].users
      /\ new.sends = [run[r].sends EXCEPT ![s] = n]
  BY <1>1, <1>4 DEF States
<1>6. run' = [run EXCEPT ![r] = new]
  BY DEF SetSend, TypeOK
<1>7. new.item \notin new.todo
  BY <1>5 DEF ClaimsExclude
<1> QED
  BY <1>1, <1>2, <1>3, <1>5, <1>6, <1>7 DEF Holds

LEMMA UnansweredStep ==
  ASSUME PushInv, NEW r \in Runs, NEW s \in Subscriptions,
         LoseMessage(r, s) \/ Refuse(r, s) \/ DropGone(r, s, TRUE) \/ DropGone(r, s, FALSE)
  PROVE  PushInv'
<1> USE DEF PushInv
<1>1. PICK n \in {0, NextAttempt(run[r].sends[s])} : SetSend(r, s, n)
  BY DEF LoseMessage, Refuse, DropGone
<1>2. Sending(r, s)
  BY DEF LoseMessage, Refuse, DropGone
<1>3. UNCHANGED <<now, ann, edition, update, gone, shown>>
  BY DEF LoseMessage, Refuse, DropGone, annVars, pushVars
<1>4. subs' \subseteq Subscriptions
  BY DEF LoseMessage, Refuse, DropGone, pushVars, TypeOK
<1>5. PICK new \in States :
        /\ run' = [run EXCEPT ![r] = new]
        /\ new.todo = run[r].todo /\ new.item = run[r].item
        /\ new.users = run[r].users
        /\ new.sends[s] = n
        /\ \A other \in Subscriptions \ {s} : new.sends[other] = run[r].sends[other]
        /\ new.item \in Items /\ Holds(r, new.item) /\ new.item \notin new.todo
        /\ n > 0 => n = run[r].sends[s] + 1
  BY <1>1, <1>2, SetSendStep
<1>6. ASSUME NEW x \in Items, NEW other \in Subscriptions, new.item = x
      PROVE  /\ UserOf[other] \in new.users => shown[<<x.ann, x.edition, other>>] = 0
             /\ new.sends[other] > 0 =>
                  /\ UserOf[other] \notin new.users
                  /\ shown[<<x.ann, x.edition, other>>] < new.sends[other]
  <2>1. /\ UserOf[other] \in run[r].users => shown[<<x.ann, x.edition, other>>] = 0
        /\ run[r].sends[other] > 0 =>
             /\ UserOf[other] \notin run[r].users
             /\ shown[<<x.ann, x.edition, other>>] < run[r].sends[other]
    BY <1>5, <1>6 DEF SendingIsCounted
  <2>2. shown[<<x.ann, x.edition, other>>] \in Nat
    BY ItemFields DEF TypeOK
  <2>3. run[r].sends[s] \in 1 .. Attempts
    BY <1>2, SendingHasItem
  <2> QED
    BY <1>5, <2>1, <2>2, <2>3 DEF Attempts
<1>7. new.item # Nothing
  BY <1>5, ItemFields
<1> QED
  BY <1>3, <1>4, <1>5, <1>6, <1>7, SilentStep

(* The push service takes the message: it is counted for this edition,     *)
(* which no other run holds.                                               *)
LEMMA TakenStep ==
  ASSUME PushInv, NEW r \in Runs, NEW s \in Subscriptions,
         Deliver(r, s) \/ LoseAnswer(r, s)
  PROVE  PushInv'
<1> USE DEF PushInv
<1> DEFINE x == run[r].item
           key == <<x.ann, x.edition, s>>
           Keys == Announcements \X (1 .. MaxEdition) \X Subscriptions
<1>1. PICK n \in {0, NextAttempt(run[r].sends[s])} : SetSend(r, s, n)
  BY DEF Deliver, LoseAnswer
<1>2. Sending(r, s) /\ UNCHANGED <<now, ann, edition, update, subs, gone>>
  BY DEF Deliver, LoseAnswer, annVars, pushVars
<1>3. x \in Items /\ run[r].sends[s] \in 1 .. Attempts
  BY <1>2, SendingHasItem
<1>4. key \in Keys
  BY <1>3, ItemFields
<1>5. shown' = [shown EXCEPT ![key] = shown[key] + 1] /\ shown \in [Keys -> Nat]
  BY DEF Deliver, LoseAnswer, Show, TypeOK
<1>6. PICK new \in States :
        /\ run' = [run EXCEPT ![r] = new]
        /\ new.todo = run[r].todo /\ new.item = run[r].item
        /\ new.users = run[r].users
        /\ new.sends[s] = n
        /\ \A other \in Subscriptions \ {s} : new.sends[other] = run[r].sends[other]
        /\ new.item \in Items /\ Holds(r, new.item) /\ new.item \notin new.todo
        /\ n > 0 => n = run[r].sends[s] + 1
  BY <1>1, <1>2, SetSendStep
<1>7. new.item # Nothing
  BY <1>6, ItemFields
<1>8. /\ run' \in [Runs -> States]
      /\ run'[r] = new /\ \A q \in Runs \ {r} : run'[q] = run[q]
      /\ RunsAreShaped' /\ CreatedAreArmed' /\ ClaimsAreRecorded' /\ ClaimsExclude'
  BY <1>2, <1>6, <1>7, HoldStep
<1>9. shown[key] < run[r].sends[s] /\ UserOf[s] \notin run[r].users
  BY <1>2, <1>3 DEF SendingIsCounted, Sending
<1>10. /\ shown' \in [Keys -> Nat]
       /\ shown'[key] = shown[key] + 1 /\ shown[key] \in Nat
       /\ \A other \in Keys \ {key} : shown'[other] = shown[other]
  <2> HIDE DEF key, Keys
  <2> QED
    BY <1>4, <1>5
<1>11. TypeOK'
  BY <1>2, <1>8, <1>10 DEF TypeOK, States
<1>12. Holds(r, x)
  BY DEF Holds
<1>13. ASSUME NEW y \in Items, NEW q \in Runs, Holds(q, y), y # x \/ q # r,
              NEW other \in Subscriptions
       PROVE  <<y.ann, y.edition, other>> \in Keys \ {key}
  <2>1. y.ann # x.ann \/ y.edition # x.edition
    BY <1>3, <1>12, <1>13 DEF ClaimsExclude
  <2> QED
    BY <1>13, <2>1, ItemFields
<1>14. UnclaimedAreUnshown'
  <2> SUFFICES ASSUME NEW a \in Announcements, NEW k \in 1 .. MaxEdition,
                      NEW other \in Subscriptions, Unclaimed(a, k)
               PROVE  shown'[<<a, k, other>>] = 0
    BY <1>2 DEF UnclaimedAreUnshown, Unclaimed
  <2>1. ~ Unclaimed(x.ann, x.edition)
    <3>1. x.edition \in Nat /\ x.ann \in Announcements /\ edition[x.ann] \in Nat
      BY <1>3, ItemFields DEF TypeOK
    <3> QED
      BY <1>3, <1>12, <3>1 DEF ClaimsAreRecorded, Unclaimed
  <2>2. <<a, k, other>> \in Keys \ {key}
    BY <2>1
  <2> QED
    BY <1>10, <2>2 DEF UnclaimedAreUnshown
<1>15. WaitingAreUnshown'
  <2> SUFFICES ASSUME NEW q \in Runs, NEW y \in run'[q].todo, NEW other \in Subscriptions
               PROVE  shown'[<<y.ann, y.edition, other>>] = 0
    BY DEF WaitingAreUnshown
  <2>1. y \in run[q].todo
    BY <1>6, <1>8
  <2>2. y \in Items /\ Holds(q, y) /\ (y # x \/ q # r)
    BY <2>1, RunFields DEF Holds, ClaimsExclude
  <2>3. <<y.ann, y.edition, other>> \in Keys \ {key}
    BY <1>13, <2>2
  <2> QED
    BY <1>10, <2>1, <2>3 DEF WaitingAreUnshown
<1>16. SendingIsCounted'
  <2> SUFFICES ASSUME NEW q \in Runs, NEW other \in Subscriptions, NEW y \in Items,
                      run'[q].item = y
               PROVE  /\ UserOf[other] \in run'[q].users => shown'[<<y.ann, y.edition, other>>] = 0
                      /\ run'[q].sends[other] > 0 =>
                           /\ UserOf[other] \notin run'[q].users
                           /\ shown'[<<y.ann, y.edition, other>>] < run'[q].sends[other]
    BY DEF SendingIsCounted
  <2>1. run[q].item = y /\ run'[q].users = run[q].users
    BY <1>6, <1>8
  <2>2. /\ UserOf[other] \in run[q].users => shown[<<y.ann, y.edition, other>>] = 0
        /\ run[q].sends[other] > 0 =>
             /\ UserOf[other] \notin run[q].users
             /\ shown[<<y.ann, y.edition, other>>] < run[q].sends[other]
    BY <2>1 DEF SendingIsCounted
  <2>3. CASE q = r /\ other = s
    <3>1. y = x
      BY <2>1, <2>3
    <3> QED
      BY <1>3, <1>6, <1>8, <1>9, <1>10, <2>1, <2>3, <3>1 DEF Attempts
  <2>4. CASE q = r /\ other # s
    <3>1. <<y.ann, y.edition, other>> \in Keys \ {key}
      BY <2>1, <2>4, ItemFields
    <3> QED
      BY <1>6, <1>8, <1>10, <2>1, <2>2, <2>4, <3>1
  <2>5. CASE q # r
    <3>1. <<y.ann, y.edition, other>> \in Keys \ {key}
      BY <1>13, <2>1, <2>5 DEF Holds
    <3> QED
      BY <1>8, <1>10, <2>1, <2>2, <2>5, <3>1
  <2> QED
    BY <2>3, <2>4, <2>5
<1>17. ShownAtMostThrice'
  <2> SUFFICES ASSUME NEW other \in Keys PROVE shown'[other] <= Attempts
    BY DEF ShownAtMostThrice
  <2>1. CASE other = key
    BY <1>3, <1>9, <1>10, <2>1 DEF Attempts
  <2>2. CASE other # key
    BY <1>10, <2>2 DEF ShownAtMostThrice
  <2> QED
    BY <2>1, <2>2
<1> QED
  BY <1>8, <1>11, <1>14, <1>15, <1>16, <1>17

-----------------------------------------------------------------------------
LEMMA CrashStep ==
  ASSUME PushInv, Crash
  PROVE  PushInv'
<1> USE DEF PushInv
<1>1. /\ UNCHANGED <<now, ann, edition, pushVars, shown>>
      /\ \A r \in Runs : run'[r] = Idle
  BY DEF Crash
<1>2. TypeOK'
  BY <1>1 DEF Crash, TypeOK, Idle, Quiet, Attempts, pushVars
<1>3. \A r \in Runs, x \in Items : ~ Holds(r, x)'
  BY <1>1, ItemFields DEF Holds, Idle
<1>4. RunsAreShaped' /\ CreatedAreArmed' /\ ClaimsAreRecorded' /\ ClaimsExclude'
  BY <1>1, <1>3 DEF RunsAreShaped, CreatedAreArmed, ClaimsAreRecorded, ClaimsExclude, Idle
<1>5. UnclaimedAreUnshown' /\ ShownAtMostThrice'
  BY <1>1 DEF UnclaimedAreUnshown, Unclaimed, ShownAtMostThrice
<1>6. WaitingAreUnshown' /\ SendingIsCounted'
  BY <1>1, ItemFields DEF WaitingAreUnshown, SendingIsCounted, Idle
<1> QED
  BY <1>2, <1>4, <1>5, <1>6

(* The clock, the end points and stuttering touch nothing a run rests on.  *)
LEMMA OtherStep ==
  ASSUME PushInv, UNCHANGED <<ann, edition, update, run, shown>>, TypeOK'
  PROVE  PushInv'
BY DEF PushInv, RunsAreShaped, CreatedAreArmed, ClaimsAreRecorded, ClaimsExclude, Holds,
       UnclaimedAreUnshown, Unclaimed, WaitingAreUnshown, SendingIsCounted, ShownAtMostThrice

LEMMA InvNext == PushInv /\ [Next]_vars => PushInv'
<1> SUFFICES ASSUME PushInv, [Next]_vars PROVE PushInv'
  OBVIOUS
<1>1. CASE Tick
  <2>1. now' \in Times
    BY <1>1, BoundsAssumption DEF Tick, PushInv, TypeOK, Times
  <2> QED
    BY <1>1, <2>1, OtherStep DEF Tick, PushInv, TypeOK, annVars, pushVars
<1>2. CASE Edit
  <2>1. ASSUME NEW e \in Editors, NEW a \in Announcements, NEW text \in Texts,
               NEW publish \in Times, NEW expires \in Expiries, NEW respelt \in BOOLEAN,
               \/ CreateAnnouncement(e, a, text, publish, expires)
               \/ StartUpdate(e, a, text, publish, expires, respelt)
        PROVE  PushInv'
    BY <2>1, CreateStep, UpdateStep
  <2>2. ASSUME NEW e \in Editors, WriteUpdate(e)
        PROVE  PushInv'
    BY <2>2, WriteStep
  <2>3. ASSUME NEW e \in Editors, NEW a \in Announcements, DeleteAnnouncement(e, a)
        PROVE  PushInv'
    BY <2>3, DeleteStep
  <2>4. TRUE \in BOOLEAN
    OBVIOUS
  <2> QED
    BY <1>2, <2>1, <2>2, <2>3, <2>4 DEF Edit
<1>3. CASE Endpoints
  BY <1>3, OtherStep DEF Endpoints, Subscribe, Unsubscribe, LoseEndpoint, PushInv, TypeOK, annVars
<1>4. ASSUME NEW r \in Runs, ClaimDue(r) \/ RunStep(r)
      PROVE  PushInv'
  <2>1. CASE ClaimDue(r)
    BY <2>1, ClaimStep
  <2>2. CASE RunStep(r)
    BY <2>2, TakeStep, ReadStep, UnansweredStep, TakenStep, FinishStep DEF RunStep, Attempt
  <2> QED
    BY <1>4, <2>1, <2>2
<1>5. CASE Crash
  BY <1>5, CrashStep
<1>6. CASE UNCHANGED vars
  BY <1>6, OtherStep DEF vars, annVars, pushVars, PushInv, TypeOK
<1> QED
  BY <1>1, <1>2, <1>3, <1>4, <1>5, <1>6 DEF Next

LEMMA Invariance == Spec => []PushInv
BY InvInit, InvNext, PTL DEF Spec

-----------------------------------------------------------------------------
(* The handlers, the job and the sending keep every column and every run   *)
(* within its type.                                                        *)
THEOREM TypeCorrect == Spec => []TypeOK
<1>1. PushInv => TypeOK
  BY DEF PushInv
<1> QED
  BY <1>1, Invariance, PTL

(* sendPushNotification hands no subscription an edition more often than   *)
(* it tries, though runs of the job overlap and answers are lost.          *)
THEOREM ShownAtMostThriceHolds == Spec => []ShownAtMostThrice
<1>1. PushInv => ShownAtMostThrice
  BY DEF PushInv
<1> QED
  BY <1>1, Invariance, PTL

-----------------------------------------------------------------------------
(* An update in flight that does not arm its announcement again leaves its *)
(* time as it is, or moves it to one that has come.                        *)
Settles(u) ==
  LET a == u.ann IN
    /\ edition[a] > 0
    /\ ann[a] # NoRow /\ ~ u.rearm => u.publish = ann[a].publish \/ u.publish <= now

UpdatesSettle == \A e \in Editors : update[e] # Nothing => Settles(update[e])

EditInv == PushInv /\ UpdatesSettle /\ PushedIsPublished

LEMMA EditInit == Init => EditInv
  BY InvInit DEF Init, EditInv, UpdatesSettle, PushedIsPublished

(* The steps between a read and its write that others take: a row stays at *)
(* its time or goes, and is marked as pushed only when that time has come. *)
LEMMA OthersStep ==
  ASSUME EditInv, UNCHANGED update, now' \in Int, now' >= now,
         \A a \in Announcements :
           /\ edition'[a] >= edition[a]
           /\ ann'[a] # NoRow /\ ann[a] # NoRow => ann'[a].publish = ann[a].publish
           /\ ann'[a] # NoRow /\ ann[a] = NoRow => edition[a] = 0 /\ ~ ann'[a].sent
           /\ ann'[a] # NoRow /\ ann[a] # NoRow /\ ann'[a].sent /\ ~ ann[a].sent => Due(a),
         TypeOK'
  PROVE  UpdatesSettle' /\ PushedIsPublished'
<1>1. \A a \in Announcements : /\ ann[a] # NoRow => ann[a].publish \in Int
                               /\ edition[a] \in Int /\ edition'[a] \in Int
                               /\ ann'[a] # NoRow => ann'[a].publish \in Int
  BY BoundsAssumption DEF EditInv, PushInv, TypeOK, Rows, Times
<1>2. now \in Int
  BY DEF EditInv, PushInv, TypeOK, Times
<1>3. ASSUME NEW e \in Editors, update[e] # Nothing
      PROVE  Settles(update[e])'
  <2>1. Settles(update[e])
    BY <1>3 DEF EditInv, UpdatesSettle
  <2>2. update[e].ann \in Announcements /\ update[e].publish \in Int
    BY <1>3, BoundsAssumption DEF EditInv, PushInv, TypeOK, Updates, Times
  <2> QED
    BY <1>1, <1>2, <2>1, <2>2 DEF Settles
<1>4. PushedIsPublished'
  BY <1>1, <1>2 DEF EditInv, PushedIsPublished, Due
<1> QED
  BY <1>3, <1>4 DEF UpdatesSettle

(* A write decided on the row that is there: what stays marked as pushed   *)
(* keeps a time that has come.                                             *)
LEMMA WriteSettles ==
  ASSUME EditInv, OneUpdate, NEW e \in Editors, WriteUpdate(e)
  PROVE  UpdatesSettle' /\ PushedIsPublished'
<1> DEFINE u == update[e]
<1>1. \A f \in Editors : update'[f] = Nothing
  BY DEF WriteUpdate, OneUpdate, EditInv, PushInv, TypeOK
<1>2. u \in Updates /\ Settles(u)
  BY DEF WriteUpdate, EditInv, UpdatesSettle, PushInv, TypeOK
<1>3. u.ann \in Announcements
  BY <1>2 DEF Updates
<1>4. ASSUME ann[u.ann] # NoRow, ann'[u.ann].sent
      PROVE  ann'[u.ann].publish <= now'
  <2>1. /\ ann'[u.ann].sent <=> ann[u.ann].sent /\ ~ u.rearm
        /\ ann'[u.ann].publish = u.publish /\ now' = now
    BY <1>3, <1>4 DEF WriteUpdate, EditInv, PushInv, TypeOK
  <2>2. u.publish = ann[u.ann].publish \/ u.publish <= now
    BY <1>2, <1>4, <2>1 DEF Settles
  <2>3. ann[u.ann].publish <= now
    BY <1>3, <1>4, <2>1 DEF EditInv, PushedIsPublished
  <2> QED
    BY <2>1, <2>2, <2>3
<1>5. \A a \in Announcements : (a = u.ann /\ ann[a] # NoRow) \/ ann'[a] = ann[a]
  BY DEF WriteUpdate, EditInv, PushInv, TypeOK
<1>6. now' = now
  BY DEF WriteUpdate
<1> QED
  BY <1>1, <1>4, <1>5, <1>6 DEF UpdatesSettle, PushedIsPublished, EditInv

LEMMA StartSettles ==
  ASSUME EditInv, NEW e \in Editors, NEW a \in Announcements, NEW text \in Texts,
         NEW publish \in Times, NEW expires \in Expiries, NEW respelt \in BOOLEAN,
         StartUpdate(e, a, text, publish, expires, respelt)
  PROVE  UpdatesSettle' /\ PushedIsPublished'
<1> DEFINE u == [ann |-> a, text |-> text, publish |-> publish, expires |-> expires,
                 rearm |-> publish > now /\ (publish # ann[a].publish \/ respelt)]
<1>1. update' = [update EXCEPT ![e] = u] /\ UNCHANGED <<now, ann, edition>> /\ ann[a] # NoRow
  BY DEF StartUpdate
<1>2. /\ u.ann = a /\ u.publish = publish
      /\ u.rearm <=> publish > now /\ (publish # ann[a].publish \/ respelt)
  OBVIOUS
<1> HIDE DEF u
<1>3. edition[a] > 0
  BY <1>1 DEF EditInv, PushInv, CreatedAreArmed
<1>4. publish \in Int /\ now \in Int
  BY BoundsAssumption DEF EditInv, PushInv, TypeOK, Times
<1>5. Settles(u)
  <2>1. ~ u.rearm => publish = ann[a].publish \/ ~ publish > now
    BY <1>2
  <2> QED
    BY <1>2, <1>3, <1>4, <2>1 DEF Settles
<1>6. \A f \in Editors : update'[f] = u \/ update'[f] = update[f]
  BY <1>1 DEF EditInv, PushInv, TypeOK
<1>7. UpdatesSettle'
  BY <1>1, <1>5, <1>6 DEF UpdatesSettle, Settles, EditInv
<1>8. PushedIsPublished'
  BY <1>1 DEF PushedIsPublished, EditInv
<1> QED
  BY <1>7, <1>8

LEMMA EditNext == EditInv /\ OneUpdate /\ [Next]_vars => EditInv'
<1> SUFFICES ASSUME EditInv, OneUpdate, [Next]_vars
             PROVE  UpdatesSettle' /\ PushedIsPublished'
  BY InvNext DEF EditInv
<1>1. PushInv' /\ TypeOK /\ TypeOK' /\ now \in Int
  BY InvNext, BoundsAssumption DEF EditInv, PushInv, TypeOK, Times
<1>2. ASSUME UNCHANGED annVars, now' = now \/ now' = now + 1
      PROVE  UpdatesSettle' /\ PushedIsPublished'
  BY <1>1, <1>2, OthersStep DEF annVars, TypeOK
<1>3. CASE Tick
  BY <1>2, <1>3 DEF Tick
<1>4. ASSUME NEW e \in Editors, NEW a \in Announcements, NEW text \in Texts,
             NEW publish \in Times, NEW expires \in Expiries,
             CreateAnnouncement(e, a, text, publish, expires)
      PROVE  UpdatesSettle' /\ PushedIsPublished'
  <2>1. edition[a] = 0 /\ ann[a] = NoRow
    BY <1>1, <1>4 DEF CreateAnnouncement, EditInv, PushInv, CreatedAreArmed
  <2>2. \A b \in Announcements : b # a => ann'[b] = ann[b] /\ edition'[b] = edition[b]
    BY <1>1, <1>4 DEF CreateAnnouncement, TypeOK
  <2>3. ~ ann'[a].sent /\ edition'[a] = 1 /\ UNCHANGED <<now, update>>
    BY <1>1, <1>4 DEF CreateAnnouncement, TypeOK
  <2>4. \A b \in Announcements : edition[b] \in Int
    BY <1>1, BoundsAssumption DEF TypeOK
  <2> QED
    BY <1>1, <2>1, <2>2, <2>3, <2>4, OthersStep
<1>5. ASSUME NEW e \in Editors, NEW a \in Announcements, DeleteAnnouncement(e, a)
      PROVE  UpdatesSettle' /\ PushedIsPublished'
  <2>1. \A b \in Announcements : ann'[b] # NoRow => ann'[b] = ann[b]
    BY <1>1, <1>5 DEF DeleteAnnouncement, TypeOK
  <2>2. UNCHANGED <<now, update, edition>> /\ \A b \in Announcements : edition[b] \in Int
    BY <1>1, <1>5, BoundsAssumption DEF DeleteAnnouncement, TypeOK
  <2> QED
    BY <1>1, <2>1, <2>2, OthersStep
<1>6. CASE Edit
  BY <1>4, <1>5, <1>6, WriteSettles, StartSettles DEF Edit
<1>7. CASE Endpoints
  BY <1>2, <1>7 DEF Endpoints, Subscribe, Unsubscribe, LoseEndpoint
<1>8. ASSUME NEW r \in Runs, ClaimDue(r)
      PROVE  UpdatesSettle' /\ PushedIsPublished'
  <2>1. \A a \in Announcements :
          ann'[a] = IF Due(a) THEN [ann[a] EXCEPT !.sent = TRUE] ELSE ann[a]
    BY <1>8 DEF ClaimDue
  <2>2. \A a \in Announcements : Due(a) => ann[a] \in Rows
    BY <1>1 DEF TypeOK, Due
  <2>3. \A a \in Announcements : Due(a) => ann'[a].publish = ann[a].publish
    BY <2>1, <2>2 DEF Rows
  <2>4. \A a \in Announcements : ~ Due(a) => ann'[a] = ann[a]
    BY <2>1
  <2>5. UNCHANGED <<now, update, edition>> /\ \A b \in Announcements : edition[b] \in Int
    BY <1>1, <1>8, BoundsAssumption DEF ClaimDue, TypeOK
  <2>6. \A a \in Announcements : Due(a) => ann[a] # NoRow
    BY DEF Due
  <2> QED
    BY <1>1, <2>3, <2>4, <2>5, <2>6, OthersStep
<1>9. ASSUME NEW r \in Runs, RunStep(r)
      PROVE  UpdatesSettle' /\ PushedIsPublished'
  BY <1>2, <1>9 DEF RunStep, TakeNext, ReadSubscriptions, Attempt, Deliver, LoseAnswer,
                    LoseMessage, Refuse, DropGone, FinishItem
<1>10. CASE Crash
  BY <1>10 DEF Crash, UpdatesSettle, PushedIsPublished, EditInv
<1>11. CASE UNCHANGED vars
  BY <1>2, <1>11 DEF vars
<1> QED
  BY <1>1, <1>3, <1>6, <1>7, <1>8, <1>9, <1>10, <1>11 DEF Next, EditInv

LEMMA EditInvariance == Spec /\ []OneUpdate => []EditInv
  BY EditInit, EditNext, PTL DEF Spec

(* What counts as pushed has been published (dispatchAnnouncementPush and  *)
(* updateAnnouncement), as long as one person edits at a time: an update   *)
(* that moves what the job claimed in between arms it again.               *)
THEOREM PushedIsPublishedHolds == Spec /\ []OneUpdate => []PushedIsPublished
<1>1. EditInv => PushedIsPublished
  BY DEF EditInv
<1> QED
  BY <1>1, EditInvariance, PTL

-----------------------------------------------------------------------------
(* The tab of the web application (Portal), for any pages, any users and   *)
(* any order of answers.                                                   *)
LEMMA RolesOfUsers ==
  ASSUME NEW u \in DOMAIN RolesOf
  PROVE  RolesOf[u][1] \in Range(RolesOf[u]) /\ Range(RolesOf[u]) \subseteq Everyone
<1>1. RolesOf[u] \in Seq(Everyone) /\ RolesOf[u] # <<>>
  BY RolesOfAssumption
<1>2. 1 \in DOMAIN RolesOf[u]
  BY <1>1
<1>3. \A i \in DOMAIN RolesOf[u] : RolesOf[u][i] \in Everyone
  BY <1>1
<1> HIDE DEF Everyone
<1> QED
  BY <1>2, <1>3 DEF Range

LEMMA PagesOfTheRouter ==
  /\ Elsewhere.name \in DOMAIN PageAt /\ ChangePasswordPage.name \in DOMAIN PageAt
  /\ \A k \in DOMAIN QueryFor : /\ RelevantTo[k] \subseteq DOMAIN PageAt
                                /\ Elsewhere.name \in RelevantTo[k]
                                /\ ChangePasswordPage.name \in RelevantTo[k]
<1>1. Elsewhere.name \in DOMAIN PageAt /\ ChangePasswordPage.name \in DOMAIN PageAt
  BY DEF PageAt, Router
<1> DEFINE Near(k) == {path \in DOMAIN PageAt : (\E r \in Everyone : QueryFor[k] \in PageAt[path].reads[r])
                                                   \/ ChangesOf[k][path] # {}}
<1>2. ASSUME NEW k \in DOMAIN QueryFor
      PROVE  RelevantTo[k] = {Elsewhere.name, ChangePasswordPage.name} \cup Near(k)
  BY DEF RelevantTo
<1>3. \A k : Near(k) \subseteq DOMAIN PageAt
  OBVIOUS
<1> HIDE DEF Near
<1> QED
  BY <1>1, <1>2, <1>3

(* What is in the cache or under way stays of its kind, when it is kept,   *)
(* made foreign or dropped.                                                *)
Roled == \A q \in auth : q.role \in Range(RolesOf[q.user])

LEMMA ForeignTypes ==
  ASSUME TabTypeOK
  PROVE  /\ Foreign(entry) \in {None} \cup Entries
         /\ Foreign(fetch) \in {None} \cup Fetches
         /\ Foreign(change) \in {None} \cup Changes
<1> USE DEF TabTypeOK, Foreign
<1>1. Foreign(entry) \in {None} \cup Entries
  BY DEF Entries
<1>2. Foreign(fetch) \in {None} \cup Fetches
  BY DEF Fetches
<1>3. Foreign(change) \in {None} \cup Changes
  BY DEF Changes
<1> QED
  BY <1>1, <1>2, <1>3

(* Requests stay requests for a role of their user, when they are kept,    *)
(* made foreign or answered.                                               *)
AskedRightly(requests) ==
  requests \subseteq Requests /\ \A q \in requests : q.role \in Range(RolesOf[q.user])

LEMMA ForeignRequests ==
  ASSUME NEW requests, AskedRightly(requests)
  PROVE  AskedRightly(AllForeign(requests)) /\ \A q \in AllForeign(requests) : ~ q.own
<1> SUFFICES ASSUME NEW q \in requests, NEW d, d = [q EXCEPT !.own = FALSE]
             PROVE  d \in Requests /\ d.role \in Range(RolesOf[d.user]) /\ ~ d.own
  BY DEF AllForeign, AskedRightly
<1>1. q \in Requests /\ q.role \in Range(RolesOf[q.user])
  BY DEF AskedRightly
<1>2. d \in Requests /\ d.role = q.role /\ d.user = q.user /\ d.own = FALSE
  BY <1>1 DEF Requests
<1> QED
  BY <1>1, <1>2

(* A session that begins or goes on with a new token.                      *)
LEMMA SessionTypes ==
  ASSUME NEW u \in DOMAIN RolesOf, NEW r \in Range(RolesOf[u]), NEW forced \in BOOLEAN,
         session' = [user |-> u, role |-> r, forced |-> forced], expired' = FALSE
  PROVE  /\ session' \in {None} \cup [user : DOMAIN RolesOf, role : Everyone, forced : BOOLEAN]
         /\ SignedIn' => session'.role \in Range(RolesOf[session'.user]) /\ ~ expired'
<1>1. r \in Everyone
  BY RolesOfUsers
<1> HIDE DEF Everyone
<1> QED
  BY <1>1

LEMMA TabTypeInit == TabInit => TabTypeOK /\ Roled
  BY PagesOfTheRouter DEF TabInit, TabTypeOK, Roled, SignedIn, Views

LEMMA TabTypeNext ==
  ASSUME TabTypeOK, Roled, [TabNext]_tabVars
  PROVE  TabTypeOK' /\ Roled'
<1> USE DEF cache, view
<1> DEFINE Sessions == [user : DOMAIN RolesOf, role : Everyone, forced : BOOLEAN]
           Tab == /\ session \in {None} \cup Sessions
                  /\ SignedIn => session.role \in Range(RolesOf[session.user]) /\ ~expired
                  /\ expired \in BOOLEAN
           Seen == /\ flags \in BOOLEAN /\ crossed \in BOOLEAN
                   /\ gate \in {"follows", "open", "shut"} /\ onshow \in Views
           Place == watched \in DOMAIN QueryFor /\ page \in RelevantTo[watched]
           Cached == entry \in {None} \cup Entries /\ fetch \in {None} \cup Fetches
           Underway == change \in {None} \cup Changes
<1>1. Tab /\ Seen /\ Place /\ Cached /\ Underway /\ AskedRightly(auth)
  BY DEF TabTypeOK, Roled, AskedRightly
<1>2. Tab' /\ Seen' /\ Place' /\ Cached' /\ Underway' /\ AskedRightly(auth')
        => TabTypeOK' /\ Roled'
  BY DEF TabTypeOK, Roled, AskedRightly
<1>3. /\ UNCHANGED <<session, expired>> => Tab'
      /\ UNCHANGED <<flags, crossed, view>> => Seen'
      /\ UNCHANGED <<page, watched>> => Place'
      /\ UNCHANGED <<entry, fetch>> => Cached'
      /\ UNCHANGED change => Underway'
      /\ UNCHANGED auth => AskedRightly(auth')
  BY <1>1 DEF SignedIn
<1>4. /\ UNCHANGED watched /\ page' \in {Elsewhere.name, ChangePasswordPage.name} => Place'
      /\ UNCHANGED watched /\ page' \in RelevantTo[watched] => Place'
  BY <1>1, PagesOfTheRouter
<1>5. /\ Foreign(entry) \in {None} \cup Entries /\ Foreign(fetch) \in {None} \cup Fetches
      /\ Foreign(change) \in {None} \cup Changes
      /\ AskedRightly(AllForeign(auth))
  BY <1>1, ForeignTypes, ForeignRequests
<1>6. SignedIn => /\ session \in Sessions /\ session.user \in DOMAIN RolesOf
                  /\ session.role \in Everyone /\ session.role \in Range(RolesOf[session.user])
  BY <1>1 DEF SignedIn
<1>7. DrawnAnew => gate' \in {"follows", "open", "shut"} /\ onshow' \in Views
  BY DEF DrawnAnew, Views
<1>8. ASSUME NEW q \in auth, SignsIn(q)
      PROVE  Tab' /\ AskedRightly(auth')
  <2>1. q.user \in DOMAIN RolesOf /\ q.role \in Range(RolesOf[q.user])
    BY <1>1 DEF AskedRightly, Requests
  <2>2. session' = [user |-> q.user, role |-> q.role, forced |-> FALSE] /\ expired' = FALSE
    BY <1>8 DEF SignsIn
  <2>3. Tab'
    BY <2>1, <2>2, SessionTypes
  <2>4. AskedRightly(auth \ {q})
    BY <1>1 DEF AskedRightly
  <2>5. AskedRightly(AllForeign(auth \ {q}))
    BY <2>4, ForeignRequests
  <2> QED
    BY <1>8, <2>3, <2>4, <2>5 DEF SignsIn
<1>9. ASSUME NEW kind \in {"switch", "password"}, NEW r \in Range(RolesOf[session.user]),
             SignedIn, Ask(kind, r)
      PROVE  AskedRightly(auth')
  <2> DEFINE q == [own |-> TRUE, kind |-> kind, user |-> session.user, role |-> r]
  <2>1. q \in Requests /\ q.role = r /\ q.user = session.user
    BY <1>6, <1>9, RolesOfUsers DEF Requests
  <2>2. auth' = auth \cup {q}
    BY <1>9 DEF Ask
  <2> HIDE DEF q
  <2> QED
    BY <1>1, <2>1, <2>2 DEF AskedRightly
<1> HIDE DEF Everyone
<1>11. ASSUME NEW u \in DOMAIN RolesOf, Login(u)
       PROVE  TabTypeOK' /\ Roled'
  <2>1. Tab'
    <3>1. (u \in Forced) \in BOOLEAN /\ RolesOf[u][1] \in Range(RolesOf[u])
      BY RolesOfUsers
    <3>2. session' = [user |-> u, role |-> RolesOf[u][1], forced |-> u \in Forced]
      BY <1>11 DEF Login
    <3>3. expired' = FALSE
      BY <1>1, <1>11 DEF Login
    <3> QED
      BY <3>1, <3>2, <3>3, SessionTypes
  <2>2. Seen' /\ Place' /\ Cached' /\ Underway' /\ AskedRightly(auth')
    BY <1>3, <1>4, <1>5, <1>11 DEF Login
  <2> QED
    BY <1>2, <2>1, <2>2
<1>12. ASSUME Logout \/ Expire \/ DismissExpired
       PROVE  TabTypeOK' /\ Roled'
  <2>1. Tab'
    BY <1>1, <1>12 DEF Logout, Expire, DismissExpired, SignedIn
  <2>2. Seen'
    BY <1>1, <1>7, <1>12 DEF Logout, Expire, DismissExpired
  <2>3. Place' /\ Cached' /\ Underway' /\ AskedRightly(auth')
    BY <1>1, <1>3, <1>4, <1>12 DEF Logout, Expire, DismissExpired
  <2> QED
    BY <1>2, <2>1, <2>2, <2>3
<1>13. ASSUME NEW r \in Everyone, AskSwitch(r)
       PROVE  TabTypeOK' /\ Roled'
  <2>1. AskedRightly(auth')
    BY <1>9, <1>13 DEF AskSwitch
  <2> QED
    BY <1>2, <1>3, <1>13, <2>1 DEF AskSwitch, Ask
<1>14. ASSUME NEW q \in auth, SwitchAnswered(q)
       PROVE  TabTypeOK' /\ Roled'
  <2>1. Kept \in Views
    BY <1>1 DEF Kept, Views, Entries
  <2>2. Seen'
    BY <1>1, <1>14, <2>1 DEF SwitchAnswered, Views
  <2>3. Tab' /\ AskedRightly(auth')
    BY <1>8, <1>14 DEF SwitchAnswered
  <2>4. Place' /\ Cached' /\ Underway'
    BY <1>3, <1>5, <1>14 DEF SwitchAnswered
  <2> QED
    BY <1>2, <2>2, <2>3, <2>4
<1>15. CASE AskPassword
  <2>1. AskedRightly(auth')
    BY <1>6, <1>9, <1>15 DEF AskPassword
  <2> QED
    BY <1>2, <1>3, <1>15, <2>1 DEF AskPassword, Ask
<1>16. ASSUME NEW q \in auth, PasswordAnswered(q)
       PROVE  TabTypeOK' /\ Roled'
  <2>1. Tab' /\ AskedRightly(auth')
    BY <1>8, <1>16 DEF PasswordAnswered
  <2>2. Seen'
    <3>1. gate' \in {"follows", "open", "shut"} /\ onshow' \in Views
      BY <1>1, <1>16 DEF PasswordAnswered, Views
    <3>2. flags' \in BOOLEAN
      BY <1>1, <1>16 DEF PasswordAnswered
    <3>3. crossed' \in BOOLEAN
      <4>1. CASE SignedIn /\ q.own
        BY <1>1, <1>16, <4>1 DEF PasswordAnswered
      <4>2. CASE ~ (SignedIn /\ q.own)
        BY <1>16, <4>2 DEF PasswordAnswered
      <4> QED
        BY <4>1, <4>2
    <3> QED
      BY <3>1, <3>2, <3>3
  <2>3. Place'
    BY <1>4, <1>16 DEF PasswordAnswered
  <2>4. Cached' /\ Underway'
    BY <1>1, <1>5, <1>16 DEF PasswordAnswered
  <2> QED
    BY <1>2, <2>1, <2>2, <2>3, <2>4
<1>17. ASSUME NEW q \in auth, AuthFails(q)
       PROVE  TabTypeOK' /\ Roled'
  <2>1. AskedRightly(auth')
    BY <1>1, <1>17 DEF AuthFails, AskedRightly
  <2> QED
    BY <1>2, <1>3, <1>17, <2>1 DEF AuthFails
<1>18. CASE Reload
  <2>1. Tab'
    BY <1>1, <1>18 DEF Reload, SignedIn
  <2>2. Seen' /\ AskedRightly(auth')
    BY <1>7, <1>18 DEF Reload, AskedRightly
  <2> QED
    BY <1>2, <1>3, <1>18, <2>1, <2>2 DEF Reload
<1>19. ASSUME NEW p \in RelevantTo[watched], Navigate(p)
       PROVE  TabTypeOK' /\ Roled'
  <2>1. Seen'
    BY <1>1, <1>7, <1>19 DEF Navigate
  <2> QED
    BY <1>2, <1>3, <1>4, <1>19, <2>1 DEF Navigate
<1>20. CASE LearnFlags \/ Redraw
  <2>1. Seen'
    BY <1>1, <1>20 DEF LearnFlags, Redraw, Views
  <2> QED
    BY <1>2, <1>3, <1>20, <2>1 DEF LearnFlags, Redraw
<1>21. SignedIn => Asked \in Fetches
  BY <1>6 DEF Asked, Fetches
<1>22. CASE StartFetch
  <2>1. Cached'
    BY <1>1, <1>21, <1>22 DEF StartFetch, Watching, Mounted, Admitted
  <2> QED
    BY <1>2, <1>3, <1>22, <2>1 DEF StartFetch
<1>23. CASE Answered
  <2>1. fetch \in Fetches
    BY <1>1, <1>23 DEF Answered
  <2>2. entry' \in Entries /\ fetch' = None
    BY <1>23, <2>1 DEF Answered, Fetches, Entries
  <2> QED
    BY <1>2, <1>3, <1>23, <2>2 DEF Answered
<1>24. CASE FetchFails
  BY <1>1, <1>2, <1>3, <1>24 DEF FetchFails
<1>25. ASSUME NEW c \in ChangesOf[watched][page], Submit(c)
       PROVE  TabTypeOK' /\ Roled'
  <2>1. page \in DOMAIN PageAt
    BY <1>1, PagesOfTheRouter
  <2>2. Touches(c, Watched) \in BOOLEAN /\ Tells(c, Watched) \in BOOLEAN
    BY DEF Touches, Tells
  <2>3. (IF Tells(c, Watched) THEN Elsewhere.name ELSE page) \in DOMAIN PageAt
    BY <2>1, PagesOfTheRouter
  <2>4. change' \in Changes
    BY <1>25, <2>2, <2>3 DEF Submit, Changes
  <2> QED
    BY <1>1, <1>2, <1>3, <1>25, <2>4 DEF Submit
<1>26. CASE ChangeAnswered
  <2>1. change \in Changes
    BY <1>1, <1>26 DEF ChangeAnswered
  <2>2. Outdated(entry) \in {None} \cup Entries
    <3>1. CASE entry = None
      BY <3>1 DEF Outdated
    <3>2. CASE entry \in Entries
      BY <2>1, <3>2 DEF Outdated, Entries, Changes
    <3> QED
      BY <1>1, <3>1, <3>2
  <2>3. Refetched => SignedIn
    BY DEF Refetched, Watching, Mounted, Admitted
  <2>4. fetch' \in {None} \cup Fetches
    BY <1>1, <1>21, <1>26, <2>3 DEF ChangeAnswered, Fetches
  <2> QED
    BY <1>1, <1>2, <1>3, <1>26, <2>2, <2>4 DEF ChangeAnswered
<1>27. CASE ChangeFails
  BY <1>1, <1>2, <1>3, <1>27 DEF ChangeFails
<1>28. CASE UNCHANGED tabVars
  BY <1>1, <1>2, <1>3, <1>28 DEF tabVars
<1> HIDE DEF Tab, Seen, Place, Cached, Underway
<1> QED
  BY <1>11, <1>12, <1>13, <1>14, <1>15, <1>16, <1>17, <1>18, <1>19, <1>20, <1>22, <1>23,
     <1>24, <1>25, <1>26, <1>27, <1>28 DEF TabNext

(* The tab keeps its session, its place, its cache and what it awaits      *)
(* within their kinds, whoever signs in.                                   *)
THEOREM TabTypeCorrect == TabSpec => []TabTypeOK
<1>1. TabTypeOK /\ Roled /\ [TabNext]_tabVars => TabTypeOK' /\ Roled'
  BY TabTypeNext
<1> QED
  BY TabTypeInit, <1>1, PTL DEF TabSpec

-----------------------------------------------------------------------------
(* What is the tab's own belongs to the role that is signed in: whatever   *)
(* it has in the cache, awaits or changes was asked for in that role, and  *)
(* what an entry is behind of is a change of a page for that role, which   *)
(* does not tell the entry.                                                *)
Missed(path, r) ==
  /\ path \in DOMAIN PageAt /\ r \in PageAt[path].roles
  /\ \E c \in ChangesOf[watched][path] :
       r \in c.route.roles /\ Touches(c, Watched) /\ ~ Tells(c, Watched)

OwnEntry(r) ==
  entry # None /\ entry.own =>
    /\ entry.role = r
    /\ entry.valid => entry.behind \in {"no", "overtaken"} \/ Missed(entry.behind, r)

OwnFetch(r) == fetch # None /\ fetch.own => fetch.role = r

OwnChange(r) ==
  change # None /\ change.own /\ change.touches /\ ~ change.tells => Missed(change.from, r)

OwnIsOfTheRole ==
  SignedIn /\ ~ crossed =>
    OwnEntry(session.role) /\ OwnFetch(session.role) /\ OwnChange(session.role)

TabInv == TabTypeOK /\ Roled /\ OwnIsOfTheRole

(* What was there before is no longer the tab's own.                       *)
LEMMA ForeignIsNotOwn ==
  ASSUME TabTypeOK
  PROVE  /\ Foreign(entry) # None => ~ Foreign(entry).own
         /\ Foreign(fetch) # None => ~ Foreign(fetch).own
         /\ Foreign(change) # None => ~ Foreign(change).own
  BY DEF TabTypeOK, Foreign, Entries, Fetches, Changes

LEMMA OwnNext ==
  ASSUME TabInv, [TabNext]_tabVars
  PROVE  OwnIsOfTheRole'
<1> USE DEF cache
<1>1. TabTypeOK /\ Roled /\ OwnIsOfTheRole
  BY DEF TabInv
<1> DEFINE Goal == OwnEntry(session.role)' /\ OwnFetch(session.role)' /\ OwnChange(session.role)'
<1> SUFFICES ASSUME SignedIn', ~ crossed'
             PROVE  Goal
  BY DEF OwnIsOfTheRole
<1>2. SignedIn /\ ~ crossed =>
        /\ UNCHANGED <<session, watched, entry>> => OwnEntry(session.role)'
        /\ UNCHANGED <<session, fetch>> => OwnFetch(session.role)'
        /\ UNCHANGED <<session, watched, change>> => OwnChange(session.role)'
  BY <1>1 DEF OwnIsOfTheRole, OwnEntry, OwnFetch, OwnChange, Missed, Watched
<1>3. /\ entry' \in {None, Foreign(entry)} => OwnEntry(session.role)'
      /\ fetch' \in {None, Foreign(fetch)} => OwnFetch(session.role)'
      /\ change' \in {None, Foreign(change)} => OwnChange(session.role)'
  BY <1>1, ForeignIsNotOwn DEF OwnEntry, OwnFetch, OwnChange
<1>4. UNCHANGED <<session, crossed>> => SignedIn /\ ~ crossed
  BY DEF SignedIn
<1>5. ASSUME UNCHANGED <<session, crossed, watched, entry, fetch, change>>
      PROVE  Goal
  BY <1>2, <1>4, <1>5
<1>11. ASSUME NEW u \in DOMAIN RolesOf, Login(u)
       PROVE  Goal
  BY <1>3, <1>11 DEF Login
<1>12. ASSUME Logout \/ Expire
       PROVE  Goal
  BY <1>12 DEF Logout, Expire, SignedIn
<1>13. ASSUME \/ DismissExpired \/ LearnFlags \/ Redraw
              \/ \E p \in RelevantTo[watched] : Navigate(p)
       PROVE  Goal
  BY <1>5, <1>13 DEF DismissExpired, LearnFlags, Redraw, Navigate
<1>14. ASSUME AskPassword \/ \E r \in Everyone : AskSwitch(r)
       PROVE  Goal
  BY <1>5, <1>14 DEF AskPassword, AskSwitch, Ask
<1>15. ASSUME NEW q \in auth, SwitchAnswered(q)
       PROVE  Goal
  BY <1>3, <1>15 DEF SwitchAnswered
<1>17. ASSUME NEW q \in auth, PasswordAnswered(q)
       PROVE  Goal
  <2>1. CASE SignedIn /\ q.own
    <3>1. ~ crossed /\ q.role = session.role /\ UNCHANGED <<watched, entry, fetch, change>>
      BY <1>17, <2>1 DEF PasswordAnswered
    <3>2. session'.role = session.role
      BY <1>17, <3>1 DEF PasswordAnswered, SignsIn
    <3> QED
      BY <1>1, <2>1, <3>1, <3>2 DEF OwnIsOfTheRole, OwnEntry, OwnFetch, OwnChange, Missed, Watched
  <2>2. CASE ~ (SignedIn /\ q.own)
    BY <1>3, <1>17, <2>2 DEF PasswordAnswered
  <2> QED
    BY <2>1, <2>2
<1>18. ASSUME NEW q \in auth, AuthFails(q)
       PROVE  Goal
  BY <1>5, <1>18 DEF AuthFails
<1>19. CASE Reload
  BY <1>3, <1>19 DEF Reload
<1>20. CASE StartFetch
  BY <1>2, <1>4, <1>20 DEF StartFetch, OwnFetch, Asked
<1>21. CASE Answered
  <2>1. OwnEntry(session.role)'
    <3>1. entry' = [role |-> fetch.role, own |-> fetch.own, valid |-> TRUE,
                    behind |-> IF fetch.late THEN "overtaken" ELSE "no"]
      BY <1>21 DEF Answered
    <3>2. fetch.own => fetch.role = session.role
      BY <1>1, <1>4, <1>21 DEF Answered, OwnIsOfTheRole, OwnFetch
    <3>3. UNCHANGED session
      BY <1>21 DEF Answered
    <3> QED
      BY <3>1, <3>2, <3>3 DEF OwnEntry
  <2> QED
    BY <1>2, <1>3, <1>4, <1>21, <2>1 DEF Answered
<1>22. CASE FetchFails
  BY <1>2, <1>3, <1>4, <1>22 DEF FetchFails
<1>23. ASSUME NEW c \in ChangesOf[watched][page], Submit(c)
       PROVE  Goal
  <2>1. change' = [own |-> TRUE, touches |-> Touches(c, Watched), tells |-> Tells(c, Watched),
                   from |-> IF Tells(c, Watched) THEN Elsewhere.name ELSE page]
    BY <1>23 DEF Submit
  <2>2. page \in DOMAIN PageAt /\ session.role \in PageAt[page].roles
    BY <1>1, <1>23, PagesOfTheRouter DEF TabTypeOK, Submit, Mounted, Admitted, Current
  <2>3. session.role \in c.route.roles /\ UNCHANGED <<session, watched>>
    BY <1>23 DEF Submit
  <2>4. Touches(c, Watched) /\ ~ Tells(c, Watched) =>
          \E d \in ChangesOf[watched][page] :
            session.role \in d.route.roles /\ Touches(d, Watched) /\ ~ Tells(d, Watched)
    BY <2>3
  <2>5. OwnChange(session.role)'
    <3>1. CASE Touches(c, Watched) /\ ~ Tells(c, Watched)
      <4>1. change'.from = page /\ session'.role = session.role /\ watched' = watched
        BY <2>1, <2>3, <3>1
      <4>2. Missed(change.from, session.role)'
        BY <2>2, <2>4, <3>1, <4>1 DEF Missed, Watched
      <4> QED
        BY <4>2 DEF OwnChange
    <3>2. CASE ~ (Touches(c, Watched) /\ ~ Tells(c, Watched))
      <4>1. change'.touches = Touches(c, Watched) /\ change'.tells = Tells(c, Watched)
        BY <2>1
      <4> QED
        BY <3>2, <4>1 DEF OwnChange
    <3> QED
      BY <3>1, <3>2
  <2> QED
    BY <1>2, <1>4, <1>23, <2>5 DEF Submit
<1>24. CASE ChangeAnswered
  <2>1. UNCHANGED <<session, crossed, watched>> /\ change' = None /\ SignedIn /\ ~ crossed
    BY <1>4, <1>24 DEF ChangeAnswered
  <2>2. OwnFetch(session.role)'
    <3>1. fetch' \in {None, fetch, Asked} \/ (fetch # None /\ fetch' = [fetch EXCEPT !.late = TRUE])
      BY <1>24 DEF ChangeAnswered
    <3>2. fetch # None => fetch \in Fetches
      BY <1>1 DEF TabTypeOK
    <3>3. OwnFetch(session.role)
      BY <1>1, <2>1 DEF OwnIsOfTheRole
    <3> QED
      BY <2>1, <3>1, <3>2, <3>3 DEF OwnFetch, Asked, Fetches
  <2>3. OwnEntry(session.role)'
    <3> SUFFICES ASSUME entry' # None, entry'.own
                 PROVE  /\ entry'.role = session.role
                        /\ entry'.valid => entry'.behind \in {"no", "overtaken"}
                                             \/ Missed(entry'.behind, session.role)
      BY <2>1 DEF OwnEntry, Missed, Watched
    <3>1. entry # None /\ entry \in Entries /\ change \in Changes
      BY <1>1, <1>24 DEF ChangeAnswered, Outdated, TabTypeOK
    <3>2. /\ entry'.role = entry.role /\ entry'.own = entry.own
          /\ entry'.valid = (entry.valid /\ ~ change.tells)
          /\ entry'.behind = IF ~ (change.touches /\ change.own) THEN entry.behind
                             ELSE IF change.tells THEN "told" ELSE change.from
      BY <1>24, <3>1 DEF ChangeAnswered, Outdated, Entries
    <3>3. OwnEntry(session.role) /\ OwnChange(session.role) /\ change # None
      BY <1>1, <1>24, <2>1 DEF OwnIsOfTheRole, ChangeAnswered
    <3> QED
      BY <3>1, <3>2, <3>3 DEF OwnEntry, OwnChange
  <2> QED
    BY <1>2, <1>3, <2>1, <2>2, <2>3
<1>25. CASE ChangeFails
  BY <1>2, <1>3, <1>4, <1>25 DEF ChangeFails
<1>26. CASE UNCHANGED tabVars
  BY <1>5, <1>26 DEF tabVars
<1> QED
  BY <1>11, <1>12, <1>13, <1>14, <1>15, <1>17, <1>18, <1>19, <1>20, <1>21, <1>22,
     <1>23, <1>24, <1>25, <1>26 DEF TabNext

LEMMA TabInvariant == TabSpec => []TabInv
<1>1. TabInit => TabInv
  BY TabTypeInit DEF TabInit, TabInv, OwnIsOfTheRole, SignedIn
<1>2. TabInv /\ [TabNext]_tabVars => TabInv'
  BY OwnNext, TabTypeNext DEF TabInv
<1> QED
  BY <1>1, <1>2, PTL DEF TabSpec

(* What a sign-in has in its cache was asked for by the role it acts in,   *)
(* with any number of switches and changes of password on their way at     *)
(* once, answered in any order or after a sign-out (app/App.tsx:1209, the  *)
(* role switch clears the cache), but for a password changed in another    *)
(* role than it was sent in.                                               *)
THEOREM SwitchStartsAfreshHolds == TabSpec => []SwitchStartsAfresh
<1>1. TabInv => SwitchStartsAfresh
  BY DEF TabInv, OwnIsOfTheRole, OwnEntry, SwitchStartsAfresh
<1> QED
  BY TabInvariant, <1>1, PTL

(* When the changes of each page tell, to each role, the keys that depend  *)
(* on them, but for those known to be forgotten, then what a page shows    *)
(* of the cache once nothing is on its way has the changes answered to     *)
(* this tab, whatever came between: the cache itself loses none.           *)
THEOREM OwnChangesAreShownHolds ==
  ASSUME ChangesAreTold
  PROVE  TabSpec => []OwnChangesAreShown
<1>1. ASSUME TabInv
      PROVE  OwnChangesAreShown
  <2> SUFFICES ASSUME Settled, ~ (entry.behind \in {"no", "overtaken"})
               PROVE  <<entry.behind, watched>> \in Forgotten
    BY DEF OwnChangesAreShown
  <2> DEFINE r == session.role
  <2>1. /\ SignedIn /\ r \in PageAt[page].roles /\ Watched \in PageAt[page].reads[r]
        /\ entry # None /\ entry.own /\ entry.valid /\ ~crossed
    BY DEF Settled, Watching, Mounted, Admitted, Current
  <2>2. page \in DOMAIN PageAt /\ watched \in DOMAIN QueryFor /\ r \in Everyone
    <3>1. session \in [user : DOMAIN RolesOf, role : Everyone, forced : BOOLEAN]
      BY <1>1, <2>1 DEF TabInv, TabTypeOK, SignedIn
    <3> HIDE DEF Everyone
    <3> QED
      BY <1>1, <3>1, PagesOfTheRouter DEF TabInv, TabTypeOK
  <2>3. ReadBy(r, watched)
    BY <2>1, <2>2 DEF ReadBy, Watched
  <2>4. Missed(entry.behind, r)
    BY <1>1, <2>1 DEF TabInv, OwnIsOfTheRole, OwnEntry
  <2> QED
    BY <2>2, <2>3, <2>4 DEF ChangesAreTold, Missed, Watched
<1> QED
  BY TabInvariant, <1>1, PTL

(* When the server answers each role what its pages ask for, but for the   *)
(* known refusals, no tab is ever refused anything else: it mounts no page *)
(* but those of the role it acts in, also across switches and sign-ins.    *)
THEOREM RequestsAreAdmittedHolds ==
  ASSUME RequestsAreServed
  PROVE  TabSpec => []RequestsAreAdmitted
<1>1. ASSUME NEW k \in DOMAIN QueryFor
      PROVE  QueryFor[k].key = k
  <2>1. PICK q \in Queries : q.key = k
    BY DEF QueryFor
  <2> HIDE DEF Queries
  <2> QED
    BY <2>1 DEF QueryFor
<1>2. ASSUME TabTypeOK
      PROVE  RequestsAreAdmitted
  <2> SUFFICES ASSUME Watching, session.role \notin Watched.route.roles
               PROVE  <<page, watched, session.role>> \in Refused
    BY DEF RequestsAreAdmitted
  <2>1. session.role \in PageAt[page].roles /\ Watched \in PageAt[page].reads[session.role]
    BY DEF Watching, Mounted, Admitted, Current
  <2>2. page \in DOMAIN PageAt /\ Watched.key = watched
    BY <1>1, <1>2, PagesOfTheRouter DEF TabTypeOK, Watched
  <2> QED
    BY <2>1, <2>2 DEF RequestsAreServed
<1> QED
  BY TabTypeCorrect, <1>2, PTL
=============================================================================
