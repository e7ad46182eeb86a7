------------------------- MODULE Promotions_proofs --------------------------
(***************************************************************************)
(* Proofs about Promotions, for any number of Admins, sessions, students,  *)
(* classes, previews and logs.  PromotionInv is the inductive invariant: a *)
(* plan is sound from its preview through its commit to its log, and what  *)
(* a transaction still has to update, or has updated, are students of its  *)
(* plan.  SerialInv adds, for one request at a time, that what a request   *)
(* has read is still so when it writes.                                    *)
(***************************************************************************)
EXTENDS Promotions, TLAPS

(* What a request in flight carries.                                       *)
LEMMA RequestFields ==
  ASSUME TypeOK, NEW a \in Admins
  PROVE  /\ req[a].op \in {"activate", "activating", "close"} => req[a].session \in Sessions
         /\ req[a].op \in {"preview", "commit", "rollback"} => req[a].plan \in Plans
         /\ req[a].op \in {"commit", "rollback"} =>
              /\ req[a].left \in SUBSET Students /\ req[a].held \in SUBSET Students
              /\ req[a].goal \in Snapshots
         /\ req[a].op = "commit" => req[a].of \in Previews
         /\ req[a].op = "rollback" => req[a].of \in Logs
         /\ req[a].op = "class" =>
              /\ req[a].from \in Classes /\ req[a].to \in Classes \cup {Nowhere}
              /\ req[a].found \in SUBSET Students
         /\ req[a].op = "edit" =>
              req[a].student \in Students /\ req[a].seat \in Seats /\ req[a].life \in Lives
  BY DEF TypeOK, Requests, Idle

LEMMA PlanFields ==
  ASSUME NEW plan \in Plans
  PROVE  /\ plan.from \in Sessions /\ plan.to \in Sessions
         /\ plan.snapshot \in Snapshots
         /\ DOMAIN plan.snapshot \in SUBSET Students
         /\ \A s \in DOMAIN plan.snapshot : plan.snapshot[s] \in Classes
<1>1. plan.from \in Sessions /\ plan.to \in Sessions /\ plan.snapshot \in Snapshots
  BY DEF Plans
<1>2. PICK some \in SUBSET Students : plan.snapshot \in [some -> Classes]
  BY <1>1 DEF Snapshots
<1> QED
  BY <1>1, <1>2

LEMMA RowKinds ==
  /\ \A e \in Entries : e # NoRow /\ e.plan \in Plans
  /\ \A plan \in Plans : plan # NoRow /\ plan # Gone
  /\ NoRow # Gone
  BY DEF Entries, Plans, NoRow, Gone

LEMMA SnapshotFields ==
  ASSUME NEW shot \in Snapshots
  PROVE  DOMAIN shot \in SUBSET Students /\ \A s \in DOMAIN shot : shot[s] \in Classes
  BY DEF Snapshots

(* A transaction goes on: only what is left and what is held change.       *)
LEMMA Advance ==
  ASSUME TypeOK, NEW a \in Admins, InTransaction(a), NEW s \in Students,
         NEW r, r = Updated(req[a], s)
  PROVE  /\ r \in Requests
         /\ r.op = req[a].op /\ r.of = req[a].of /\ r.plan = req[a].plan
         /\ r.goal = req[a].goal
         /\ r.left = req[a].left \ {s} /\ r.held = req[a].held \cup {s}
<1> DEFINE Of(op, ids) == [op : {op}, of : ids, plan : Plans, goal : Snapshots,
                           left : SUBSET Students, held : SUBSET Students]
<1>1. req[a] \in Of("commit", Previews) \/ req[a] \in Of("rollback", Logs)
  BY DEF TypeOK, Requests, InTransaction, Idle
<1>2. CASE req[a] \in Of("commit", Previews)
  <2>1. r \in Of("commit", Previews)
    BY <1>2 DEF Updated
  <2> QED
    BY <1>2, <2>1 DEF Requests, Updated
<1>3. CASE req[a] \in Of("rollback", Logs)
  <2>1. r \in Of("rollback", Logs)
    BY <1>3 DEF Updated
  <2> QED
    BY <1>3, <2>1 DEF Requests, Updated
<1> QED
  BY <1>1, <1>2, <1>3

(* Where a promotion leads a student: to a class of the other session, of  *)
(* the level and section of the class left.                                *)
Leads(plan, goal) ==
  \A s \in DOMAIN goal :
    /\ s \in DOMAIN plan.snapshot
    /\ goal[s] \in Onward(plan.snapshot[s], plan.to)

LEMMA GoalLeads ==
  ASSUME NEW plan \in Plans, NEW named
  PROVE  /\ GoalOf(plan, named) \in Snapshots
         /\ DOMAIN GoalOf(plan, named) = Movable(plan, named)
         /\ Leads(plan, GoalOf(plan, named))
<1> DEFINE M == Movable(plan, named)
           goal == GoalOf(plan, named)
<1>1. DOMAIN goal = M
  BY DEF GoalOf
<1>2. \A s \in M : goal[s] \in Peers(plan.snapshot[s], named[s], plan.to)
  BY DEF GoalOf, Movable
<1>3. M \in SUBSET Students /\ M \subseteq DOMAIN plan.snapshot
  BY PlanFields DEF Movable
<1>4. \A s \in M : goal[s] \in Onward(plan.snapshot[s], plan.to)
  BY <1>2 DEF Peers
<1>5. \A s \in M : goal[s] \in Classes
  BY <1>4 DEF Onward
<1>6. goal = [s \in M |-> goal[s]]
  BY DEF GoalOf
<1>7. goal \in [M -> Classes]
  <2> HIDE DEF M, goal
  <2> QED
    BY <1>5, <1>6
<1> QED
  <2>1. Leads(plan, goal)
    BY <1>1, <1>3, <1>4 DEF Leads
  <2> HIDE DEF M, goal
  <2>2. goal \in Snapshots
    BY <1>3, <1>7 DEF Snapshots
  <2> QED
    BY <1>1, <2>1, <2>2 DEF M, goal

(* A preview names Active students of the classes of its session.          *)
LEMMA PlanOfIsPlan ==
  ASSUME TypeOK, NEW from \in Sessions, NEW to \in Sessions
  PROVE  /\ PlanOf(from, to) \in Plans
         /\ PlanOf(from, to).from = from
         /\ \A s \in DOMAIN PlanOf(from, to).snapshot :
              SessionOf[PlanOf(from, to).snapshot[s]] = from
<1> DEFINE found == {s \in Students : life[s] = "Active" /\ seat[s].class \in Classes
                                       /\ SessionOf[seat[s].class] = from}
           shot == [s \in found |-> seat[s].class]
<1>1. PlanOf(from, to) = [row |-> "kept", from |-> from, to |-> to, snapshot |-> shot]
  BY DEF PlanOf
<1>2. shot \in [found -> Classes] /\ found \in SUBSET Students
  OBVIOUS
<1>3. shot \in Snapshots
  <2> HIDE DEF found, shot
  <2> QED
    BY <1>2 DEF Snapshots
<1>4. DOMAIN shot = found /\ \A s \in found : SessionOf[shot[s]] = from
  OBVIOUS
<1> QED
  <2> HIDE DEF found, shot
  <2> QED
    BY <1>1, <1>3, <1>4 DEF Plans

-----------------------------------------------------------------------------
(* A commit leads students where its plan does, a rollback back to where   *)
(* its log has them from.                                                  *)
Follows(r) ==
  /\ r.op \in {"commit", "rollback"} => r.left \cup r.held = DOMAIN r.goal
  /\ r.op = "commit" => Leads(r.plan, r.goal)
  /\ r.op = "rollback" =>
       log[r.of] # NoRow /\ r.plan = log[r.of].plan /\ r.goal = r.plan.snapshot

TransactionsFollowPlans == \A a \in Admins : Follows(req[a])

Began(plan) ==
  /\ status[plan.from] \in {"ACTIVE", "COMPLETED"}
  /\ \A s \in DOMAIN plan.snapshot : SessionOf[plan.snapshot[s]] = plan.from

PlansBegan ==
  /\ \A p \in Previews : preview[p] \in Plans => Began(preview[p])
  /\ \A a \in Admins : req[a].op \in {"preview", "commit"} => Began(req[a].plan)
  /\ \A l \in Logs : log[l] # NoRow => Began(log[l].plan)

(* A seat that a promotion gave is in the log of the promotion.            *)
Logged(s, given) ==
  \A l \in Logs : given.by = l =>
    /\ log[l] # NoRow
    /\ s \in DOMAIN log[l].plan.snapshot
    /\ given.class \in Onward(log[l].plan.snapshot[s], log[l].plan.to)

SeatsAreLogged ==
  /\ \A s \in Students : Logged(s, seat[s])
  /\ \A a \in Admins : req[a].op = "edit" => Logged(req[a].student, req[a].seat)

PromotionInv ==
  /\ TypeOK
  /\ TransactionsFollowPlans
  /\ PlansBegan
  /\ SeatsAreLogged
  /\ OneActiveSession

LEMMA InvImplies == PromotionInv => PromotedAreLogged /\ SourceWasActive
  BY DEF PromotionInv, SeatsAreLogged, Logged, PromotedAreLogged, PlansBegan, Began,
         SourceWasActive

LEMMA InvInit == Init => PromotionInv
<1> SUFFICES ASSUME Init PROVE PromotionInv
  OBVIOUS
<1>1. TypeOK
  BY DEF Init, TypeOK, Seats, Lives, Requests
<1>2. TransactionsFollowPlans /\ PlansBegan
  BY RowKinds DEF Init, Idle, TransactionsFollowPlans, Follows, PlansBegan
<1>3. SeatsAreLogged /\ OneActiveSession
  BY ClassesAssumption DEF Init, Idle, SeatsAreLogged, Logged, OneActiveSession
<1> QED
  BY <1>1, <1>2, <1>3 DEF PromotionInv

-----------------------------------------------------------------------------
(* A step of a request that writes nothing: what matters is the request it *)
(* becomes.                                                                *)
LEMMA RequestStep ==
  ASSUME PromotionInv, NEW a \in Admins, NEW r \in Requests,
         req' = [req EXCEPT ![a] = r],
         UNCHANGED <<sessionVars, studentVars, promotionVars>>,
         Follows(r),
         r.op \in {"preview", "commit"} => Began(r.plan),
         r.op = "edit" => Logged(r.student, r.seat)
  PROVE  PromotionInv'
<1> USE DEF sessionVars, studentVars, promotionVars
<1>1. /\ \A b \in Admins \ {a} : req'[b] = req[b]
      /\ req'[a] = r
  BY DEF PromotionInv, TypeOK
<1>2. TypeOK'
  BY DEF PromotionInv, TypeOK
<1>3. TransactionsFollowPlans'
  BY <1>1 DEF PromotionInv, TransactionsFollowPlans, Follows
<1>4. PlansBegan'
  BY <1>1 DEF PromotionInv, PlansBegan, Began
<1>5. SeatsAreLogged'
  BY <1>1 DEF PromotionInv, SeatsAreLogged, Logged
<1>6. OneActiveSession'
  BY DEF PromotionInv, OneActiveSession
<1> QED
  BY <1>2, <1>3, <1>4, <1>5, <1>6 DEF PromotionInv

(* A request that ends writes, at most, to sessions that began.            *)
LEMMA SessionStep ==
  ASSUME PromotionInv, TypeOK', OneActiveSession',
         UNCHANGED <<studentVars, promotionVars>>,
         \A b \in Admins : req'[b] = req[b] \/ req'[b] = Idle,
         \A x \in Sessions : status[x] \in {"ACTIVE", "COMPLETED"} =>
                               status'[x] \in {"ACTIVE", "COMPLETED"}
  PROVE  PromotionInv'
<1> USE DEF studentVars, promotionVars
<1>1. TransactionsFollowPlans'
  BY DEF PromotionInv, TransactionsFollowPlans, Follows, Idle
<1>2. ASSUME NEW plan \in Plans, status[plan.from] \in {"ACTIVE", "COMPLETED"}
      PROVE  status'[plan.from] \in {"ACTIVE", "COMPLETED"}
  BY <1>2, PlanFields
<1>3. PlansBegan'
  <2>1. \A p \in Previews : (preview[p] \in Plans => Began(preview[p]))'
    BY <1>2 DEF PromotionInv, PlansBegan, Began
  <2>2. \A b \in Admins : (req[b].op \in {"preview", "commit"} => Began(req[b].plan))'
    BY <1>2, RequestFields DEF PromotionInv, PlansBegan, Began, Idle
  <2>3. \A l \in Logs : (log[l] # NoRow => Began(log[l].plan))'
    BY <1>2, RowKinds DEF PromotionInv, PlansBegan, Began, TypeOK
  <2> QED
    BY <2>1, <2>2, <2>3 DEF PlansBegan
<1>4. SeatsAreLogged'
  BY DEF PromotionInv, SeatsAreLogged, Logged, Idle
<1> QED
  BY <1>1, <1>3, <1>4 DEF PromotionInv

(* A request that ends writes to the rows of students.                     *)
LEMMA StudentStep ==
  ASSUME PromotionInv, TypeOK',
         UNCHANGED <<sessionVars, preview, stale, log>>,
         \A b \in Admins : req'[b] = req[b] \/ req'[b] = Idle,
         \A s \in Students : Logged(s, seat'[s])
  PROVE  PromotionInv'
<1> USE DEF sessionVars
<1>1. TransactionsFollowPlans'
  BY DEF PromotionInv, TransactionsFollowPlans, Follows, Idle
<1>2. PlansBegan'
  BY DEF PromotionInv, PlansBegan, Began, Idle
<1>3. SeatsAreLogged'
  BY DEF PromotionInv, SeatsAreLogged, Logged, Idle
<1>4. OneActiveSession'
  BY DEF PromotionInv, OneActiveSession
<1> QED
  BY <1>1, <1>2, <1>3, <1>4 DEF PromotionInv

-----------------------------------------------------------------------------
LEMMA InvNext ==
  ASSUME PromotionInv, [Next]_vars
  PROVE  PromotionInv'
<1> USE DEF sessionVars, studentVars, promotionVars
<1>0. TypeOK
  BY DEF PromotionInv
<1>done. ASSUME NEW a \in Admins, Done(a)
         PROVE  /\ req' \in [Admins -> Requests]
                /\ \A b \in Admins : req'[b] = req[b] \/ req'[b] = Idle
  BY <1>0, <1>done DEF TypeOK, Done, Requests
<1>1. ASSUME NEW x \in Sessions, CreateSession(x)
      PROVE  PromotionInv'
  <2>1. TypeOK' /\ OneActiveSession'
    BY <1>1 DEF CreateSession, PromotionInv, TypeOK, OneActiveSession
  <2> QED
    BY <1>1, <2>1, SessionStep DEF CreateSession, PromotionInv, TypeOK
<1>2. ASSUME NEW a \in Admins, NEW x \in Sessions, StartActivate(a, x) \/ StartClose(a, x)
      PROVE  PromotionInv'
  <2>1. PICK r \in {[op |-> "activate", session |-> x], [op |-> "close", session |-> x]} :
          req' = [req EXCEPT ![a] = r] /\ UNCHANGED <<sessionVars, studentVars, promotionVars>>
    BY <1>2 DEF StartActivate, StartClose, Ask
  <2>2. r \in Requests
    BY DEF Requests
  <2> QED
    BY <2>1, <2>2, RequestStep DEF Follows
<1>3. ASSUME NEW a \in Admins, CheckActive(a)
      PROVE  PromotionInv'
  <2> DEFINE r == [op |-> "activating", session |-> req[a].session]
  <2>1. r \in Requests
    BY <1>0, <1>3, RequestFields DEF CheckActive, Requests
  <2> QED
    BY <1>3, <2>1, RequestStep DEF CheckActive, Follows
<1>4. ASSUME NEW a \in Admins, ActivateSession(a)
      PROVE  PromotionInv'
  <2>1. req[a].session \in Sessions
    BY <1>0, <1>4, RequestFields DEF ActivateSession
  <2>2. TypeOK'
    BY <1>done, <1>4, <2>1 DEF ActivateSession, PromotionInv, TypeOK
  <2>3. OneActiveSession'
    BY <1>0, <1>4, <2>1 DEF ActivateSession, IndexAllows, OthersActive, TypeOK, OneActiveSession
  <2> QED
    BY <1>done, <1>0, <1>4, <2>1, <2>2, <2>3, SessionStep DEF ActivateSession, TypeOK
<1>5. ASSUME NEW a \in Admins, CloseSession(a)
      PROVE  PromotionInv'
  <2>1. req[a].session \in Sessions
    BY <1>0, <1>5, RequestFields DEF CloseSession
  <2>2. TypeOK' /\ OneActiveSession'
    BY <1>done, <1>5, <2>1 DEF CloseSession, PromotionInv, TypeOK, OneActiveSession
  <2> QED
    BY <1>done, <1>0, <1>5, <2>1, <2>2, SessionStep DEF CloseSession, TypeOK
<1>6. ASSUME NEW a \in Admins, NEW from \in Sessions, NEW to \in Sessions,
             StartPreview(a, from, to)
      PROVE  PromotionInv'
  <2> DEFINE r == [op |-> "preview", plan |-> PlanOf(from, to)]
  <2>1. PlanOf(from, to) \in Plans
    BY <1>0, PlanOfIsPlan
  <2>2. Began(PlanOf(from, to))
    BY <1>0, <1>6, PlanOfIsPlan DEF StartPreview, Began
  <2>3. r \in Requests
    BY <2>1 DEF Requests
  <2> QED
    BY <1>6, <2>2, <2>3, RequestStep DEF StartPreview, Ask, Follows
<1>7. ASSUME NEW a \in Admins, NEW p \in Previews, SavePreview(a, p)
      PROVE  PromotionInv'
  <2>1. req[a].plan \in Plans /\ Began(req[a].plan)
    BY <1>0, <1>7, RequestFields DEF SavePreview, PromotionInv, PlansBegan
  <2>2. TypeOK'
    BY <1>done, <1>7, <2>1 DEF SavePreview, PromotionInv, TypeOK
  <2>3. TransactionsFollowPlans' /\ SeatsAreLogged' /\ OneActiveSession'
    BY <1>done, <1>7 DEF SavePreview, PromotionInv, TransactionsFollowPlans, Follows, SeatsAreLogged,
                         Logged, OneActiveSession, Idle
  <2>4. PlansBegan'
    BY <1>done, <1>0, <1>7, <2>1 DEF SavePreview, PromotionInv, PlansBegan, Began, Idle, TypeOK
  <2> QED
    BY <2>2, <2>3, <2>4 DEF PromotionInv
<1>8. ASSUME NEW p \in Previews, Expire(p) \/ CleanUp(p)
      PROVE  PromotionInv'
  <2>1. TypeOK'
    BY <1>8 DEF Expire, CleanUp, PromotionInv, TypeOK
  <2>2. TransactionsFollowPlans' /\ SeatsAreLogged' /\ OneActiveSession'
    BY <1>8 DEF Expire, CleanUp, PromotionInv, TransactionsFollowPlans, Follows, SeatsAreLogged,
                Logged, OneActiveSession
  <2>3. PlansBegan'
    BY <1>0, <1>8, RowKinds DEF Expire, CleanUp, PromotionInv, PlansBegan, Began, TypeOK
  <2> QED
    BY <2>1, <2>2, <2>3 DEF PromotionInv
<1>9. ASSUME NEW a \in Admins, NEW p \in Previews, NEW named \in Namings,
             StartCommit(a, p, named)
      PROVE  PromotionInv'
  <2> DEFINE r == [op |-> "commit", of |-> p, plan |-> preview[p],
                   goal |-> GoalOf(preview[p], named),
                   left |-> Movable(preview[p], named), held |-> {}]
  <2>1. preview[p] \in Plans /\ Began(preview[p])
    BY <1>9 DEF StartCommit, PromotionInv, PlansBegan
  <2>2. r \in Requests
    BY <2>1, GoalLeads, SnapshotFields DEF Requests
  <2>3. Follows(r)
    BY <2>1, GoalLeads DEF Follows
  <2>4. r.op = "commit" /\ r.plan = preview[p]
    OBVIOUS
  <2>5. req' = [req EXCEPT ![a] = r] /\ UNCHANGED <<sessionVars, studentVars, promotionVars>>
    BY <1>9 DEF StartCommit, Ask
  <2> HIDE DEF r
  <2> QED
    BY <2>1, <2>2, <2>3, <2>4, <2>5, RequestStep
<1>10. ASSUME NEW a \in Admins, NEW s \in Students, UpdateStudent(a, s)
       PROVE  PromotionInv'
  <2> DEFINE r == Updated(req[a], s)
  <2>1. /\ InTransaction(a) /\ s \in req[a].left
        /\ req' = [req EXCEPT ![a] = r]
        /\ UNCHANGED <<sessionVars, studentVars, promotionVars>>
    BY <1>0, <1>10 DEF UpdateStudent, TypeOK
  <2>2. /\ r \in Requests
        /\ r.op = req[a].op /\ r.of = req[a].of /\ r.plan = req[a].plan
        /\ r.goal = req[a].goal
        /\ r.left = req[a].left \ {s} /\ r.held = req[a].held \cup {s}
    BY <1>0, <2>1, Advance
  <2> HIDE DEF r
  <2>3. r.op \in {"commit", "rollback"}
    BY <2>1, <2>2 DEF InTransaction
  <2>4. Follows(r)
    BY <2>1, <2>2 DEF PromotionInv, TransactionsFollowPlans, Follows
  <2>5. r.op \in {"preview", "commit"} => Began(r.plan)
    BY <2>2 DEF PromotionInv, PlansBegan
  <2> QED
    BY <2>1, <2>2, <2>3, <2>4, <2>5, RequestStep
<1>11. ASSUME NEW a \in Admins, NEW l \in Logs, CommitPromotion(a, l)
       PROVE  PromotionInv'
  <2> DEFINE plan == req[a].plan
  <2>1. /\ plan \in Plans /\ Began(plan) /\ req[a].of \in Previews
        /\ req[a].goal \in Snapshots /\ Leads(plan, req[a].goal)
        /\ req[a].held \subseteq DOMAIN req[a].goal
    BY <1>0, <1>11, RequestFields DEF CommitPromotion, PromotionInv, PlansBegan,
                                      TransactionsFollowPlans, Follows
  <2>2. \A s \in req[a].held :
          /\ s \in DOMAIN plan.snapshot
          /\ req[a].goal[s] \in Onward(plan.snapshot[s], plan.to)
    BY <2>1 DEF Leads
  <2>3. \A s \in Students :
          \/ s \in req[a].held /\ seat'[s].by = l
             /\ seat'[s].class \in Onward(plan.snapshot[s], plan.to)
          \/ seat'[s] = seat[s]
    BY <1>11, <2>2 DEF CommitPromotion, SeatsAfter
  <2>4. seat' \in [Students -> Seats]
    <3>1. \A s \in req[a].held : [class |-> req[a].goal[s], by |-> l] \in Seats
      BY <2>2 DEF Onward, Seats
    <3> QED
      BY <1>0, <1>11, <3>1 DEF CommitPromotion, SeatsAfter, TypeOK
  <2>5. EntryOf(a) \in Entries /\ EntryOf(a).plan = plan
    BY <2>1 DEF EntryOf, Entries
  <2>6. /\ \A k \in Logs : log[k] # NoRow => log'[k] = log[k]
        /\ log'[l] = EntryOf(a) /\ \A k \in Logs \ {l} : log'[k] = log[k]
    BY <1>0, <1>11 DEF CommitPromotion, TypeOK
  <2>7. TypeOK'
    BY <1>done, <1>11, <2>1, <2>4, <2>5 DEF CommitPromotion, PromotionInv, TypeOK
  <2>8. TransactionsFollowPlans'
    BY <1>done, <1>0, <1>11, <2>6, RequestFields
       DEF CommitPromotion, PromotionInv, TransactionsFollowPlans, Follows, Idle
  <2>9. PlansBegan'
    <3>1. \A q \in Previews : (preview[q] \in Plans => Began(preview[q]))'
      BY <1>0, <1>11, <2>1, RowKinds DEF CommitPromotion, PromotionInv, PlansBegan, Began, TypeOK
    <3>2. \A b \in Admins : (req[b].op \in {"preview", "commit"} => Began(req[b].plan))'
      BY <1>done, <1>11 DEF CommitPromotion, PromotionInv, PlansBegan, Began, Idle
    <3>3. \A k \in Logs : (log[k] # NoRow => Began(log[k].plan))'
      BY <1>11, <2>1, <2>5, <2>6 DEF CommitPromotion, PromotionInv, PlansBegan, Began
    <3> QED
      BY <3>1, <3>2, <3>3 DEF PlansBegan
  <2>10. SeatsAreLogged'
    <3>1. ASSUME NEW s \in Students, NEW given, Logged(s, given), given.by # l
          PROVE  \A k \in Logs : given.by = k =>
                   /\ log'[k] # NoRow
                   /\ s \in DOMAIN log'[k].plan.snapshot
                   /\ given.class \in Onward(log'[k].plan.snapshot[s], log'[k].plan.to)
      BY <2>6, <3>1 DEF Logged
    <3>2. ASSUME NEW s \in Students, NEW given, Logged(s, given)
          PROVE  given.by # l
      BY <1>11, <3>2 DEF Logged, CommitPromotion
    <3>3. \A s \in Students : Logged(s, seat[s])'
      <4>1. ASSUME NEW s \in Students, seat'[s] = seat[s]
            PROVE  Logged(s, seat[s])'
        BY <3>1, <3>2, <4>1 DEF PromotionInv, SeatsAreLogged, Logged
      <4>2. ASSUME NEW s \in req[a].held, s \in Students, seat'[s].by = l,
                   seat'[s].class \in Onward(plan.snapshot[s], plan.to)
            PROVE  Logged(s, seat[s])'
        BY <2>2, <2>5, <2>6, <4>2, RowKinds DEF Logged
      <4> QED
        BY <2>3, <4>1, <4>2
    <3>4. \A b \in Admins : (req[b].op = "edit" => Logged(req[b].student, req[b].seat))'
      BY <1>done, <1>0, <1>11, <3>1, <3>2, RequestFields
         DEF PromotionInv, SeatsAreLogged, Logged, Idle, CommitPromotion
    <3> QED
      BY <3>3, <3>4 DEF SeatsAreLogged
  <2>11. OneActiveSession'
    BY <1>11 DEF CommitPromotion, PromotionInv, OneActiveSession
  <2> QED
    BY <2>7, <2>8, <2>9, <2>10, <2>11 DEF PromotionInv
<1>12. ASSUME NEW a \in Admins, NEW l \in Logs, StartRollback(a, l)
       PROVE  PromotionInv'
  <2> DEFINE r == [op |-> "rollback", of |-> l, plan |-> log[l].plan,
                   goal |-> log[l].plan.snapshot,
                   left |-> DOMAIN log[l].plan.snapshot, held |-> {}]
  <2>1. log[l] # NoRow /\ log[l].plan \in Plans
    BY <1>0, <1>12, RowKinds DEF StartRollback, TypeOK
  <2>2. r \in Requests
    BY <2>1, PlanFields DEF Requests
  <2>3. req' = [req EXCEPT ![a] = r] /\ UNCHANGED <<sessionVars, studentVars, promotionVars>>
    BY <1>12 DEF StartRollback, Ask
  <2>4. r.op = "rollback" /\ Follows(r)
    BY <2>1 DEF Follows
  <2> HIDE DEF r
  <2> QED
    BY <2>1, <2>2, <2>3, <2>4, RequestStep
<1>13. ASSUME NEW a \in Admins, FinishRollback(a)
       PROVE  PromotionInv'
  <2>1. /\ req[a].plan \in Plans /\ req[a].of \in Logs
        /\ req[a].goal \in Snapshots /\ req[a].held \subseteq DOMAIN req[a].goal
    BY <1>0, <1>13, RequestFields
    DEF FinishRollback, PromotionInv, TransactionsFollowPlans, Follows
  <2>2. \A s \in req[a].held : [class |-> req[a].goal[s], by |-> Hand] \in Seats
    BY <2>1, SnapshotFields DEF Seats
  <2>3. TypeOK'
    BY <1>done, <1>13, <2>1, <2>2 DEF FinishRollback, SeatsAfter, PromotionInv, TypeOK
  <2>4. \A s \in Students : Logged(s, seat'[s])
    BY <1>13, ClassesAssumption
    DEF FinishRollback, SeatsAfter, PromotionInv, SeatsAreLogged, Logged
  <2> QED
    BY <1>done, <1>13, <2>3, <2>4, StudentStep DEF FinishRollback
<1>14. ASSUME NEW a \in Admins, NEW m \in ClassMoves, StartPromoteClass(a, m[1], m[2])
       PROVE  PromotionInv'
  <2> DEFINE r == [op |-> "class", from |-> m[1], to |-> m[2],
                   found |-> {s \in Students : Here(s, m[1])}]
  <2>1. r \in Requests
    BY InputsAssumption DEF Requests
  <2> QED
    BY <1>14, <2>1, RequestStep DEF StartPromoteClass, Ask, Follows
<1>15. ASSUME NEW a \in Admins, PromoteClass(a)
       PROVE  PromotionInv'
  <2>1. req[a].to \in Classes \cup {Nowhere}
    BY <1>0, <1>15, RequestFields DEF PromoteClass
  <2>2. [class |-> req[a].to, by |-> Hand] \in Seats
    BY <2>1 DEF Seats
  <2>3. TypeOK'
    BY <1>done, <1>15, <2>2 DEF PromoteClass, PromotionInv, TypeOK, Lives
  <2>4. \A s \in Students : Logged(s, seat'[s])
    BY <1>15, ClassesAssumption DEF PromoteClass, PromotionInv, SeatsAreLogged, Logged
  <2> QED
    BY <1>done, <1>15, <2>3, <2>4, StudentStep DEF PromoteClass
<1>16. ASSUME NEW a \in Admins, NEW s \in Students, NEW edit \in Edits, StartEdit(a, s, edit)
       PROVE  PromotionInv'
  <2> DEFINE r == EditOf(s, edit, life[s])
  <2>1. /\ edit[1] \in Classes \cup {Nowhere}
        /\ edit[2] \in {"Active", "DroppedOff", "kept"}
    BY InputsAssumption
  <2>2. r \in Requests
    BY <1>0, <2>1 DEF EditOf, Requests, TypeOK, Seats, Lives
  <2>3. r.op = "edit" /\ Logged(r.student, r.seat) /\ Follows(r)
    BY ClassesAssumption DEF EditOf, PromotionInv, SeatsAreLogged, Logged, Follows
  <2>4. req' = [req EXCEPT ![a] = r] /\ UNCHANGED <<sessionVars, studentVars, promotionVars>>
    BY <1>16 DEF StartEdit, Ask
  <2> HIDE DEF r
  <2> QED
    BY <2>2, <2>3, <2>4, RequestStep
<1>17. ASSUME NEW a \in Admins, UpdateColumns(a)
       PROVE  PromotionInv'
  <2>1. /\ req[a].student \in Students /\ req[a].seat \in Seats /\ req[a].life \in Lives
        /\ Logged(req[a].student, req[a].seat)
    BY <1>0, <1>17, RequestFields DEF UpdateColumns, PromotionInv, SeatsAreLogged
  <2>2. TypeOK'
    BY <1>done, <1>17, <2>1 DEF UpdateColumns, PromotionInv, TypeOK
  <2>3. \A s \in Students : Logged(s, seat'[s])
    BY <1>0, <1>17, <2>1 DEF UpdateColumns, PromotionInv, SeatsAreLogged, TypeOK
  <2> QED
    BY <1>done, <1>17, <2>2, <2>3, StudentStep DEF UpdateColumns
<1>18. ASSUME NEW a \in Admins, AbortRequest(a)
       PROVE  PromotionInv'
  <2>1. Idle \in Requests
    BY DEF Requests
  <2> QED
    BY <1>18, <2>1, RequestStep DEF AbortRequest, Done, Idle, Follows
<1>19. CASE UNCHANGED vars
  <2>1. TypeOK' /\ OneActiveSession'
    BY <1>19 DEF vars, PromotionInv, TypeOK, OneActiveSession
  <2> QED
    BY <1>19, <2>1, SessionStep DEF vars
<1> QED
  BY <1>1, <1>2, <1>3, <1>4, <1>5, <1>6, <1>7, <1>8, <1>9, <1>10, <1>11, <1>12, <1>13,
     <1>14, <1>15, <1>16, <1>17, <1>18, <1>19
     DEF Next, SessionHandler, PromotionHandler, StudentHandler

LEMMA Invariance == Spec => []PromotionInv
BY InvInit, InvNext, PTL DEF Spec

-----------------------------------------------------------------------------
(* The handlers of sessions, promotions and students keep every column and *)
(* every request within its type.                                          *)
THEOREM TypeCorrect == Spec => []TypeOK
<1>1. PromotionInv => TypeOK
  BY DEF PromotionInv
<1> QED
  BY <1>1, Invariance, PTL

(* At most one session is ACTIVE, whatever activations and closings race:  *)
(* activateSession and closeSession, and the partial unique index.         *)
THEOREM OneActiveSessionHolds == Spec => []OneActiveSession
<1>1. PromotionInv => OneActiveSession
  BY DEF PromotionInv
<1> QED
  BY <1>1, Invariance, PTL

(* Whom transitionCommit moved is in its log, and in a class of the        *)
(* session and of the level and section the log leads to, under whatever   *)
(* batch the request named the student, and also when updateStudent writes *)
(* back an old class.                                                      *)
THEOREM PromotedAreLoggedHolds == Spec => []PromotedAreLogged
BY InvImplies, Invariance, PTL

(* transitionCommit moves students out of a session that was ACTIVE.       *)
THEOREM SourceWasActiveHolds == Spec => []SourceWasActive
BY InvImplies, Invariance, PTL

(* rollbackPromotion marks its log in the step that puts back everybody.   *)
THEOREM RollbackIsWholeHolds == Spec => RollbackIsWhole
<1> DEFINE Whole == \A l \in undone' \ undone : \A s \in DOMAIN log[l].plan.snapshot :
                      seat'[s] = [class |-> log[l].plan.snapshot[s], by |-> Hand]
<1>1. ASSUME PromotionInv, [Next]_vars
      PROVE  Whole
  <2>1. ASSUME NEW a \in Admins, FinishRollback(a)
        PROVE  Whole
    <3>1. /\ undone' \ undone \subseteq {req[a].of}
          /\ req[a].goal = log[req[a].of].plan.snapshot
          /\ req[a].held = DOMAIN req[a].goal
          /\ req[a].held \in SUBSET Students
      BY <1>1, <2>1, RequestFields
      DEF FinishRollback, PromotionInv, TransactionsFollowPlans, Follows
    <3> QED
      BY <2>1, <3>1 DEF FinishRollback, SeatsAfter
  <2>2. ASSUME ~ \E a \in Admins : FinishRollback(a)
        PROVE  undone' = undone
    BY <1>1, <2>2 DEF Next, SessionHandler, PromotionHandler, StudentHandler, vars,
         sessionVars, studentVars, promotionVars, CreateSession, Expire, CleanUp,
         StartActivate, CheckActive, ActivateSession, StartClose, CloseSession,
         StartPreview, SavePreview, StartCommit, UpdateStudent, CommitPromotion,
         StartRollback, StartPromoteClass, PromoteClass, StartEdit, UpdateColumns,
         AbortRequest
  <2> QED
    BY <2>1, <2>2
<1>2. PromotionInv /\ [Next]_vars => [Whole]_vars
  BY <1>1
<1> QED
  BY <1>2, Invariance, PTL DEF Spec, RollbackIsWhole

-----------------------------------------------------------------------------
(* One request at a time: what a request has read is still so when it      *)
(* writes, and what a promotion settles stays settled.                     *)
Current(r) ==
  /\ r.op \in {"activate", "activating"} => status[r.session] = "UPCOMING"
  /\ r.op = "commit" => \A l \in Logs : log[l] # NoRow => log[l].of # r.of
  /\ r.op = "rollback" => r.of \notin undone
  /\ r.op = "edit" =>
       /\ IF "class" \in r.keeps THEN r.seat = seat[r.student] ELSE r.seat.by = Hand
       /\ "status" \in r.keeps => r.life = life[r.student]

ReadsAreCurrent == \A a \in Admins : Current(req[a])

(* A preview that was committed is used up, and a log is rolled back only  *)
(* after it was written.                                                   *)
Settled ==
  /\ \A l \in Logs : log[l] # NoRow => preview[log[l].of] = Gone
  /\ \A l \in undone : log[l] # NoRow

SerialInv ==
  PromotionInv /\ ReadsAreCurrent /\ Settled /\ CommittedOnce /\ RolledBackLeavesNobody

LEMMA SerialInit == Init => SerialInv
  BY InvInit, ClassesAssumption
  DEF Init, SerialInv, ReadsAreCurrent, Current, Settled, CommittedOnce,
      RolledBackLeavesNobody, Idle

(* A request begins, goes on or ends: all the others are idle.             *)
LEMMA AloneStep ==
  ASSUME TypeOK, OneRequest, OneRequest', NEW a \in Admins, NEW r,
         req' = [req EXCEPT ![a] = r], req[a] # Idle \/ r # Idle
  PROVE  /\ req'[a] = r
         /\ \A b \in Admins : b # a => req'[b] = Idle
  BY DEF TypeOK, OneRequest

(* So it is enough to look at what it has become.                          *)
LEMMA SerialRequest ==
  ASSUME SerialInv, PromotionInv', OneRequest, OneRequest', NEW a \in Admins, NEW r,
         req' = [req EXCEPT ![a] = r], req[a] # Idle \/ r # Idle,
         UNCHANGED <<sessionVars, studentVars, promotionVars>>, Current(r)
  PROVE  SerialInv'
<1> USE DEF sessionVars, studentVars, promotionVars
<1>1. req'[a] = r /\ \A b \in Admins : b # a => req'[b] = Idle
  BY AloneStep DEF SerialInv, PromotionInv
<1>2. ReadsAreCurrent'
  BY <1>1 DEF ReadsAreCurrent, Current, Idle
<1> QED
  BY <1>2 DEF SerialInv, Settled, CommittedOnce, RolledBackLeavesNobody

(* When it ends, nothing that was read is left to grow old.                *)
LEMMA SerialDone ==
  ASSUME TypeOK, OneRequest, OneRequest', NEW a \in Admins, req[a] # Idle, Done(a)
  PROVE  ReadsAreCurrent'
<1>1. \A b \in Admins : req'[b] = Idle
  BY AloneStep DEF Done
<1> QED
  BY <1>1 DEF ReadsAreCurrent, Current, Idle

LEMMA SerialSessions ==
  ASSUME SerialInv, PromotionInv', OneRequest, OneRequest', NEW a \in Admins, SessionHandler(a)
  PROVE  SerialInv'
<1> USE DEF sessionVars, studentVars, promotionVars
<1>0. TypeOK
  BY DEF SerialInv, PromotionInv
<1>1. ASSUME NEW x \in Sessions, StartActivate(a, x) \/ StartClose(a, x)
      PROVE  SerialInv'
  BY <1>1, SerialRequest DEF StartActivate, StartClose, Ask, Current, Idle
<1>2. CASE CheckActive(a)
  <2>1. Current([op |-> "activating", session |-> req[a].session])
    BY <1>2 DEF CheckActive, SerialInv, ReadsAreCurrent, Current
  <2> QED
    BY <1>2, <2>1, SerialRequest DEF CheckActive, Idle
<1>3. CASE ActivateSession(a) \/ CloseSession(a)
  <2>1. ReadsAreCurrent'
    BY <1>0, <1>3, SerialDone DEF ActivateSession, CloseSession, Idle
  <2> QED
    BY <1>3, <2>1
    DEF ActivateSession, CloseSession, SerialInv, Settled, CommittedOnce, RolledBackLeavesNobody
<1> QED
  BY <1>1, <1>2, <1>3 DEF SessionHandler

(* A seat that a log gives to the students of its plan.                    *)
LEMMA SerialPromotions ==
  ASSUME SerialInv, PromotionInv', OneRequest, OneRequest', NEW a \in Admins, PromotionHandler(a)
  PROVE  SerialInv'
<1> USE DEF sessionVars, studentVars, promotionVars
<1>0. TypeOK /\ PromotionInv
  BY DEF SerialInv, PromotionInv
<1>1. ASSUME NEW from \in Sessions, NEW to \in Sessions, StartPreview(a, from, to)
      PROVE  SerialInv'
  BY <1>1, SerialRequest DEF StartPreview, Ask, Current, Idle
<1>2. ASSUME NEW p \in Previews, SavePreview(a, p)
      PROVE  SerialInv'
  <2>1. ReadsAreCurrent'
    BY <1>0, <1>2, SerialDone DEF SavePreview, Idle
  <2>2. Settled'
    BY <1>0, <1>2, RowKinds DEF SavePreview, SerialInv, Settled, TypeOK, Entries
  <2> QED
    BY <1>2, <2>1, <2>2 DEF SavePreview, SerialInv, CommittedOnce, RolledBackLeavesNobody
<1>3. ASSUME NEW p \in Previews, NEW named \in Namings, StartCommit(a, p, named)
      PROVE  SerialInv'
  <2> DEFINE r == [op |-> "commit", of |-> p, plan |-> preview[p],
                   goal |-> GoalOf(preview[p], named),
                   left |-> Movable(preview[p], named), held |-> {}]
  <2>1. \A l \in Logs : log[l] # NoRow => log[l].of # p
    BY <1>3, RowKinds DEF StartCommit, SerialInv, Settled
  <2>2. Current(r)
    BY <2>1 DEF Current
  <2>3. req' = [req EXCEPT ![a] = r] /\ r # Idle
    BY <1>3 DEF StartCommit, Ask, Idle
  <2>4. UNCHANGED <<sessionVars, studentVars, promotionVars>>
    BY <1>3 DEF StartCommit
  <2> HIDE DEF r
  <2> QED
    BY <2>2, <2>3, <2>4, SerialRequest
<1>4. ASSUME NEW s \in Students, UpdateStudent(a, s)
      PROVE  SerialInv'
  <2> DEFINE r == Updated(req[a], s)
  <2>1. /\ InTransaction(a) /\ req[a] # Idle /\ req' = [req EXCEPT ![a] = r]
        /\ UNCHANGED <<sessionVars, studentVars, promotionVars>>
    BY <1>4 DEF UpdateStudent, InTransaction, Idle
  <2>2. r.op = req[a].op /\ r.of = req[a].of
    BY <1>0, <2>1, Advance
  <2> HIDE DEF r
  <2>3. Current(r)
    BY <2>1, <2>2 DEF InTransaction, SerialInv, ReadsAreCurrent, Current
  <2> QED
    BY <2>1, <2>3, SerialRequest
<1>5. ASSUME NEW l \in Logs, CommitPromotion(a, l)
      PROVE  SerialInv'
  <2>1. ReadsAreCurrent'
    BY <1>0, <1>5, SerialDone DEF CommitPromotion, Idle
  <2>2. /\ log' = [log EXCEPT ![l] = EntryOf(a)] /\ log[l] = NoRow /\ UNCHANGED undone
        /\ preview' = [preview EXCEPT ![req[a].of] = Gone] /\ req[a].of \in Previews
        /\ EntryOf(a).of = req[a].of
        /\ \A k \in Logs : log[k] # NoRow => log[k].of # req[a].of
    BY <1>0, <1>5, RequestFields
    DEF CommitPromotion, EntryOf, SerialInv, ReadsAreCurrent, Current
  <2>3. \A k \in Logs : log[k] # NoRow => log[k].of \in Previews
    BY <1>0 DEF TypeOK, Entries
  <2>4. log' \in [Logs -> Entries \cup {NoRow}] /\ EntryOf(a) # NoRow
    BY <1>5, RowKinds DEF EntryOf, NoRow, PromotionInv, TypeOK
  <2>5. /\ log'[l] = EntryOf(a) /\ \A k \in Logs : k # l => log'[k] = log[k]
        /\ preview'[req[a].of] = Gone
        /\ \A p \in Previews : p # req[a].of => preview'[p] = preview[p]
    BY <1>0, <2>2 DEF TypeOK
  <2>6. Settled'
    BY <1>0, <2>2, <2>3, <2>4, <2>5 DEF SerialInv, Settled, TypeOK
  <2>7. CommittedOnce'
    BY <2>2, <2>3, <2>4, <2>5 DEF SerialInv, CommittedOnce
  <2>8. l \notin undone
    BY <2>2 DEF SerialInv, Settled
  <2>9. \A s \in Students : seat'[s].by = l \/ seat'[s] = seat[s]
    BY <1>5 DEF CommitPromotion, SeatsAfter
  <2>10. RolledBackLeavesNobody'
    BY <2>2, <2>8, <2>9 DEF SerialInv, RolledBackLeavesNobody
  <2> QED
    BY <2>1, <2>6, <2>7, <2>10 DEF SerialInv
<1>6. ASSUME NEW l \in Logs, StartRollback(a, l)
      PROVE  SerialInv'
  <2> DEFINE r == [op |-> "rollback", of |-> l, plan |-> log[l].plan,
                   goal |-> log[l].plan.snapshot,
                   left |-> DOMAIN log[l].plan.snapshot, held |-> {}]
  <2>1. Current(r)
    BY <1>6 DEF StartRollback, Current
  <2>2. req' = [req EXCEPT ![a] = r] /\ r # Idle
    BY <1>6 DEF StartRollback, Ask, Idle
  <2>3. UNCHANGED <<sessionVars, studentVars, promotionVars>>
    BY <1>6 DEF StartRollback
  <2> HIDE DEF r
  <2> QED
    BY <2>1, <2>2, <2>3, SerialRequest
<1>7. CASE FinishRollback(a)
  <2> DEFINE l == req[a].of
  <2>1. ReadsAreCurrent'
    BY <1>0, <1>7, SerialDone DEF FinishRollback, Idle
  <2>2. /\ l \in Logs /\ log[l] # NoRow /\ undone' = undone \cup {l}
        /\ req[a].held = DOMAIN log[l].plan.snapshot
        /\ UNCHANGED <<log, preview>>
    BY <1>0, <1>7, RequestFields
    DEF FinishRollback, PromotionInv, TransactionsFollowPlans, Follows
  <2>3. \A s \in Students : seat'[s].by = Hand \/ (seat'[s] = seat[s] /\ s \notin req[a].held)
    BY <1>7 DEF FinishRollback, SeatsAfter
  <2>4. \A s \in Students : seat[s].by = l => s \in req[a].held
    BY <1>0, <2>2 DEF PromotionInv, SeatsAreLogged, Logged
  <2>5. Hand \notin undone \cup {l}
    BY <1>0, <2>2, ClassesAssumption DEF TypeOK
  <2> HIDE DEF l
  <2>6. RolledBackLeavesNobody'
    BY <2>2, <2>3, <2>4, <2>5 DEF SerialInv, RolledBackLeavesNobody
  <2>7. Settled' /\ CommittedOnce'
    BY <2>2 DEF SerialInv, Settled, CommittedOnce
  <2> QED
    BY <2>1, <2>6, <2>7 DEF SerialInv
<1> QED
  BY <1>1, <1>2, <1>3, <1>4, <1>5, <1>6, <1>7 DEF PromotionHandler

LEMMA SerialStudents ==
  ASSUME SerialInv, PromotionInv', OneRequest, OneRequest', NEW a \in Admins, StudentHandler(a)
  PROVE  SerialInv'
<1> USE DEF sessionVars, studentVars, promotionVars
<1>0. TypeOK /\ Hand \notin undone
  BY ClassesAssumption DEF SerialInv, PromotionInv, TypeOK
<1>1. ASSUME NEW m \in ClassMoves, StartPromoteClass(a, m[1], m[2])
      PROVE  SerialInv'
  BY <1>1, SerialRequest DEF StartPromoteClass, Ask, Current, Idle
<1>2. CASE PromoteClass(a)
  <2>1. ReadsAreCurrent'
    BY <1>0, <1>2, SerialDone DEF PromoteClass, Idle
  <2>2. \A s \in Students : seat'[s].by = Hand \/ seat'[s] = seat[s]
    BY <1>2 DEF PromoteClass
  <2> QED
    BY <1>0, <1>2, <2>1, <2>2
    DEF PromoteClass, SerialInv, Settled, CommittedOnce, RolledBackLeavesNobody
<1>3. ASSUME NEW s \in Students, NEW edit \in Edits, StartEdit(a, s, edit)
      PROVE  SerialInv'
  <2>1. Current(EditOf(s, edit, life[s]))
    BY DEF Current, EditOf
  <2>2. EditOf(s, edit, life[s]) # Idle
    BY DEF EditOf, Idle
  <2> QED
    BY <1>3, <2>1, <2>2, SerialRequest DEF StartEdit, Ask
<1>4. CASE UpdateColumns(a)
  <2>1. ReadsAreCurrent'
    BY <1>0, <1>4, SerialDone DEF UpdateColumns, Idle
  <2>2. req[a].seat.by = Hand \/ req[a].seat = seat[req[a].student]
    BY <1>4 DEF UpdateColumns, SerialInv, ReadsAreCurrent, Current
  <2>3. \A s \in Students : seat'[s].by = Hand \/ seat'[s] = seat[s]
    BY <1>0, <1>4, <2>2 DEF UpdateColumns, TypeOK
  <2> QED
    BY <1>0, <1>4, <2>1, <2>3
    DEF UpdateColumns, SerialInv, Settled, CommittedOnce, RolledBackLeavesNobody
<1> QED
  BY <1>1, <1>2, <1>3, <1>4 DEF StudentHandler

LEMMA SerialNext ==
  ASSUME SerialInv, OneRequest, OneRequest', [Next]_vars
  PROVE  SerialInv'
<1> USE DEF sessionVars, studentVars, promotionVars
<1>0. TypeOK /\ PromotionInv'
  BY InvNext DEF SerialInv, PromotionInv
<1>1. ASSUME NEW x \in Sessions, CreateSession(x)
      PROVE  SerialInv'
  <2>1. ReadsAreCurrent'
    BY <1>0, <1>1, RequestFields DEF CreateSession, TypeOK, SerialInv, ReadsAreCurrent, Current
  <2> QED
    BY <1>0, <1>1, <2>1
    DEF CreateSession, SerialInv, Settled, CommittedOnce, RolledBackLeavesNobody
<1>2. ASSUME NEW p \in Previews, Expire(p) \/ CleanUp(p)
      PROVE  SerialInv'
  <2>1. UNCHANGED <<status, seat, life, log, undone, req>>
    BY <1>2 DEF Expire, CleanUp
  <2>2. \A q \in Previews : preview[q] = Gone => preview'[q] = Gone
    BY <1>0, <1>2 DEF Expire, CleanUp, TypeOK
  <2>3. Settled'
    BY <1>0, <2>1, <2>2, RowKinds DEF SerialInv, Settled, TypeOK, Entries
  <2> QED
    BY <1>0, <2>1, <2>3
    DEF SerialInv, ReadsAreCurrent, Current, CommittedOnce, RolledBackLeavesNobody
<1>3. ASSUME NEW a \in Admins, AbortRequest(a)
      PROVE  SerialInv'
  BY <1>0, <1>3, SerialRequest DEF AbortRequest, Done, Current, Idle
<1>4. CASE UNCHANGED vars
  BY <1>0, <1>4
  DEF vars, SerialInv, ReadsAreCurrent, Current, Settled, CommittedOnce, RolledBackLeavesNobody
<1> QED
  BY <1>0, <1>1, <1>2, <1>3, <1>4, SerialSessions, SerialPromotions, SerialStudents DEF Next

LEMMA SerialHolds == Spec /\ []OneRequest => []SerialInv
  BY SerialInit, SerialNext, PTL DEF Spec

(* A preview is committed once (transitionCommit), for any number of       *)
(* Admins, previews and logs, while one request is in flight at a time.    *)
THEOREM CommittedOnceHolds == Spec /\ []OneRequest => []CommittedOnce
<1>1. SerialInv => CommittedOnce
  BY DEF SerialInv
<1> QED
  BY <1>1, SerialHolds, PTL

(* Nobody is left where a promotion that was rolled back put them          *)
(* (rollbackPromotion next to updateStudent and promoteClass), while one   *)
(* request is in flight at a time.                                         *)
THEOREM RolledBackLeavesNobodyHolds == Spec /\ []OneRequest => []RolledBackLeavesNobody
<1>1. SerialInv => RolledBackLeavesNobody
  BY DEF SerialInv
<1> QED
  BY <1>1, SerialHolds, PTL

(* A promotion is rolled back once (rollbackPromotion), while one request  *)
(* is in flight at a time.                                                 *)
THEOREM RolledBackOnceHolds == Spec /\ []OneRequest => RolledBackOnce
<1>1. SerialInv => \A a \in Admins : FinishRollback(a) => req[a].of \notin undone
  BY DEF SerialInv, ReadsAreCurrent, Current, FinishRollback
<1> QED
  BY <1>1, SerialHolds, PTL DEF RolledBackOnce

(* updateStudent keeps the class or the status that a request leaves out,  *)
(* while one request is in flight at a time.                               *)
THEOREM EditsKeepTheRestHolds == Spec /\ []OneRequest => EditsKeepTheRest
<1> DEFINE Kept == \A a \in Admins : UpdateColumns(a) =>
                     LET s == req[a].student
                     IN /\ "class" \in req[a].keeps => seat'[s] = seat[s]
                        /\ "status" \in req[a].keeps => life'[s] = life[s]
<1>1. SerialInv => Kept
  <2> SUFFICES ASSUME SerialInv, NEW a \in Admins, UpdateColumns(a)
               PROVE  /\ "class" \in req[a].keeps =>
                           seat'[req[a].student] = seat[req[a].student]
                      /\ "status" \in req[a].keeps =>
                           life'[req[a].student] = life[req[a].student]
    OBVIOUS
  <2>1. /\ "class" \in req[a].keeps => req[a].seat = seat[req[a].student]
        /\ "status" \in req[a].keeps => req[a].life = life[req[a].student]
        /\ req[a].student \in Students
    BY RequestFields
    DEF UpdateColumns, SerialInv, PromotionInv, ReadsAreCurrent, Current
  <2> QED
    BY <2>1 DEF UpdateColumns, SerialInv, PromotionInv, TypeOK
<1>2. SerialInv => [Kept]_vars
  BY <1>1
<1> QED
  BY <1>2, SerialHolds, PTL DEF EditsKeepTheRest

(* A session that is over stays over (activateSession reads before it      *)
(* writes), while one request is in flight at a time.                      *)
THEOREM CompletedStaysHolds == Spec /\ []OneRequest => CompletedStays
<1> DEFINE Stays == \A x \in Sessions : status[x] = "COMPLETED" => status'[x] = "COMPLETED"
<1>1. ASSUME SerialInv, [Next]_vars
      PROVE  Stays
  <2> USE DEF sessionVars
  <2>0. status \in [Sessions -> {"none", "UPCOMING", "ACTIVE", "COMPLETED"}]
    BY <1>1 DEF SerialInv, PromotionInv, TypeOK
  <2>1. ASSUME NEW a \in Admins, ActivateSession(a)
        PROVE  Stays
    BY <1>1, <2>0, <2>1 DEF ActivateSession, SerialInv, ReadsAreCurrent, Current
  <2>2. ASSUME NEW a \in Admins, CloseSession(a)
        PROVE  Stays
    BY <2>0, <2>2 DEF CloseSession
  <2>3. ASSUME NEW x \in Sessions, CreateSession(x)
        PROVE  Stays
    BY <2>0, <2>3 DEF CreateSession
  <2>4. ASSUME ~ \E a \in Admins : ActivateSession(a) \/ CloseSession(a),
               ~ \E x \in Sessions : CreateSession(x)
        PROVE  UNCHANGED status
    BY <1>1, <2>4 DEF Next, SessionHandler, PromotionHandler, StudentHandler, vars,
         studentVars, promotionVars, Expire, CleanUp,
         StartActivate, CheckActive, StartClose, StartPreview, SavePreview, StartCommit,
         UpdateStudent, CommitPromotion, StartRollback, FinishRollback, StartPromoteClass,
         PromoteClass, StartEdit, UpdateColumns, AbortRequest
  <2> QED
    BY <2>1, <2>2, <2>3, <2>4
<1>2. SerialInv /\ [Next]_vars => [Stays]_vars
  BY <1>1
<1> QED
  BY <1>2, SerialHolds, PTL DEF Spec, CompletedStays
=============================================================================
