-------------------------- MODULE FeeLedger_proofs --------------------------
(***************************************************************************)
(* Proofs about FeeLedger, for any number of charges, Admins and amounts.  *)
(* LedgerInv is the inductive invariant: the sum a transaction read is     *)
(* still current while it holds the charge, because no other transaction   *)
(* can hold it.  The views agree because a sum over a finite set takes its *)
(* elements in any order, a charge is never overpaid, and an open one asks *)
(* for something.  BulkIsFresh says what a bulk request relies on, which   *)
(* only holds while one Admin is at work.                                  *)
(***************************************************************************)
EXTENDS FeeViews, FiniteSetTheorems, WellFoundedInduction, TLAPS

(* Rounding to cents never lifts an amount above a bound in whole cents.   *)
LEMMA RoundingIsSafe ==
  ASSUME NEW m \in Nat, NEW n \in Int, m <= 10 * n
  PROVE  ToCents(m) \in Nat /\ ToCents(m) <= n
  BY DEF ToCents

LEMMA RoundingIsNatural ==
  ASSUME NEW m \in Nat
  PROVE  ToCents(m) \in Nat
  BY DEF ToCents

(* Only a payment or a deletion carries a charge and a sum.                *)
LEMMA HoldersAreTransactions ==
  ASSUME TypeOK, NEW a \in Admins, Holding(a)
  PROVE  /\ req[a] \in Payments \cup Deletions
         /\ req[a].charge \in Charges
         /\ req[a].total \in Nat
  BY DEF TypeOK, Holding, Requests, Idle, Payments, Deletions, Bulks

(* The type invariant.                                                     *)
LEMMA TypeInit == Init => TypeOK
  BY DEF Init, TypeOK, Requests

LEMMA InsertKeepsTypes ==
  ASSUME TypeOK,
         NEW c \in Charges, NEW s \in Students, NEW label \in Labels, NEW m \in Mills,
         InsertCharge(c, s, label, m)
  PROVE  /\ row' \in [Charges -> {"none", "open", "deleted"}]
         /\ about' \in [Charges -> (Students \X Labels) \cup {Nothing}]
         /\ amount' \in [Charges -> Nat]
         /\ paid' \in [Charges -> Nat]
  BY RoundingIsNatural, MillsAssumption DEF TypeOK, InsertCharge

LEMMA TypeNext ==
  ASSUME TypeOK, [Next]_vars
  PROVE  TypeOK'
<1>1. ASSUME NEW a \in Admins, NEW r \in Requests, req' = [req EXCEPT ![a] = r],
             UNCHANGED ledger
      PROVE  TypeOK'
  BY <1>1 DEF TypeOK, ledger
<1>2. ASSUME NEW a \in Admins, NEW c \in Charges, NEW s \in Students,
             NEW label \in Labels, NEW asked \in Mills,
             CreateCharge(a, c, s, label, asked)
      PROVE  TypeOK'
  <2>1. InsertCharge(c, s, label, asked) /\ req' = req
    BY <1>2 DEF CreateCharge
  <2> QED
    BY <2>1, InsertKeepsTypes DEF TypeOK
<1>3. ASSUME NEW a \in Admins, NEW targets \in Targets, NEW label \in Labels,
             NEW asked \in Mills, StartBulk(a, targets, label, asked)
      PROVE  TypeOK'
  <2> DEFINE todo == {t \in Named(targets) : ~ HasCharge(t[2], label)}
             bulk == [op |-> "bulk", label |-> label, asked |-> asked, todo |-> todo, charged |-> {}]
  <2>1. todo \in SUBSET (Nat \X Students)
    BY TargetsAssumption DEF Named
  <2>2. bulk \in Requests
    BY <2>1 DEF Requests, Bulks
  <2> QED
    BY <1>1, <1>3, <2>2 DEF StartBulk
<1>4. ASSUME NEW a \in Admins, req[a].op = "bulk", NEW t \in req[a].todo,
             NEW raised \in SUBSET Charges, TakeNext(a, t, raised)
      PROVE  /\ t \in Nat \X Students
             /\ req[a].label \in Labels
             /\ req[a].asked \in Mills
             /\ req' \in [Admins -> Requests]
  <2>1. req[a] \in Bulks
    BY <1>4 DEF TypeOK, Requests, Idle, Payments, Deletions
  <2>2. /\ t \in Nat \X Students
        /\ req[a].label \in Labels
        /\ req[a].asked \in Mills
        /\ req[a].todo \ {t} \in SUBSET (Nat \X Students)
        /\ req[a].charged \cup raised \in SUBSET Charges
    BY <1>4, <2>1 DEF Bulks
  <2>3. [op |-> "bulk", label |-> req[a].label, asked |-> req[a].asked,
         todo |-> req[a].todo \ {t}, charged |-> req[a].charged \cup raised] \in Requests
    BY <2>2 DEF Requests, Bulks
  <2> QED
    BY <1>4, <2>2, <2>3 DEF TakeNext, TypeOK
<1>5. ASSUME NEW a \in Admins, req[a].op = "bulk", NEW t \in req[a].todo,
             NEW c \in Charges, BulkInsert(a, t, c)
      PROVE  TypeOK'
  <2>1. TakeNext(a, t, {c}) /\ InsertCharge(c, t[2], req[a].label, req[a].asked)
    BY <1>5 DEF BulkInsert
  <2>2. /\ t[2] \in Students /\ req[a].label \in Labels /\ req[a].asked \in Mills
        /\ req' \in [Admins -> Requests]
    BY <1>4, <1>5, <2>1
  <2> QED
    BY <2>1, <2>2, InsertKeepsTypes DEF TypeOK
<1>6. ASSUME NEW a \in Admins, req[a].op = "bulk", NEW t \in req[a].todo,
             BulkInsertFails(a, t)
      PROVE  TypeOK'
  BY <1>4, <1>6 DEF BulkInsertFails, ledger, TypeOK
<1>7. ASSUME NEW a \in Admins, NEW c \in Charges, NEW asked \in Mills,
             LockForPayment(a, c, asked)
      PROVE  TypeOK'
  <2>1. [op |-> "pay", charge |-> c, asked |-> asked, total |-> paid[c]] \in Requests
    BY DEF TypeOK, Requests, Payments
  <2> QED
    BY <1>1, <1>7, <2>1 DEF LockForPayment
<1>8. ASSUME NEW a \in Admins, RecordPayment(a)
      PROVE  TypeOK'
  <2>1. req[a] \in Payments
    BY <1>8 DEF RecordPayment, TypeOK, Requests, Idle, Bulks, Deletions
  <2>2. req[a].charge \in Charges /\ ToCents(req[a].asked) \in Nat
    BY <2>1, MillsAssumption, RoundingIsNatural DEF Payments
  <2> QED
    BY <1>8, <2>2 DEF RecordPayment, TypeOK, Requests
<1>9. ASSUME NEW a \in Admins, NEW c \in Charges, LockForDeletion(a, c)
      PROVE  TypeOK'
  <2>1. [op |-> "delete", charge |-> c, total |-> paid[c]] \in Requests
    BY DEF TypeOK, Requests, Deletions
  <2> QED
    BY <1>1, <1>9, <2>1 DEF LockForDeletion
<1>10. ASSUME NEW a \in Admins, DeleteCharge(a)
       PROVE  TypeOK'
  <2>1. Holding(a)
    BY <1>10 DEF DeleteCharge, Holding
  <2> QED
    BY <1>10, <2>1, HoldersAreTransactions DEF DeleteCharge, TypeOK, Requests
<1>11. ASSUME NEW a \in Admins, EndBulk(a) \/ Rollback(a)
       PROVE  TypeOK'
  BY <1>1, <1>11 DEF EndBulk, Rollback, Requests
<1>12. CASE Crash
  BY <1>12 DEF Crash, TypeOK, Requests, ledger
<1>13. CASE UNCHANGED vars
  BY <1>13 DEF vars, TypeOK
<1> QED
  BY <1>2, <1>3, <1>5, <1>6, <1>7, <1>8, <1>9, <1>10, <1>11, <1>12, <1>13
  DEF Next, Handler

(* FeeLedger keeps its types: charges, amounts and requests in flight are  *)
(* always what the tables and the handlers declare.                        *)
THEOREM TypeCorrect == Spec => []TypeOK
<1>1. TypeOK /\ [Next]_vars => TypeOK'
  BY TypeNext
<1> QED
  BY TypeInit, <1>1, PTL DEF Spec

-----------------------------------------------------------------------------
(* The four ledger invariants, together.                                   *)
LedgerInv ==
  /\ TypeOK
  /\ NeverOverpaid
  /\ NoOrphanPayments
  /\ LockedSumIsCurrent
  /\ LocksExclude

LEMMA LedgerInit == Init => LedgerInv
<1> SUFFICES ASSUME Init PROVE LedgerInv
  OBVIOUS
<1>1. TypeOK
  BY TypeInit
<1>2. NeverOverpaid /\ NoOrphanPayments
  BY DEF Init, NeverOverpaid, NoOrphanPayments, Open
<1>3. \A a \in Admins : ~ Holding(a)
  BY DEF Init, Holding, Idle
<1> QED
  BY <1>1, <1>2, <1>3 DEF LedgerInv, LockedSumIsCurrent, LocksExclude

(* A step that leaves the tables alone and takes no lock.                  *)
LEMMA ReleaseKeepsLedger ==
  ASSUME LedgerInv, UNCHANGED ledger,
         \A a \in Admins : Holding(a)' => Holding(a) /\ req'[a] = req[a]
  PROVE  (NeverOverpaid /\ NoOrphanPayments /\ LockedSumIsCurrent /\ LocksExclude)'
  BY DEF LedgerInv, NeverOverpaid, NoOrphanPayments, LockedSumIsCurrent, LocksExclude,
         Open, ledger

(* A step that takes a free charge and reads its sum.                      *)
LEMMA LockKeepsLedger ==
  ASSUME LedgerInv, UNCHANGED ledger,
         NEW a \in Admins, NEW c \in Charges, Open(c), RowFree(c),
         NEW r, req' = [req EXCEPT ![a] = r],
         r.charge = c, r.total = paid[c]
  PROVE  (NeverOverpaid /\ NoOrphanPayments /\ LockedSumIsCurrent /\ LocksExclude)'
<1>1. \A b \in Admins : b # a => req'[b] = req[b] /\ (Holding(b)' <=> Holding(b))
  BY DEF LedgerInv, TypeOK, Holding
<1>2. req'[a] = r
  BY DEF LedgerInv, TypeOK
<1>3. LockedSumIsCurrent'
  BY <1>1, <1>2 DEF LedgerInv, LockedSumIsCurrent, Open, ledger
<1>4. LocksExclude'
  BY <1>1, <1>2 DEF LedgerInv, LocksExclude, RowFree
<1>5. NeverOverpaid' /\ NoOrphanPayments'
  BY DEF LedgerInv, NeverOverpaid, NoOrphanPayments, Open, ledger
<1> QED
  BY <1>3, <1>4, <1>5

(* A step that raises a charge under a fresh id.                           *)
LEMMA InsertKeepsLedger ==
  ASSUME LedgerInv,
         NEW c \in Charges, NEW s \in Students, NEW label \in Labels, NEW m \in Mills,
         InsertCharge(c, s, label, m),
         \A a \in Admins : Holding(a)' => Holding(a) /\ req'[a] = req[a]
  PROVE  (NeverOverpaid /\ NoOrphanPayments /\ LockedSumIsCurrent /\ LocksExclude)'
<1>1. ToCents(m) \in Nat
  BY RoundingIsNatural, MillsAssumption
<1>2. paid[c] = 0
  BY DEF LedgerInv, TypeOK, InsertCharge, NoOrphanPayments, Open
<1>3. /\ \A d \in Charges : d # c => row'[d] = row[d] /\ amount'[d] = amount[d]
      /\ row'[c] = "open" /\ amount'[c] = ToCents(m)
      /\ row[c] = "none"
      /\ paid' = paid
  BY DEF LedgerInv, TypeOK, InsertCharge
<1>4. NeverOverpaid' /\ NoOrphanPayments'
  BY <1>1, <1>2, <1>3 DEF LedgerInv, NeverOverpaid, NoOrphanPayments, Open
<1>5. LockedSumIsCurrent'
  <2> SUFFICES ASSUME NEW a \in Admins, Holding(a)'
               PROVE  Open(req[a].charge)' /\ req'[a].total = paid'[req'[a].charge]
    BY DEF LockedSumIsCurrent
  <2>1. Holding(a) /\ req'[a] = req[a]
    OBVIOUS
  <2>2. Open(req[a].charge) /\ req[a].total = paid[req[a].charge] /\ req[a].charge \in Charges
    BY <2>1, HoldersAreTransactions DEF LedgerInv, LockedSumIsCurrent
  <2>3. req[a].charge # c
    BY <1>3, <2>2 DEF Open
  <2> QED
    BY <1>3, <2>1, <2>2, <2>3 DEF Open
<1>6. LocksExclude'
  BY DEF LedgerInv, LocksExclude
<1> QED
  BY <1>4, <1>5, <1>6

(* A payment is at most the balance it was checked against, and that is    *)
(* still the balance.                                                      *)
LEMMA PaymentFits ==
  ASSUME LedgerInv, NEW a \in Admins, RecordPayment(a)
  PROVE  /\ Holding(a) /\ req[a].charge \in Charges /\ Open(req[a].charge)
         /\ req[a].asked \in Mills
         /\ ToCents(req[a].asked) \in Nat \ {0}
         /\ ToCents(req[a].asked) <= amount[req[a].charge] - paid[req[a].charge]
<1> DEFINE c == req[a].charge
           m == req[a].asked
<1>1. Holding(a)
  BY DEF RecordPayment, Holding
<1>2. req[a] \in Payments
  BY DEF RecordPayment, LedgerInv, TypeOK, Requests, Idle, Bulks, Deletions
<1>3. c \in Charges /\ m \in Mills /\ m \in Nat /\ amount[c] \in Nat /\ paid[c] \in Nat
  BY <1>2, MillsAssumption DEF Payments, LedgerInv, TypeOK
<1>4. Open(c) /\ req[a].total = paid[c]
  BY <1>1 DEF LedgerInv, LockedSumIsCurrent
<1>5. m <= 10 * (amount[c] - paid[c])
  <2>1. PICK noise \in FloatNoise(req[a].total) :
          ~ IsOverpayment(amount[c], req[a].total, m, noise)
    BY DEF RecordPayment
  <2>2. noise \in {-1, 0}
    BY <2>1 DEF FloatNoise
  <2> QED
    BY <2>1, <2>2, <1>3, <1>4 DEF IsOverpayment
<1>6. ToCents(m) \in Nat /\ ToCents(m) <= amount[c] - paid[c]
  BY <1>3, <1>5, RoundingIsSafe
<1>7. ToCents(m) > 0
  BY DEF RecordPayment
<1> QED
  BY <1>1, <1>3, <1>4, <1>6, <1>7

LEMMA PaymentKeepsLedger ==
  ASSUME LedgerInv, NEW a \in Admins, RecordPayment(a)
  PROVE  (NeverOverpaid /\ NoOrphanPayments /\ LockedSumIsCurrent /\ LocksExclude)'
<1> DEFINE c == req[a].charge
           n == ToCents(req[a].asked)
<1>1. /\ Holding(a) /\ c \in Charges /\ Open(c)
      /\ n \in Nat \ {0} /\ n <= amount[c] - paid[c]
  BY PaymentFits
<1>2. /\ paid' = [paid EXCEPT ![c] = @ + n]
      /\ req' = [req EXCEPT ![a] = Idle]
      /\ row' = row /\ amount' = amount
  BY DEF RecordPayment
<1>3. \A b \in Admins : Holding(b)' => b # a /\ Holding(b) /\ req'[b] = req[b]
  BY <1>2 DEF Holding, Idle, LedgerInv, TypeOK
<1>4. NeverOverpaid'
  BY <1>1, <1>2 DEF LedgerInv, TypeOK, NeverOverpaid, Open
<1>5. NoOrphanPayments'
  BY <1>1, <1>2 DEF LedgerInv, TypeOK, NoOrphanPayments, Open
<1>6. LockedSumIsCurrent'
  <2> SUFFICES ASSUME NEW b \in Admins, Holding(b)'
               PROVE  Open(req[b].charge)' /\ req'[b].total = paid'[req'[b].charge]
    BY DEF LockedSumIsCurrent
  <2>1. b # a /\ Holding(b) /\ req'[b] = req[b]
    BY <1>3
  <2>2. req[b].charge # c
    BY <1>1, <2>1 DEF LedgerInv, LocksExclude
  <2>3. Open(req[b].charge) /\ req[b].total = paid[req[b].charge]
    BY <2>1 DEF LedgerInv, LockedSumIsCurrent
  <2>4. req[b].charge \in Charges
    BY <2>1, HoldersAreTransactions DEF LedgerInv
  <2> QED
    BY <1>2, <2>1, <2>2, <2>3, <2>4 DEF Open, LedgerInv, TypeOK
<1>7. LocksExclude'
  BY <1>3 DEF LedgerInv, LocksExclude
<1> QED
  BY <1>4, <1>5, <1>6, <1>7

LEMMA DeletionKeepsLedger ==
  ASSUME LedgerInv, NEW a \in Admins, DeleteCharge(a)
  PROVE  (NeverOverpaid /\ NoOrphanPayments /\ LockedSumIsCurrent /\ LocksExclude)'
<1> DEFINE c == req[a].charge
<1>1. Holding(a)
  BY DEF DeleteCharge, Holding
<1>2. c \in Charges /\ Open(c) /\ paid[c] = 0
  BY <1>1, HoldersAreTransactions DEF DeleteCharge, LedgerInv, LockedSumIsCurrent
<1>3. /\ row' = [row EXCEPT ![c] = "deleted"]
      /\ req' = [req EXCEPT ![a] = Idle]
      /\ paid' = paid /\ amount' = amount
  BY DEF DeleteCharge
<1>4. \A b \in Admins : Holding(b)' => b # a /\ Holding(b) /\ req'[b] = req[b]
  BY <1>3 DEF Holding, Idle, LedgerInv, TypeOK
<1>5. NeverOverpaid' /\ NoOrphanPayments'
  BY <1>2, <1>3 DEF LedgerInv, TypeOK, NeverOverpaid, NoOrphanPayments, Open
<1>6. LockedSumIsCurrent'
  BY <1>1, <1>2, <1>3, <1>4
  DEF LedgerInv, TypeOK, LockedSumIsCurrent, LocksExclude, Open
<1>7. LocksExclude'
  BY <1>4 DEF LedgerInv, LocksExclude
<1> QED
  BY <1>5, <1>6, <1>7

LEMMA LedgerNext ==
  ASSUME LedgerInv, [Next]_vars
  PROVE  LedgerInv'
<1> DEFINE Rest == NeverOverpaid /\ NoOrphanPayments /\ LockedSumIsCurrent /\ LocksExclude
<1> SUFFICES Rest'
  BY TypeNext DEF LedgerInv
<1>1. ASSUME NEW a \in Admins, NEW c \in Charges, NEW s \in Students,
             NEW label \in Labels, NEW asked \in Mills,
             CreateCharge(a, c, s, label, asked)
      PROVE  Rest'
  BY <1>1, InsertKeepsLedger DEF CreateCharge, Holding
<1>2. ASSUME NEW a \in Admins, NEW targets \in Targets, NEW label \in Labels,
             NEW asked \in Mills, StartBulk(a, targets, label, asked)
      PROVE  Rest'
  <2>1. \A b \in Admins : Holding(b)' => Holding(b) /\ req'[b] = req[b]
    BY <1>2 DEF StartBulk, Holding, LedgerInv, TypeOK
  <2> QED
    BY <1>2, <2>1, ReleaseKeepsLedger DEF StartBulk
<1>3. ASSUME NEW a \in Admins, req[a].op = "bulk", NEW t \in req[a].todo,
             NEW raised \in SUBSET Charges, TakeNext(a, t, raised)
      PROVE  \A b \in Admins : Holding(b)' => Holding(b) /\ req'[b] = req[b]
  BY <1>3 DEF TakeNext, Holding, LedgerInv, TypeOK
<1>4. ASSUME NEW a \in Admins, req[a].op = "bulk", NEW t \in req[a].todo,
             NEW c \in Charges, BulkInsert(a, t, c)
      PROVE  Rest'
  <2>1. req[a] \in Bulks
    BY <1>4 DEF LedgerInv, TypeOK, Requests, Idle, Payments, Deletions
  <2>2. t[2] \in Students /\ req[a].label \in Labels /\ req[a].asked \in Mills
    BY <1>4, <2>1 DEF Bulks
  <2>3. TakeNext(a, t, {c}) /\ InsertCharge(c, t[2], req[a].label, req[a].asked)
    BY <1>4 DEF BulkInsert
  <2> QED
    BY <1>3, <1>4, <2>2, <2>3, InsertKeepsLedger
<1>5. ASSUME NEW a \in Admins, req[a].op = "bulk", NEW t \in req[a].todo,
             BulkInsertFails(a, t)
      PROVE  Rest'
  BY <1>3, <1>5, ReleaseKeepsLedger DEF BulkInsertFails
<1>6. ASSUME NEW a \in Admins, NEW c \in Charges, NEW asked \in Mills,
             LockForPayment(a, c, asked)
      PROVE  Rest'
  <2> DEFINE r == [op |-> "pay", charge |-> c, asked |-> asked, total |-> paid[c]]
  <2>1. r.charge = c /\ r.total = paid[c]
    OBVIOUS
  <2>2. Open(c) /\ RowFree(c) /\ req' = [req EXCEPT ![a] = r] /\ UNCHANGED ledger
    BY <1>6 DEF LockForPayment
  <2> HIDE DEF r
  <2> QED
    BY <2>1, <2>2, LockKeepsLedger
<1>7. ASSUME NEW a \in Admins, NEW c \in Charges, LockForDeletion(a, c)
      PROVE  Rest'
  <2> DEFINE r == [op |-> "delete", charge |-> c, total |-> paid[c]]
  <2>1. r.charge = c /\ r.total = paid[c]
    OBVIOUS
  <2>2. Open(c) /\ RowFree(c) /\ req' = [req EXCEPT ![a] = r] /\ UNCHANGED ledger
    BY <1>7 DEF LockForDeletion
  <2> HIDE DEF r
  <2> QED
    BY <2>1, <2>2, LockKeepsLedger
<1>8. ASSUME NEW a \in Admins, EndBulk(a) \/ Rollback(a)
      PROVE  Rest'
  <2>1. UNCHANGED ledger /\ req' = [req EXCEPT ![a] = Idle]
    BY <1>8 DEF EndBulk, Rollback
  <2>2. \A b \in Admins : Holding(b)' => Holding(b) /\ req'[b] = req[b]
    BY <2>1 DEF Holding, Idle, LedgerInv, TypeOK
  <2> QED
    BY <2>1, <2>2, ReleaseKeepsLedger
<1>9. CASE Crash
  <2>1. \A b \in Admins : ~ Holding(b)'
    BY <1>9 DEF Crash, Holding, Idle
  <2> QED
    BY <1>9, <2>1, ReleaseKeepsLedger DEF Crash
<1>10. CASE UNCHANGED vars
  BY <1>10, ReleaseKeepsLedger DEF vars, ledger, Holding
<1> QED
  BY <1>1, <1>2, <1>4, <1>5, <1>6, <1>7, <1>8, <1>9, <1>10,
     PaymentKeepsLedger, DeletionKeepsLedger DEF Next, Handler

LEMMA LedgerInvariant == Spec => []LedgerInv
<1>1. LedgerInv /\ [Next]_vars => LedgerInv'
  BY LedgerNext
<1> QED
  BY LedgerInit, <1>1, PTL DEF Spec

(* No charge is ever paid beyond its amount.                               *)
THEOREM NeverOverpaidHolds == Spec => []NeverOverpaid
<1>1. LedgerInv => NeverOverpaid
  BY DEF LedgerInv
<1> QED
  BY LedgerInvariant, <1>1, PTL

(* No payment ever belongs to a charge that is not there.                  *)
THEOREM NoOrphanPaymentsHolds == Spec => []NoOrphanPayments
<1>1. LedgerInv => NoOrphanPayments
  BY DEF LedgerInv
<1> QED
  BY LedgerInvariant, <1>1, PTL

(* No two transactions hold one charge, and what each of them read is      *)
(* still what the table holds.                                             *)
THEOREM LockDiscipline == Spec => [](LockedSumIsCurrent /\ LocksExclude)
<1>1. LedgerInv => LockedSumIsCurrent /\ LocksExclude
  BY DEF LedgerInv
<1> QED
  BY LedgerInvariant, <1>1, PTL

-----------------------------------------------------------------------------
(* What a step may do to the tables: raise a charge, add to what was paid  *)
(* on one, delete one on which nothing was paid, or nothing.               *)
LEMMA LedgerSteps ==
  ASSUME LedgerInv, Next
  PROVE  \/ \E c \in Charges, s \in Students, label \in Labels, m \in Mills :
              InsertCharge(c, s, label, m)
         \/ \E a \in Admins : RecordPayment(a) \/ DeleteCharge(a)
         \/ UNCHANGED ledger
<1>1. ASSUME NEW a \in Admins, req[a].op = "bulk", NEW t \in req[a].todo,
             NEW c \in Charges, BulkInsert(a, t, c)
      PROVE  \E s \in Students, label \in Labels, m \in Mills : InsertCharge(c, s, label, m)
  <2>1. req[a] \in Bulks
    BY <1>1 DEF LedgerInv, TypeOK, Requests, Idle, Payments, Deletions
  <2>2. t[2] \in Students /\ req[a].label \in Labels /\ req[a].asked \in Mills
    BY <1>1, <2>1 DEF Bulks
  <2> QED
    BY <1>1, <2>2 DEF BulkInsert
<1> QED
  BY <1>1 DEF Next, Handler, CreateCharge, StartBulk, BulkInsertFails, EndBulk,
              LockForPayment, LockForDeletion, Rollback, Crash

(* What was paid stays paid, and a charge keeps its amount and its         *)
(* student.                                                                *)
THEOREM PaymentsAreFinalHolds == Spec => PaymentsAreFinal
<1> DEFINE A == \A c \in Charges : row[c] # "none" =>
                  paid'[c] >= paid[c] /\ amount'[c] = amount[c] /\ about'[c] = about[c]
<1>1. ASSUME LedgerInv, Next
      PROVE  A
  <2>1. ASSUME NEW c \in Charges, NEW s \in Students, NEW label \in Labels, NEW m \in Mills,
               InsertCharge(c, s, label, m)
        PROVE  A
    BY <1>1, <2>1 DEF InsertCharge, LedgerInv, TypeOK
  <2>2. ASSUME NEW a \in Admins, RecordPayment(a)
        PROVE  A
    <3>1. req[a].charge \in Charges /\ ToCents(req[a].asked) \in Nat
      BY <1>1, <2>2, PaymentFits
    <3> QED
      BY <1>1, <2>2, <3>1 DEF RecordPayment, LedgerInv, TypeOK
  <2>3. ASSUME NEW a \in Admins, DeleteCharge(a)
        PROVE  A
    BY <1>1, <2>3 DEF DeleteCharge, LedgerInv, TypeOK
  <2>4. CASE UNCHANGED ledger
    BY <1>1, <2>4 DEF ledger, LedgerInv, TypeOK
  <2> QED
    BY <1>1, <2>1, <2>2, <2>3, <2>4, LedgerSteps
<1>2. LedgerInv /\ [Next]_vars => [A]_vars
  BY <1>1
<1> QED
  BY LedgerInvariant, <1>2, PTL DEF Spec, PaymentsAreFinal

-----------------------------------------------------------------------------
(* The transactions implement the atomic operations of FeeAccount.         *)
LEMMA AccountInit == Init => Account!Init
  BY DEF Init, Account!Init, Open

LEMMA AccountStep ==
  ASSUME LedgerInv, Next
  PROVE  Account!Next \/ UNCHANGED Account!vars
<1> DEFINE open == {c \in Charges : Open(c)}
<1>1. ASSUME NEW c \in Charges, NEW s \in Students, NEW label \in Labels, NEW m \in Mills,
             InsertCharge(c, s, label, m)
      PROVE  Account!Raise(c, ToCents(m)) /\ ToCents(m) \in Cents
  <2>1. open' = open \cup {c} /\ c \notin open
    BY <1>1 DEF InsertCharge, Open, LedgerInv, TypeOK
  <2>2. ToCents(m) \in Cents
    BY <1>1, RoundingIsNatural, MillsAssumption DEF InsertCharge, Cents
  <2> QED
    BY <1>1, <2>1, <2>2 DEF InsertCharge, Account!Raise
<1>2. ASSUME NEW a \in Admins, RecordPayment(a)
      PROVE  /\ req[a].charge \in Charges
             /\ ToCents(req[a].asked) \in Cents
             /\ Account!Pay(req[a].charge, ToCents(req[a].asked))
  <2>1. /\ req[a].charge \in Charges /\ Open(req[a].charge)
        /\ req[a].asked \in Mills
        /\ ToCents(req[a].asked) \in Nat \ {0}
        /\ ToCents(req[a].asked) <= amount[req[a].charge] - paid[req[a].charge]
    BY <1>2, PaymentFits
  <2>2. ToCents(req[a].asked) \in Cents
    BY <2>1 DEF Cents
  <2>3. open' = open
    BY <1>2 DEF RecordPayment, Open
  <2> QED
    BY <1>2, <2>1, <2>2, <2>3 DEF RecordPayment, Account!Pay
<1>3. ASSUME NEW a \in Admins, DeleteCharge(a)
      PROVE  req[a].charge \in Charges /\ Account!Remove(req[a].charge)
  <2>1. Holding(a)
    BY <1>3 DEF DeleteCharge, Holding
  <2>2. /\ req[a].charge \in Charges /\ Open(req[a].charge)
        /\ paid[req[a].charge] = 0
    BY <1>3, <2>1, HoldersAreTransactions DEF DeleteCharge, LedgerInv, LockedSumIsCurrent
  <2>3. open' = open \ {req[a].charge}
    BY <1>3, <2>2 DEF DeleteCharge, Open, LedgerInv, TypeOK
  <2> QED
    BY <1>3, <2>2, <2>3 DEF DeleteCharge, Account!Remove
<1>4. ASSUME UNCHANGED ledger
      PROVE  UNCHANGED Account!vars
  BY <1>4 DEF ledger, Account!vars, Open
<1> QED
  BY <1>1, <1>2, <1>3, <1>4, LedgerSteps DEF Account!Next

(* Every behaviour of the handlers is one of the account: the locks make   *)
(* the transactions look atomic.                                           *)
THEOREM ImplementsAccountHolds == Spec => ImplementsAccount
<1>1. LedgerInv /\ [Next]_vars => [Account!Next]_(Account!vars)
  <2> SUFFICES ASSUME LedgerInv, [Next]_vars
               PROVE  Account!Next \/ UNCHANGED Account!vars
    OBVIOUS
  <2>1. CASE Next
    BY <2>1, AccountStep
  <2>2. CASE UNCHANGED vars
    BY <2>2 DEF vars, Account!vars, Open
  <2> QED
    BY <2>1, <2>2
<1> QED
  BY LedgerInvariant, AccountInit, <1>1, PTL DEF Spec, ImplementsAccount, Account!Spec

-----------------------------------------------------------------------------
(* Sums over finite sets.  The sum of the views is a fold that takes one   *)
(* element after the other, in an order of its own: it adds up whichever   *)
(* element is taken first.                                                 *)
LEMMA LeastNumber ==
  ASSUME NEW T \in SUBSET Nat, T # {}
  PROVE  \E n \in T : \A m \in T : n <= m
<1> DEFINE R == {ss \in Nat \X Nat : ss[1] < ss[2]}
<1>1. IsWellFoundedOn(R, Nat)
  BY NatLessThanWellFounded DEF OpToRel
<1> HIDE DEF R
<1>2. PICK n \in T : \A m \in T : ~ (<<m, n>> \in R)
  BY <1>1, WFMin
<1>3. \A m \in T : ~ (m < n)
  BY <1>2 DEF R
<1> QED
  BY <1>3

(* What a subset has when all subsets with an element less have it, every  *)
(* subset has.                                                             *)
LEMMA SubsetInduction ==
  ASSUME NEW S, IsFiniteSet(S), NEW Q,
         \A T \in SUBSET S : (\A x \in T : T \ {x} \in Q) => T \in Q
  PROVE  \A T \in SUBSET S : T \in Q
<1> DEFINE bad == {T \in SUBSET S : T \notin Q}
           sizes == {Cardinality(T) : T \in bad}
<1> SUFFICES ASSUME bad # {} PROVE FALSE
  OBVIOUS
<1>1. \A T \in SUBSET S : IsFiniteSet(T) /\ Cardinality(T) \in Nat
  BY FS_Subset, FS_CardinalityType
<1>2. sizes \in SUBSET Nat /\ sizes # {}
  BY <1>1
<1> HIDE DEF sizes
<1>3. PICK n \in sizes : \A m \in sizes : n <= m
  BY <1>2, LeastNumber
<1>4. PICK T \in bad : Cardinality(T) = n
  BY DEF sizes
<1>5. PICK x \in T : T \ {x} \notin Q
  OBVIOUS
<1>6. Cardinality(T \ {x}) = n - 1 /\ n \in Nat
  BY <1>1, <1>4, FS_RemoveElement
<1>7. T \ {x} \in bad
  BY <1>5
<1>8. n - 1 \in sizes
  BY <1>6, <1>7 DEF sizes
<1> QED
  BY <1>3, <1>6, <1>8

(* How the fold picks.                                                     *)
One(T) == CHOOSE x \in T : TRUE

Step(f, h, T) == IF T = {} THEN 0 ELSE f[One(T)] + h[T \ {One(T)}]

IsFold(f, S, h) == h = [T \in SUBSET S |-> Step(f, h, T)]

Sums(f, S, h) ==
  /\ h \in [SUBSET S -> Int]
  /\ h[{}] = 0
  /\ \A T \in SUBSET S : \A x \in T : h[T] = f[x] + h[T \ {x}]

LEMMA OneIsElement == ASSUME NEW T, T # {} PROVE One(T) \in T
  BY DEF One

(* A function that takes an element of its own choice at each step exists. *)
LEMMA FoldExists ==
  ASSUME NEW S, IsFiniteSet(S), NEW f \in [S -> Int]
  PROVE  \E h : IsFold(f, S, h)
<1> DEFINE Upto(n, h) == /\ h \in [SUBSET S -> Int]
                         /\ \A T \in SUBSET S : Cardinality(T) <= n => h[T] = Step(f, h, T)
           missing == {n \in Nat : ~ \E h : Upto(n, h)}
<1>1. \A T \in SUBSET S : /\ IsFiniteSet(T) /\ Cardinality(T) \in Nat
                          /\ Cardinality(T) = 0 <=> T = {}
                          /\ T # {} => /\ One(T) \in T /\ T \ {One(T)} \in SUBSET S
                                       /\ Cardinality(T \ {One(T)}) = Cardinality(T) - 1
  BY FS_Subset, FS_CardinalityType, FS_EmptySet, FS_RemoveElement, OneIsElement
<1>2. Upto(0, [T \in SUBSET S |-> 0])
  BY <1>1 DEF Step
<1>3. ASSUME NEW n \in Nat, NEW h, Upto(n, h)
      PROVE  Upto(n + 1, [T \in SUBSET S |-> Step(f, h, T)])
  <2> DEFINE k == [T \in SUBSET S |-> Step(f, h, T)]
  <2>1. k \in [SUBSET S -> Int]
    <3> SUFFICES ASSUME NEW T \in SUBSET S PROVE Step(f, h, T) \in Int
      OBVIOUS
    <3>1. CASE T = {}
      BY <3>1 DEF Step
    <3>2. CASE T # {}
      <4>1. f[One(T)] \in Int /\ h[T \ {One(T)}] \in Int
        BY <1>1, <1>3, <3>2
      <4> QED
        BY <3>2, <4>1 DEF Step
    <3> QED
      BY <3>1, <3>2
  <2>2. ASSUME NEW T \in SUBSET S, Cardinality(T) <= n + 1
        PROVE  k[T] = Step(f, k, T)
    <3>1. CASE T = {}
      BY <3>1 DEF Step
    <3>2. CASE T # {}
      <4> DEFINE U == T \ {One(T)}
      <4>1. U \in SUBSET S /\ Cardinality(U) <= n
        BY <1>1, <2>2, <3>2
      <4>2. k[U] = h[U]
        BY <1>3, <4>1
      <4>3. k[T] = f[One(T)] + h[U] /\ Step(f, k, T) = f[One(T)] + k[U]
        BY <3>2 DEF Step
      <4> QED
        BY <4>2, <4>3
    <3> QED
      BY <3>1, <3>2
  <2> QED
    BY <2>1, <2>2
<1> HIDE DEF Upto
<1>4. missing = {}
  <2> SUFFICES ASSUME missing # {} PROVE FALSE
    OBVIOUS
  <2>1. PICK n \in missing : \A m \in missing : n <= m
    BY LeastNumber
  <2>2. n # 0
    BY <1>2, <2>1
  <2>3. PICK m \in Nat : n = m + 1
    <3>1. n - 1 \in Nat /\ n = (n - 1) + 1
      BY <2>2
    <3> QED
      BY <3>1
  <2>4. m \notin missing
    BY <2>1, <2>3
  <2>5. PICK h : Upto(m, h)
    BY <2>4
  <2>6. Upto(m + 1, [T \in SUBSET S |-> Step(f, h, T)])
    BY <1>3, <2>5
  <2> QED
    BY <2>1, <2>3, <2>6
<1>5. PICK h : Upto(Cardinality(S), h)
  BY <1>1, <1>4
<1>6. \A T \in SUBSET S : Cardinality(T) <= Cardinality(S)
  BY FS_Subset
<1>7. IsFold(f, S, h)
  BY <1>5, <1>6 DEF Upto, IsFold
<1> QED
  BY <1>7

(* Whichever element is taken first, the sum is the same.                  *)
LEMMA FoldSums ==
  ASSUME NEW S, IsFiniteSet(S), NEW f \in [S -> Int],
         NEW h, h = [T \in SUBSET S |-> Step(f, h, T)]
  PROVE  Sums(f, S, h)
<1>1. h[{}] = 0
  BY DEF Step
<1>2. \A T \in SUBSET S : T # {} => One(T) \in T /\ h[T] = f[One(T)] + h[T \ {One(T)}]
  BY OneIsElement DEF Step
<1>3. h \in [SUBSET S -> Int]
  <2> DEFINE Q == {T \in SUBSET S : h[T] \in Int}
  <2>1. ASSUME NEW T \in SUBSET S, \A x \in T : T \ {x} \in Q
        PROVE  T \in Q
    <3>1. CASE T = {}
      BY <1>1, <3>1
    <3>2. CASE T # {}
      <4>1. One(T) \in T /\ h[T] = f[One(T)] + h[T \ {One(T)}]
        BY <1>2, <3>2
      <4>2. f[One(T)] \in Int /\ h[T \ {One(T)}] \in Int
        BY <2>1, <4>1
      <4> QED
        BY <4>1, <4>2
    <3> QED
      BY <3>1, <3>2
  <2> HIDE DEF Q
  <2>2. \A T \in SUBSET S : T \in Q
    BY <2>1, SubsetInduction
  <2> QED
    BY <2>2 DEF Q
<1>4. \A T \in SUBSET S : \A x \in T : h[T] = f[x] + h[T \ {x}]
  <2> DEFINE Q == {T \in SUBSET S : \A x \in T : h[T] = f[x] + h[T \ {x}]}
  <2>1. ASSUME NEW T \in SUBSET S, \A x \in T : T \ {x} \in Q
        PROVE  T \in Q
    <3> SUFFICES ASSUME NEW x \in T, x # One(T)
                 PROVE  h[T] = f[x] + h[T \ {x}]
      BY <1>2
    <3> DEFINE c == One(T)
    <3>1. c \in T /\ h[T] = f[c] + h[T \ {c}]
      BY <1>2
    <3>2. h[T \ {c}] = f[x] + h[(T \ {c}) \ {x}]
      BY <2>1, <3>1
    <3>3. h[T \ {x}] = f[c] + h[(T \ {x}) \ {c}]
      BY <2>1, <3>1
    <3>4. (T \ {c}) \ {x} = (T \ {x}) \ {c} /\ (T \ {x}) \ {c} \in SUBSET S
      OBVIOUS
    <3>5. f[c] \in Int /\ f[x] \in Int /\ h[(T \ {x}) \ {c}] \in Int
      BY <1>3, <3>1, <3>4
    <3> DEFINE rest == h[(T \ {x}) \ {c}]
    <3>6. h[T \ {c}] = f[x] + rest /\ h[T \ {x}] = f[c] + rest
      BY <3>2, <3>3, <3>4
    <3>7. h[T] = f[c] + (f[x] + rest)
      BY <3>1, <3>6
    <3> HIDE DEF c, rest
    <3>8. f[c] + (f[x] + rest) = f[x] + (f[c] + rest)
      BY <3>5 DEF rest
    <3> QED
      BY <3>6, <3>7, <3>8
  <2> HIDE DEF Q
  <2>2. \A T \in SUBSET S : T \in Q
    BY <2>1, SubsetInduction
  <2> QED
    BY <2>2 DEF Q
<1> QED
  BY <1>1, <1>3, <1>4 DEF Sums

LEMMA TotalSums ==
  ASSUME NEW C, IsFiniteSet(C), NEW f, \A c \in C : f[c] \in Int
  PROVE  \E h : Sums(f, C, h) /\ Total(f, C) = h[C]
<1> DEFINE h == CHOOSE h : h = [T \in SUBSET C |-> IF T = {} THEN 0 ELSE f[One(T)] + h[T \ {One(T)}]]
           g == [c \in C |-> f[c]]
<1>1. Total(f, C) = h[C]
  BY DEF Total, MapThenSumSet, MapThenFoldSet, One
<1>2. g \in [C -> Int] /\ \A c \in C : g[c] = f[c]
  OBVIOUS
<1> HIDE DEF g
<1>3. \E k : k = [T \in SUBSET C |-> IF T = {} THEN 0 ELSE f[One(T)] + k[T \ {One(T)}]]
  <2>1. PICK k : IsFold(g, C, k)
    BY <1>2, FoldExists
  <2>2. \A T \in SUBSET C : Step(g, k, T) = IF T = {} THEN 0 ELSE f[One(T)] + k[T \ {One(T)}]
    BY <1>2, OneIsElement DEF Step
  <2> QED
    BY <2>1, <2>2 DEF IsFold
<1>4. h = [T \in SUBSET C |-> IF T = {} THEN 0 ELSE f[One(T)] + h[T \ {One(T)}]]
  BY <1>3
<1> HIDE DEF h
<1>5. h = [T \in SUBSET C |-> Step(g, h, T)]
  <2>1. \A T \in SUBSET C : Step(g, h, T) = IF T = {} THEN 0 ELSE f[One(T)] + h[T \ {One(T)}]
    BY <1>2, OneIsElement DEF Step
  <2> QED
    BY <1>4, <2>1
<1>6. Sums(g, C, h)
  BY <1>2, <1>5, FoldSums
<1>7. Sums(f, C, h)
  BY <1>2, <1>6 DEF Sums
<1> QED
  BY <1>1, <1>7

BalancesOf(R, g) == g \in [R -> Int] /\ \A r \in R : g[r] = r.balance

LEMMA BalanceSums ==
  ASSUME NEW R, IsFiniteSet(R), NEW g \in [R -> Int], BalancesOf(R, g)
  PROVE  \E h : Sums(g, R, h) /\ BalanceSum(R) = h[R]
<1> DEFINE h == CHOOSE h : h = [T \in SUBSET R |->
                  IF T = {} THEN 0 ELSE One(T).balance + h[T \ {One(T)}]]
<1>1. BalanceSum(R) = h[R]
  BY DEF BalanceSum, MapThenSumSet, MapThenFoldSet, One
<1>2. \E k : k = [T \in SUBSET R |->
                 IF T = {} THEN 0 ELSE One(T).balance + k[T \ {One(T)}]]
  <2> HIDE DEF h
  <2>1. PICK k : IsFold(g, R, k)
    BY FoldExists
  <2>2. \A T \in SUBSET R : Step(g, k, T) =
          IF T = {} THEN 0 ELSE One(T).balance + k[T \ {One(T)}]
    BY OneIsElement DEF Step, BalancesOf
  <2> QED
    BY <2>1, <2>2 DEF IsFold
<1>3. h = [T \in SUBSET R |-> IF T = {} THEN 0 ELSE One(T).balance + h[T \ {One(T)}]]
  BY <1>2
<1> HIDE DEF h
<1>4. \A T \in SUBSET R : Step(g, h, T) =
        IF T = {} THEN 0 ELSE One(T).balance + h[T \ {One(T)}]
  BY OneIsElement DEF Step, BalancesOf
<1>5. h = [T \in SUBSET R |-> Step(g, h, T)]
  BY <1>3, <1>4
<1>6. Sums(g, R, h)
  BY <1>5, FoldSums
<1> QED
  BY <1>1, <1>6

(* The records of some charges.                                            *)
Records(a, p, U) == {[charge |-> c, balance |-> a[c] - p[c]] : c \in U}

(* The balances of some charges add up to what is charged less what is     *)
(* paid, when the others have none.                                        *)
LEMMA BalancesAddUp ==
  ASSUME NEW C, IsFiniteSet(C), NEW U \in SUBSET C, NEW a, NEW p,
         \A c \in C : a[c] \in Int /\ p[c] \in Int,
         \A c \in C \ U : a[c] = p[c]
  PROVE  Total(a, C) - Total(p, C) = BalanceSum(Records(a, p, U))
<1> DEFINE Of(c) == [charge |-> c, balance |-> a[c] - p[c]]
           Owed(T) == {Of(c) : c \in T \cap U}
           R == Owed(C)
           b == [r \in R |-> r.balance]
           f == [c \in U |-> Of(c)]
<1>1. IsFiniteSet(R)
  <2>1. IsFiniteSet(U)
    BY FS_Subset
  <2>2. f \in Surjection(U, R)
    BY DEF Surjection
  <2> HIDE DEF f, R
  <2> QED
    BY <2>1, <2>2, FS_Surjection
<1>2. \A r \in R : r.balance \in Int
  OBVIOUS
<1>3. PICK ha : Sums(a, C, ha) /\ Total(a, C) = ha[C]
  BY TotalSums
<1>4. PICK hp : Sums(p, C, hp) /\ Total(p, C) = hp[C]
  BY TotalSums
<1>5. PICK hb : Sums(b, R, hb) /\ BalanceSum(R) = hb[R]
  <2>1. BalancesOf(R, b) /\ b \in [R -> Int]
    BY <1>2 DEF BalancesOf
  <2> HIDE DEF R, b
  <2> QED
    BY <1>1, <2>1, BalanceSums
<1> DEFINE Q == {T \in SUBSET C : ha[T] - hp[T] = hb[Owed(T)]}
<1>6. ASSUME NEW T \in SUBSET C, \A x \in T : T \ {x} \in Q
      PROVE  T \in Q
  <2>1. CASE T = {}
    <3>1. Owed(T) = {}
      BY <2>1
    <3> HIDE DEF Owed, R, b
    <3>2. ha[T] = 0 /\ hp[T] = 0 /\ hb[Owed(T)] = 0
      BY <1>3, <1>4, <1>5, <2>1, <3>1 DEF Sums
    <3> QED
      BY <3>2
  <2>2. CASE T # {}
    <3>1. PICK x \in T : TRUE
      BY <2>2
    <3> DEFINE V == T \ {x}
    <3>2. ha[T] = a[x] + ha[V] /\ hp[T] = p[x] + hp[V] /\ ha[V] \in Int /\ hp[V] \in Int
      BY <1>3, <1>4 DEF Sums
    <3>3. ha[V] - hp[V] = hb[Owed(V)]
      BY <1>6
    <3>4. hb[Owed(T)] = (a[x] - p[x]) + hb[Owed(V)]
      <4>1. CASE x \in U
        <5>1. Owed(T) \in SUBSET R /\ Of(x) \in Owed(T)
          BY <4>1
        <5>2. Owed(V) = Owed(T) \ {Of(x)}
          <6>1. \A c \in U : c # x => Of(c) # Of(x)
            <7> SUFFICES ASSUME NEW c \in U, Of(c) = Of(x) PROVE c = x
              OBVIOUS
            <7>1. Of(c).charge = c /\ Of(x).charge = x
              OBVIOUS
            <7> HIDE DEF Of
            <7> QED
              BY <7>1
          <6> HIDE DEF Of
          <6> QED
            BY <6>1
        <5>3. b[Of(x)] = a[x] - p[x]
          BY <5>1
        <5> HIDE DEF Owed, Of, b
        <5> QED
          BY <1>5, <5>1, <5>2, <5>3 DEF Sums
      <4>2. CASE x \notin U
        <5>1. Owed(V) = Owed(T)
          BY <4>2
        <5>2. a[x] - p[x] = 0 /\ hb[Owed(V)] \in Int
          BY <3>2, <3>3, <4>2
        <5> HIDE DEF Owed
        <5> QED
          BY <5>1, <5>2
      <4> QED
        BY <4>1, <4>2
    <3>5. ha[T] - hp[T] = hb[Owed(T)]
      <4>1. a[x] \in Int /\ p[x] \in Int
        OBVIOUS
      <4> HIDE DEF V, Owed
      <4> QED
        BY <3>2, <3>3, <3>4, <4>1
    <3> HIDE DEF Owed, R, b, V
    <3> QED
      BY <3>5
  <2> QED
    BY <2>1, <2>2
<1> HIDE DEF Q
<1>7. \A T \in SUBSET C : T \in Q
  BY <1>6, SubsetInduction
<1>8. ha[C] - hp[C] = hb[R]
  BY <1>7 DEF Q
<1>9. R = Records(a, p, U)
  BY DEF Records
<1> HIDE DEF R, b
<1> QED
  BY <1>3, <1>4, <1>5, <1>8, <1>9

-----------------------------------------------------------------------------
(* What a student owes is the same wherever it is read.  A charge that is  *)
(* open asks for something, so that one with nothing left to pay is paid.  *)
OpenArePriced == \A c \in Charges : Open(c) => amount[c] > 0

LEMMA PricedNext ==
  ASSUME LedgerInv, OpenArePriced, [Next]_vars
  PROVE  OpenArePriced'
<1>1. ASSUME NEW c \in Charges, NEW s \in Students, NEW label \in Labels, NEW m \in Mills,
             InsertCharge(c, s, label, m)
      PROVE  OpenArePriced'
  BY <1>1 DEF InsertCharge, OpenArePriced, Open, LedgerInv, TypeOK
<1>2. ASSUME NEW a \in Admins, RecordPayment(a)
      PROVE  OpenArePriced'
  BY <1>2 DEF RecordPayment, OpenArePriced, Open
<1>3. ASSUME NEW a \in Admins, DeleteCharge(a)
      PROVE  OpenArePriced'
  BY <1>3 DEF DeleteCharge, OpenArePriced, Open, LedgerInv, TypeOK
<1>4. CASE UNCHANGED ledger
  BY <1>4 DEF ledger, OpenArePriced, Open
<1>5. CASE UNCHANGED vars
  BY <1>4, <1>5 DEF vars, ledger
<1> QED
  BY <1>1, <1>2, <1>3, <1>4, <1>5, LedgerSteps

LEMMA PricedInvariant == Spec => []OpenArePriced
<1>1. Init => OpenArePriced
  BY DEF Init, OpenArePriced, Open
<1>2. LedgerInv /\ OpenArePriced /\ [Next]_vars => OpenArePriced'
  BY PricedNext
<1> QED
  BY LedgerInvariant, <1>1, <1>2, PTL DEF Spec

(* A list has one record for each charge.                                  *)
LEMMA OneRecordEach ==
  ASSUME NEW U, IsFiniteSet(U)
  PROVE  Cardinality({[charge |-> c, balance |-> Balance(c)] : c \in U}) = Cardinality(U)
<1> DEFINE Of(c) == [charge |-> c, balance |-> Balance(c)]
           R == {Of(c) : c \in U}
           f == [c \in U |-> Of(c)]
<1>1. \A c \in U : Of(c).charge = c
  OBVIOUS
<1> HIDE DEF Of
<1>2. f \in Injection(U, R)
  <2>1. f \in [U -> R] /\ \A c \in U : f[c] = Of(c)
    OBVIOUS
  <2>2. \A c, d \in U : f[c] = f[d] => c = d
    BY <1>1, <2>1
  <2> HIDE DEF f, R
  <2> QED
    BY <2>1, <2>2 DEF Injection, IsInjective
<1>3. f \in Surjection(U, R)
  BY DEF Surjection
<1> HIDE DEF f, R
<1>4. Cardinality(R) = Cardinality(U)
  BY <1>2, <1>3, FS_Surjection
<1> QED
  BY <1>4 DEF Of, R

(* The statuses of charges that ask for something.                         *)
LEMMA StatusOfCharge ==
  ASSUME NEW owed \in Nat, NEW total \in Nat, owed > 0
  PROVE  /\ PaymentStatus(owed, total) = "UNPAID" <=> total = 0
         /\ PaymentStatus(owed, total) = "PARTIAL" <=> 0 < total /\ total < owed
         /\ PaymentStatus(owed, total) \in {"PAID", "OVERPAID"} <=> owed <= total
  BY DEF PaymentStatus

(* The charges counted by status are those that are listed.                *)
LEMMA CountsAddUp ==
  ASSUME NEW C \in SUBSET Charges, IsFiniteSet(C), LedgerInv, OpenArePriced,
         \A c \in C : Open(c)
  PROVE  LET totals == FeeTotals(C)
             U == {c \in C : paid[c] < amount[c]} IN
           /\ totals.partial + totals.unpaid = Cardinality(U)
           /\ totals.count = totals.paid + totals.partial + totals.unpaid
<1> DEFINE U == {c \in C : paid[c] < amount[c]}
           P == {c \in C : PaymentStatus(amount[c], paid[c]) \in {"PAID", "OVERPAID"}}
           M == {c \in C : PaymentStatus(amount[c], paid[c]) \in {"PARTIAL"}}
           N == {c \in C : PaymentStatus(amount[c], paid[c]) \in {"UNPAID"}}
<1>1. \A c \in C : amount[c] \in Nat /\ paid[c] \in Nat /\ amount[c] > 0
  BY DEF LedgerInv, TypeOK, OpenArePriced
<1>2. P = {c \in C : amount[c] <= paid[c]}
  BY <1>1, StatusOfCharge
<1>3. M = {c \in C : 0 < paid[c] /\ paid[c] < amount[c]}
  BY <1>1, StatusOfCharge
<1>4. N = {c \in C : paid[c] = 0}
  BY <1>1, StatusOfCharge
<1>5. U = M \cup N /\ M \cap N = {} /\ C = P \cup U /\ P \cap U = {}
  BY <1>1, <1>2, <1>3, <1>4
<1> HIDE DEF U, P, M, N
<1>6. IsFiniteSet(U) /\ IsFiniteSet(P) /\ IsFiniteSet(M) /\ IsFiniteSet(N)
  BY FS_Subset, <1>5
<1>7. /\ Cardinality(U) = Cardinality(M) + Cardinality(N) - Cardinality({})
      /\ Cardinality(C) = Cardinality(P) + Cardinality(U) - Cardinality({})
  BY <1>5, <1>6, FS_Union
<1>8. /\ Cardinality({}) = 0 /\ Cardinality(M) \in Nat /\ Cardinality(N) \in Nat
      /\ Cardinality(P) \in Nat /\ Cardinality(U) \in Nat
  BY <1>6, FS_EmptySet, FS_CardinalityType
<1>9. /\ FeeTotals(C).count = Cardinality(C) /\ FeeTotals(C).paid = Cardinality(P)
      /\ FeeTotals(C).partial = Cardinality(M) /\ FeeTotals(C).unpaid = Cardinality(N)
  BY DEF FeeTotals, CountOfStatus, P, M, N
<1>10. /\ Cardinality(M) + Cardinality(N) = Cardinality(U)
       /\ Cardinality(C) = Cardinality(P) + Cardinality(M) + Cardinality(N)
  BY <1>7, <1>8
<1> QED
  BY <1>9, <1>10 DEF U

LEMMA ViewsAgree ==
  ASSUME IsFiniteSet(Charges), LedgerInv, OpenArePriced
  PROVE  FeeViewsAgree
<1> SUFFICES ASSUME NEW s \in Students
             PROVE  LET owed == FeeSummary(s).outstanding
                        totals == FeeTotals(ChargesOf({s})) IN
                      /\ owed = BalanceSum(ChildFees(s))
                      /\ owed = BalanceSum(ListCharges({s}, TRUE))
                      /\ owed = totals.outstanding
                      /\ ListCharges({s}, FALSE) = ChildFees(s)
                      /\ totals.partial + totals.unpaid = Cardinality(ListCharges({s}, TRUE))
                      /\ totals.count = totals.paid + totals.partial + totals.unpaid
  BY DEF FeeViewsAgree
<1> DEFINE C == ChargesOf({s})
           U == {c \in C : paid[c] < amount[c]}
           owed == Total(amount, C) - Total(paid, C)
<1>1. C \in SUBSET Charges /\ \A c \in C : c \in Charges /\ Open(c)
  BY DEF ChargesOf
<1>2. IsFiniteSet(C) /\ IsFiniteSet(U)
  <2>1. IsFiniteSet(C)
    BY <1>1, FS_Subset
  <2> QED
    BY <2>1, FS_Subset
<1>3. \A c \in C : amount[c] \in Int /\ paid[c] \in Int /\ paid[c] <= amount[c]
  <2> HIDE DEF C
  <2>1. \A c \in Charges : amount[c] \in Nat /\ paid[c] \in Nat
    BY DEF LedgerInv, TypeOK
  <2>2. \A c \in Charges : Open(c) => paid[c] <= amount[c]
    BY DEF LedgerInv, NeverOverpaid
  <2>3. ASSUME NEW c \in C PROVE paid[c] <= amount[c]
    BY <1>1, <2>2
  <2>4. ASSUME NEW c \in C PROVE amount[c] \in Int /\ paid[c] \in Int
    <3>1. amount[c] \in Nat /\ paid[c] \in Nat
      BY <1>1, <2>1
    <3> QED
      BY <3>1
  <2> QED
    BY <2>3, <2>4
<1>4. FeeSummary(s).outstanding = owed /\ FeeTotals(C).outstanding = owed
  BY DEF FeeSummary, FeeTotals
<1>5. ChildFees(s) = Records(amount, paid, C)
  BY DEF ChildFees, Balance, Records
<1>6. ListCharges({s}, TRUE) = Records(amount, paid, U)
  BY DEF ListCharges, Balance, Records
<1>7. ListCharges({s}, FALSE) = ChildFees(s)
  BY DEF ListCharges, ChildFees
<1> HIDE DEF C
<1>8. owed = BalanceSum(ChildFees(s))
  <2>1. \A c \in C : amount[c] \in Int /\ paid[c] \in Int
    BY <1>3
  <2>2. C \in SUBSET C /\ \A c \in C \ C : amount[c] = paid[c]
    OBVIOUS
  <2> QED
    BY <1>2, <1>5, <2>1, <2>2, BalancesAddUp
<1>9. owed = BalanceSum(ListCharges({s}, TRUE))
  <2>1. U \in SUBSET C /\ \A c \in C \ U : amount[c] = paid[c]
    BY <1>3
  <2>2. \A c \in C : amount[c] \in Int /\ paid[c] \in Int
    BY <1>3
  <2> HIDE DEF U
  <2>3. owed = BalanceSum(Records(amount, paid, U))
    BY <1>2, <2>1, <2>2, BalancesAddUp
  <2> HIDE DEF owed
  <2> QED
    BY <1>6, <2>3, Zenon
<1>10. Cardinality(ListCharges({s}, TRUE)) = Cardinality(U)
  BY <1>2, <1>6, OneRecordEach DEF Balance, Records
<1>11. /\ FeeTotals(C).partial + FeeTotals(C).unpaid = Cardinality(U)
       /\ FeeTotals(C).count = FeeTotals(C).paid + FeeTotals(C).partial + FeeTotals(C).unpaid
  BY <1>1, <1>2, CountsAddUp
<1> HIDE DEF U, owed
<1> QED
  BY <1>4, <1>7, <1>8, <1>9, <1>10, <1>11 DEF C

(* The summary of a student, the guardian's list of the child's charges,   *)
(* the charges listed as not paid up and the counts by status tell one     *)
(* story about any finite ledger (fees/controller.ts:372, 621,             *)
(* guardian-portal:322).                                                   *)
THEOREM FeeViewsAgreeHolds ==
  ASSUME IsFiniteSet(Charges)
  PROVE  Spec => []FeeViewsAgree
<1>1. LedgerInv /\ OpenArePriced => FeeViewsAgree
  BY ViewsAgree
<1> QED
  BY LedgerInvariant, PricedInvariant, <1>1, PTL

-----------------------------------------------------------------------------
(* One Admin at work: what the students left in a bulk request are charged *)
(* for already, it has raised itself.                                      *)
BulkIsFresh(a) ==
  req[a].op = "bulk" =>
    \A t \in req[a].todo, d \in Charges :
      Open(d) /\ about[d] = <<t[2], req[a].label>> => d \in req[a].charged

(* What the loop of bulkCharge takes off its list.                         *)
LEMMA TakenOff ==
  ASSUME TypeOK, NEW a \in Admins, NEW t \in req[a].todo,
         NEW raised \in SUBSET Charges, TakeNext(a, t, raised)
  PROVE  /\ req[a].op = "bulk" /\ req'[a].op = "bulk"
         /\ req'[a].label = req[a].label
         /\ req'[a].todo = req[a].todo \ {t}
         /\ req'[a].charged = req[a].charged \cup raised
  BY DEF TakeNext, TypeOK

LEMMA BulkNext ==
  ASSUME NEW a, Admins = {a}, TypeOK, BulkIsFresh(a), [Next]_vars
  PROVE  BulkIsFresh(a)'
<1> SUFFICES ASSUME req'[a].op = "bulk"
             PROVE  BulkIsFresh(a)'
  BY DEF BulkIsFresh
<1>0. a \in Admins /\ \A r : req' = [req EXCEPT ![a] = r] => req'[a] = r
  BY DEF TypeOK
<1>1. ASSUME NEW targets \in Targets, NEW label \in Labels, NEW asked \in Mills,
             StartBulk(a, targets, label, asked)
      PROVE  BulkIsFresh(a)'
  <2>1. /\ req'[a].label = label /\ UNCHANGED ledger
        /\ req'[a].todo = {t \in Named(targets) : ~ HasCharge(t[2], label)}
    BY <1>0, <1>1 DEF StartBulk
  <2> QED
    BY <2>1 DEF BulkIsFresh, HasCharge, Open, ledger
<1>2. ASSUME NEW t \in req[a].todo, NEW c \in Charges, BulkInsert(a, t, c)
      PROVE  BulkIsFresh(a)'
  <2>1. /\ req[a].op = "bulk" /\ req'[a].label = req[a].label
        /\ req'[a].todo = req[a].todo \ {t}
        /\ req'[a].charged = req[a].charged \cup {c}
    BY <1>0, <1>2, TakenOff DEF BulkInsert
  <2>2. /\ row' = [row EXCEPT ![c] = "open"]
        /\ about' = [about EXCEPT ![c] = <<t[2], req[a].label>>]
    BY <1>2 DEF BulkInsert, InsertCharge
  <2>3. \A d \in Charges : d = c \/ (row'[d] = row[d] /\ about'[d] = about[d])
    BY <2>2 DEF TypeOK
  <2> QED
    BY <2>1, <2>3 DEF BulkIsFresh, Open
<1>3. ASSUME NEW t \in req[a].todo, BulkInsertFails(a, t)
      PROVE  BulkIsFresh(a)'
  <2>1. /\ req[a].op = "bulk" /\ req'[a].label = req[a].label
        /\ req'[a].todo = req[a].todo \ {t} /\ UNCHANGED ledger
        /\ req'[a].charged = req[a].charged
    <3>1. TakeNext(a, t, {}) /\ UNCHANGED ledger
      BY <1>3 DEF BulkInsertFails
    <3>2. /\ req'[a].todo = req[a].todo \ {t}
          /\ req[a].op = "bulk" /\ req'[a].label = req[a].label
          /\ req'[a].charged = req[a].charged \cup {}
      BY <1>0, <3>1, TakenOff
    <3> QED
      BY <3>1, <3>2
  <2> QED
    BY <2>1 DEF BulkIsFresh, Open, ledger
<1>4. ASSUME UNCHANGED vars
      PROVE  BulkIsFresh(a)'
  BY <1>4 DEF vars, BulkIsFresh, Open
<1>5. ASSUME NEW c \in Charges, NEW s \in Students, NEW label \in Labels, NEW asked \in Mills
      PROVE  ~ CreateCharge(a, c, s, label, asked)
  BY DEF CreateCharge, Idle
<1>6. ASSUME NEW c \in Charges
      PROVE  ~ LockForDeletion(a, c) /\ \A asked \in Mills : ~ LockForPayment(a, c, asked)
  BY <1>0 DEF LockForPayment, LockForDeletion
<1>7. ~ EndBulk(a) /\ ~ RecordPayment(a) /\ ~ DeleteCharge(a) /\ ~ Rollback(a) /\ ~ Crash
  BY <1>0 DEF EndBulk, RecordPayment, DeleteCharge, Rollback, Crash, Idle
<1>8. Handler(a) => BulkIsFresh(a)'
  BY <1>1, <1>2, <1>3, <1>5, <1>6, <1>7 DEF Handler
<1> QED
  BY <1>0, <1>4, <1>7, <1>8 DEF Next, BulkIsFresh

(* bulkCharge charges nobody for what they were charged for before the     *)
(* request, for any lists, repetitions in them included, and any charges,  *)
(* while one Admin works, and whatever inserts fail or crashes cut a       *)
(* request short.  A student named twice it may charge twice.              *)
THEOREM BulkSkipsTheChargedForOneAdmin ==
  ASSUME NEW one, Admins = {one}
  PROVE  Spec => BulkSkipsTheCharged
<1> DEFINE Skips == \A a \in Admins, c \in Charges :
                      /\ req[a].op = "bulk" /\ req'[a].op = "bulk"
                      /\ row[c] = "none" /\ row'[c] = "open"
                      => \A d \in Charges : Open(d) /\ about[d] = about'[c]
                                               => d \in req[a].charged
<1>1. Init => TypeOK /\ BulkIsFresh(one)
  BY TypeInit DEF Init, BulkIsFresh, Idle
<1>2. TypeOK /\ BulkIsFresh(one) /\ [Next]_vars => TypeOK' /\ BulkIsFresh(one)'
  BY TypeNext, BulkNext
<1>3. ASSUME TypeOK, BulkIsFresh(one), [Next]_vars
      PROVE  Skips
  <2> SUFFICES ASSUME NEW c \in Charges, req[one].op = "bulk", row[c] = "none", row'[c] = "open",
                      NEW e \in Charges, Open(e), about[e] = about'[c]
               PROVE  e \in req[one].charged
    OBVIOUS
  <2>1. row' # row
    OBVIOUS
  <2>2. ASSUME NEW t \in req[one].todo, NEW d \in Charges, BulkInsert(one, t, d)
        PROVE  e \in req[one].charged
    <3>1. /\ row' = [row EXCEPT ![d] = "open"]
          /\ about' = [about EXCEPT ![d] = <<t[2], req[one].label>>]
      BY <2>2 DEF BulkInsert, InsertCharge
    <3>2. about'[c] = <<t[2], req[one].label>>
      BY <1>3, <3>1 DEF TypeOK
    <3> QED
      BY <1>3, <3>2 DEF BulkIsFresh
  <2>3. ASSUME NEW t \in req[one].todo
        PROVE  ~ BulkInsertFails(one, t)
    BY <2>1 DEF BulkInsertFails, ledger
  <2>4. ASSUME NEW d \in Charges, NEW k \in Students, NEW label \in Labels, NEW asked \in Mills
        PROVE  ~ CreateCharge(one, d, k, label, asked)
    BY DEF CreateCharge, Idle
  <2>5. ASSUME NEW d \in Charges
        PROVE  ~ LockForDeletion(one, d) /\ \A asked \in Mills : ~ LockForPayment(one, d, asked)
    BY <2>1 DEF LockForPayment, LockForDeletion, ledger
  <2>6. ASSUME NEW targets \in Targets, NEW label \in Labels, NEW asked \in Mills
        PROVE  ~ StartBulk(one, targets, label, asked)
    BY <2>1 DEF StartBulk, ledger
  <2>7. /\ ~ EndBulk(one) /\ ~ RecordPayment(one) /\ ~ DeleteCharge(one) /\ ~ Rollback(one)
        /\ ~ Crash /\ ~ UNCHANGED vars
    BY <2>1 DEF EndBulk, RecordPayment, DeleteCharge, Rollback, Holding, Crash, ledger, vars
  <2>8. Handler(one)
    BY <1>3, <2>7 DEF Next
  <2> QED
    BY <2>2, <2>3, <2>4, <2>5, <2>6, <2>7, <2>8 DEF Handler
<1>4. TypeOK /\ BulkIsFresh(one) /\ [Next]_vars => [Skips]_vars
  BY <1>3
<1>5. Spec => [](TypeOK /\ BulkIsFresh(one))
  BY <1>1, <1>2, PTL DEF Spec
<1>6. Spec => [][Skips]_vars
  BY <1>4, <1>5, PTL DEF Spec
<1> QED
  BY <1>6 DEF BulkSkipsTheCharged
=============================================================================
