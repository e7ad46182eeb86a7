----------------------------- MODULE FeeLedger -----------------------------
(***************************************************************************)
(* Fee charges and payments: the handlers of modules/fees that write.      *)
(*                                                                         *)
(* recordPayment and deleteCharge are transactions that hold the row of    *)
(* the charge (SELECT ... FOR UPDATE) while they sum the payments, decide  *)
(* and write.  bulkCharge takes no lock: it reads who has the charge       *)
(* already and then inserts row after row, each INSERT a transaction of    *)
(* its own.                                                                *)
(*                                                                         *)
(* Amounts arrive as JSON numbers and are stored as NUMERIC(10,2).  A      *)
(* request's amount is counted in mills, tenths of a cent, and a stored    *)
(* one in cents.                                                           *)
(***************************************************************************)
EXTENDS Integers, Sequences

CONSTANTS
  Charges,       \* charge ids
  Admins,        \* signed-in Admins; each has at most one request in flight
  Students,
  Labels,        \* what a charge is for: its description and its session
  Mills,         \* the amounts requests ask for
  Targets,       \* the student lists bulk requests resolve to
  Nothing

ASSUME MillsAssumption == Mills \subseteq Nat \ {0}

ASSUME TargetsAssumption == Targets \subseteq Seq(Students)

ASSUME NothingAssumption == Nothing \notin Students \X Labels

(* NUMERIC(10,2) rounds half a cent up.                                    *)
ToCents(m) == (m + 5) \div 10

(* The balance is a difference of two doubles: it may come out just below  *)
(* the exact value, which counted in mills refuses the exact value itself. *)
(* Just above makes no difference, and before the first payment it is      *)
(* exact.                                                                  *)
FloatNoise(total) == IF total = 0 THEN {0} ELSE {-1, 0}

(* A bug to detect: what was paid already is forgotten.                    *)
IsOverpaymentAtOnce(owed, total, asked, noise) == asked > 10 * owed + noise

IsOverpayment(owed, total, asked, noise) == asked > 10 * (owed - total) + noise

Cents == {ToCents(m) : m \in Mills} \ {0}

VARIABLES
  row,           \* none, open or deleted, for each charge id
  about,         \* the student and the label of a charge
  amount,        \* fee_charges.amount
  paid,          \* the sum of the charge's fee_payments.amount_paid
  req            \* the request each Admin has in flight

ledger == <<row, about, amount, paid>>
vars == <<row, about, amount, paid, req>>

Idle == [op |-> "idle"]

(* total is the sum the transaction read under the lock.                   *)
Payments == [op : {"pay"}, charge : Charges, asked : Mills, total : Nat]
Deletions == [op : {"delete"}, charge : Charges, total : Nat]

(* todo holds the students left to charge, each with the place in the list *)
(* it was named at, and was computed from one early read; charged holds    *)
(* the charges raised so far.                                              *)
Bulks == [op : {"bulk"}, label : Labels, asked : Mills,
          todo : SUBSET (Nat \X Students), charged : SUBSET Charges]

Requests == {Idle} \cup Payments \cup Deletions \cup Bulks

TypeOK ==
  /\ row \in [Charges -> {"none", "open", "deleted"}]
  /\ about \in [Charges -> (Students \X Labels) \cup {Nothing}]
  /\ amount \in [Charges -> Nat]
  /\ paid \in [Charges -> Nat]
  /\ req \in [Admins -> Requests]

-----------------------------------------------------------------------------
Init ==
  /\ row = [c \in Charges |-> "none"]
  /\ about = [c \in Charges |-> Nothing]
  /\ amount = [c \in Charges |-> 0]
  /\ paid = [c \in Charges |-> 0]
  /\ req = [a \in Admins |-> Idle]

Open(c) == row[c] = "open"

(* The transactions in flight, each of which holds the row of its charge.  *)
Holding(a) == req[a].op \in {"pay", "delete"}

(* A bug to detect: SELECT without FOR UPDATE.                             *)
RowUnlocked(c) == TRUE

RowFree(c) == \A a \in Admins : Holding(a) => req[a].charge # c

(* Does a charge for the same thing exist?                                 *)
HasCharge(s, label) == \E c \in Charges : Open(c) /\ about[c] = <<s, label>>

(* One INSERT INTO fee_charges under a fresh id.  The table refuses an     *)
(* amount that rounds to zero.                                             *)
InsertCharge(c, s, label, asked) ==
  /\ row[c] = "none"
  /\ ToCents(asked) > 0
  /\ row' = [row EXCEPT ![c] = "open"]
  /\ about' = [about EXCEPT ![c] = <<s, label>>]
  /\ amount' = [amount EXCEPT ![c] = ToCents(asked)]
  /\ UNCHANGED paid

(* POST /fees/charges.  It does not look for an identical charge.          *)
CreateCharge(a, c, s, label, asked) ==
  /\ req[a] = Idle
  /\ InsertCharge(c, s, label, asked)
  /\ UNCHANGED req

-----------------------------------------------------------------------------
(* POST /fees/charges/bulk: the read that finds who is charged already.    *)
(* The list is not searched for repetitions.                               *)
Named(targets) == {<<i, targets[i]>> : i \in DOMAIN targets}

StartBulk(a, targets, label, asked) ==
  /\ req[a] = Idle
  /\ req' = [req EXCEPT ![a] =
               [op |-> "bulk", label |-> label, asked |-> asked,
                todo |-> {t \in Named(targets) : ~ HasCharge(t[2], label)},
                charged |-> {}]]
  /\ UNCHANGED ledger

(* The loop goes through the list in order.                                *)
TakeNext(a, t, raised) ==
  /\ req[a].op = "bulk"
  /\ \A other \in req[a].todo : t[1] <= other[1]
  /\ req' = [req EXCEPT ![a] =
               [op |-> "bulk", label |-> req[a].label, asked |-> req[a].asked,
                todo |-> req[a].todo \ {t}, charged |-> req[a].charged \cup raised]]

(* The INSERT for the next student of the list ...                         *)
BulkInsert(a, t, c) ==
  /\ TakeNext(a, t, {c})
  /\ InsertCharge(c, t[2], req[a].label, req[a].asked)

(* ... or its failure, which is logged and skipped.                        *)
BulkInsertFails(a, t) ==
  /\ TakeNext(a, t, {})
  /\ UNCHANGED ledger

EndBulk(a) ==
  /\ req[a].op = "bulk"
  /\ req[a].todo = {}
  /\ req' = [req EXCEPT ![a] = Idle]
  /\ UNCHANGED ledger

-----------------------------------------------------------------------------
(* POST /fees/charges/:id/payments: lock the charge and sum its payments.  *)
(* A bug to detect: the charge is not looked for.                          *)
LockForPaymentOfAny(a, c, asked) ==
  /\ req[a] = Idle
  /\ RowFree(c)
  /\ req' = [req EXCEPT ![a] =
               [op |-> "pay", charge |-> c, asked |-> asked, total |-> paid[c]]]
  /\ UNCHANGED ledger

LockForPayment(a, c, asked) ==
  /\ req[a] = Idle
  /\ Open(c)
  /\ RowFree(c)
  /\ req' = [req EXCEPT ![a] =
               [op |-> "pay", charge |-> c, asked |-> asked, total |-> paid[c]]]
  /\ UNCHANGED ledger

(* Check the balance, insert the payment, commit.  The balance is computed *)
(* from what was read, in floating point; the payment is rounded when it   *)
(* is stored, and refused when it rounds to zero.                          *)
RecordPayment(a) ==
  /\ req[a].op = "pay"
  /\ \E noise \in FloatNoise(req[a].total) :
       ~ IsOverpayment(amount[req[a].charge], req[a].total, req[a].asked, noise)
  /\ ToCents(req[a].asked) > 0
  /\ paid' = [paid EXCEPT ![req[a].charge] = @ + ToCents(req[a].asked)]
  /\ req' = [req EXCEPT ![a] = Idle]
  /\ UNCHANGED <<row, about, amount>>

(* OVERPAYMENT, an amount that rounds to zero, a failed statement: the     *)
(* transaction is rolled back.  The same for a deletion.                   *)
Rollback(a) ==
  /\ Holding(a)
  /\ req' = [req EXCEPT ![a] = Idle]
  /\ UNCHANGED ledger

(* DELETE /fees/charges/:id: lock the charge and sum its payments.         *)
LockForDeletion(a, c) ==
  /\ req[a] = Idle
  /\ Open(c)
  /\ RowFree(c)
  /\ req' = [req EXCEPT ![a] = [op |-> "delete", charge |-> c, total |-> paid[c]]]
  /\ UNCHANGED ledger

(* A bug to detect: the sum is not looked at.                              *)
DeleteChargeAnyway(a) ==
  /\ req[a].op = "delete"
  /\ row' = [row EXCEPT ![req[a].charge] = "deleted"]
  /\ req' = [req EXCEPT ![a] = Idle]
  /\ UNCHANGED <<about, amount, paid>>

DeleteCharge(a) ==
  /\ req[a].op = "delete"
  /\ req[a].total = 0
  /\ row' = [row EXCEPT ![req[a].charge] = "deleted"]
  /\ req' = [req EXCEPT ![a] = Idle]
  /\ UNCHANGED <<about, amount, paid>>

(* The server dies: transactions are rolled back, and a bulk request stops *)
(* where it was.                                                           *)
Crash ==
  /\ req' = [a \in Admins |-> Idle]
  /\ UNCHANGED ledger

-----------------------------------------------------------------------------
Handler(a) ==
  \/ \E c \in Charges, s \in Students, label \in Labels, asked \in Mills :
       CreateCharge(a, c, s, label, asked)
  \/ \E targets \in Targets, label \in Labels, asked \in Mills :
       StartBulk(a, targets, label, asked)
  \/ req[a].op = "bulk" /\ \E t \in req[a].todo :
       (\E c \in Charges : BulkInsert(a, t, c)) \/ BulkInsertFails(a, t)
  \/ EndBulk(a)
  \/ \E c \in Charges, asked \in Mills : LockForPayment(a, c, asked)
  \/ RecordPayment(a)
  \/ \E c \in Charges : LockForDeletion(a, c)
  \/ DeleteCharge(a)
  \/ Rollback(a)

Next == (\E a \in Admins : Handler(a)) \/ Crash

Spec == Init /\ [][Next]_vars
-----------------------------------------------------------------------------
(* Safety.                                                                 *)

(* Nobody ever pays more than a charge asks for, whatever payments run     *)
(* together and however their amounts are rounded: what the lock and the   *)
(* OVERPAYMENT check in recordPayment are for.                             *)
NeverOverpaid == \A c \in Charges : Open(c) => paid[c] <= amount[c]

(* No payment is left without its charge: deleteCharge does not overtake a *)
(* payment, nor a payment a deletion.                                      *)
NoOrphanPayments == \A c \in Charges : paid[c] > 0 => Open(c)

(* The sum a transaction works with is still the sum of the payments when  *)
(* it decides.                                                             *)
LockedSumIsCurrent ==
  \A a \in Admins : Holding(a) =>
    Open(req[a].charge) /\ req[a].total = paid[req[a].charge]

(* At most one transaction holds a charge.                                 *)
LocksExclude ==
  \A a, b \in Admins :
    Holding(a) /\ Holding(b) /\ a # b => req[a].charge # req[b].charge

(* A payment is a payment: what was paid on a charge never shrinks and the *)
(* amount it was raised for never changes.                                 *)
PaymentsAreFinal ==
  [][\A c \in Charges : row[c] # "none" =>
       paid'[c] >= paid[c] /\ amount'[c] = amount[c] /\ about'[c] = about[c]]_vars

(* bulkCharge skips the students who have an identical charge ("Students   *)
(* skipped (already have identical charge)", server/docs/openapi.yaml):    *)
(* when it charges a student, the identical charges there are it has       *)
(* raised itself, for a student its list names twice.  So it is while one  *)
(* Admin works alone, also when a request that died half way is repeated.  *)
BulkSkipsTheCharged ==
  [][\A a \in Admins, c \in Charges :
       /\ req[a].op = "bulk" /\ req'[a].op = "bulk"
       /\ row[c] = "none" /\ row'[c] = "open"
       => \A d \in Charges : Open(d) /\ about[d] = about'[c] => d \in req[a].charged]_vars

(* Nobody is charged for the same thing twice by a request: which holds    *)
(* for the lists without repetitions alone, and bulkCharge does not search *)
(* a list of studentIds for them.                                          *)
NobodyIsChargedTwice ==
  \A a \in Admins : req[a].op = "bulk" =>
    \A c, d \in req[a].charged : about[c] = about[d] => c = d

(* Whatever is left of a charge can be paid in one payment: isOverpayment  *)
(* "returns false for exact remaining balance" (feeBalance.test.ts).       *)
ExactBalanceIsAccepted ==
  \A a \in Admins :
    req[a].op = "pay" /\ req[a].asked = 10 * (amount[req[a].charge] - req[a].total) =>
      \A noise \in FloatNoise(req[a].total) :
        ~ IsOverpayment(amount[req[a].charge], req[a].total, req[a].asked, noise)

-----------------------------------------------------------------------------
(* Refinement: the transactions add up to the atomic operations.           *)
Account == INSTANCE FeeAccount WITH
  open <- {c \in Charges : Open(c)},
  Sums <- Cents

ImplementsAccount == Account!Spec
=============================================================================
