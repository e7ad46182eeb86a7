------------------------------ MODULE FeeViews ------------------------------
(***************************************************************************)
(* What is read from the fee ledger: the list of charges, the summary by   *)
(* student, what a guardian sees of a child, and the counts of paid and    *)
(* unpaid charges.  Each is one statement, so it sees one state of the     *)
(* ledger.  The filters by session and class, and the names, are left out. *)
(***************************************************************************)
EXTENDS FeeLedger, FiniteSetsExt

ChargesOf(S) == {c \in Charges : Open(c) /\ about[c][1] \in S}
Total(f, C) == MapThenSumSet(LAMBDA c : f[c], C)
Balance(c) == amount[c] - paid[c]

(* listCharges: an Admin asks for anybody, a student and a guardian get    *)
(* their own; hasBalance keeps the charges that are not paid up.           *)
ListCharges(S, hasBalance) ==
  {[charge |-> c, balance |-> Balance(c)] :
     c \in {c \in ChargesOf(S) : hasBalance => paid[c] < amount[c]}}

(* feeSummary: a row for each student with a charge, paid or not.          *)
(* A bug to detect: the join drops the charges nobody paid on.             *)
FeeSummaryOfPaid(s) ==
  LET C == {c \in ChargesOf({s}) : paid[c] > 0} IN
    [charged |-> Total(amount, C), paid |-> Total(paid, C),
     outstanding |-> Total(amount, C) - Total(paid, C)]
FeeSummary(s) ==
  LET C == ChargesOf({s}) IN
    [charged |-> Total(amount, C), paid |-> Total(paid, C),
     outstanding |-> Total(amount, C) - Total(paid, C)]

ChildFees(s) == {[charge |-> c, balance |-> Balance(c)] : c \in ChargesOf({s})}

PaymentStatus(owed, total) ==
  IF total <= 0 THEN "UNPAID"
  ELSE IF total < owed THEN "PARTIAL"
  ELSE IF total = owed THEN "PAID" ELSE "OVERPAID"
CountOfStatus(C, statuses) ==
  Cardinality({c \in C : PaymentStatus(amount[c], paid[c]) \in statuses})
FeeTotals(C) ==
  [outstanding |-> Total(amount, C) - Total(paid, C), count |-> Cardinality(C),
   paid |-> CountOfStatus(C, {"PAID", "OVERPAID"}),
   partial |-> CountOfStatus(C, {"PARTIAL"}), unpaid |-> CountOfStatus(C, {"UNPAID"})]

(* What a student owes is the same wherever it is read: the summary's      *)
(* outstanding sum is that of the guardian's balances, and of the charges  *)
(* listed as not paid up alone, none of which has a balance below zero to  *)
(* hide another's (fees/controller.ts:372, 621, guardian-portal:322).      *)
BalanceSum(R) == MapThenSumSet(LAMBDA r : r.balance, R)
FeeViewsAgree ==
  \A s \in Students :
    LET owed == FeeSummary(s).outstanding
        totals == FeeTotals(ChargesOf({s})) IN
      /\ owed = BalanceSum(ChildFees(s))
      /\ owed = BalanceSum(ListCharges({s}, TRUE))
      /\ owed = totals.outstanding
      /\ ListCharges({s}, FALSE) = ChildFees(s)
      /\ totals.partial + totals.unpaid = Cardinality(ListCharges({s}, TRUE))
      /\ totals.count = totals.paid + totals.partial + totals.unpaid
=============================================================================
