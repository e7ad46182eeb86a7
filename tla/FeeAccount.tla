----------------------------- MODULE FeeAccount -----------------------------
(***************************************************************************)
(* What the fee handlers promise: charges whose balance is paid down and   *)
(* never beyond zero, and that disappear only while nothing was paid.  One *)
(* atomic step per operation; FeeLedger, where the operations are          *)
(* transactions under row locks, implements it.                            *)
(***************************************************************************)
EXTENDS Integers

CONSTANTS
  Charges,
  Sums        \* the amounts, in cents, a charge or a payment can have

VARIABLES
  open,       \* the charges that exist
  amount,     \* what is owed, in cents
  paid        \* what was paid, in cents

vars == <<open, amount, paid>>

Init ==
  /\ open = {}
  /\ amount = [c \in Charges |-> 0]
  /\ paid = [c \in Charges |-> 0]

Raise(c, n) ==
  /\ c \notin open
  /\ open' = open \cup {c}
  /\ amount' = [amount EXCEPT ![c] = n]
  /\ UNCHANGED paid

Pay(c, n) ==
  /\ c \in open
  /\ n <= amount[c] - paid[c]
  /\ paid' = [paid EXCEPT ![c] = @ + n]
  /\ UNCHANGED <<open, amount>>

Remove(c) ==
  /\ c \in open
  /\ paid[c] = 0
  /\ open' = open \ {c}
  /\ UNCHANGED <<amount, paid>>

Next ==
  \/ \E c \in Charges, n \in Sums : Raise(c, n) \/ Pay(c, n)
  \/ \E c \in Charges : Remove(c)

Spec == Init /\ [][Next]_vars
=============================================================================
