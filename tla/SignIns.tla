------------------------------ MODULE SignIns ------------------------------
(***************************************************************************)
(* What the accounts of a school promise of a sign-in, whatever requests   *)
(* race: a session, once closed, is never open again, and each sign-out,   *)
(* change or reset of a password closes all the sessions its user had.     *)
(***************************************************************************)
EXTENDS Naturals

CONSTANTS Users, Versions

VARIABLES
  open,      \* the sessions a request may be made with, as user and version
  closed,    \* the sessions no request can be made with any more
  signOuts   \* how many requests that close a user's sessions have been answered

vars == <<open, closed, signOuts>>

Init == open = {} /\ closed = {} /\ signOuts = [u \in Users |-> 0]

SessionsOf(u) == {s \in open : s[1] = u}

Open(s) ==
  /\ s \notin closed
  /\ open' = open \cup {s}
  /\ UNCHANGED <<closed, signOuts>>

(* A sign-in that was overtaken by a sign-out answers a closed session.    *)
OpenTooLate(s) ==
  /\ s \notin open
  /\ closed' = closed \cup {s}
  /\ UNCHANGED <<open, signOuts>>

CloseAllBut(u, kept, late) ==
  /\ open' = (open \ SessionsOf(u)) \cup kept
  /\ closed' = closed \cup SessionsOf(u) \cup late

SignOut(u) ==
  /\ CloseAllBut(u, {}, {})
  /\ signOuts' = [signOuts EXCEPT ![u] = @ + 1]

(* A change of password answers a new session, too late for a user who     *)
(* was deleted meanwhile.                                                  *)
Renew(u, s) ==
  /\ s[1] = u /\ s \notin open \cup closed
  /\ CloseAllBut(u, {s}, {}) \/ CloseAllBut(u, {}, {s})
  /\ signOuts' = [signOuts EXCEPT ![u] = @ + 1]

(* A deleted user's sessions are closed without the user signing out.      *)
Expel(u) ==
  /\ CloseAllBut(u, {}, {})
  /\ UNCHANGED signOuts

Next ==
  \/ \E s \in Users \X Versions : Open(s) \/ OpenTooLate(s)
  \/ \E u \in Users : SignOut(u) \/ Expel(u)
  \/ \E u \in Users, s \in Users \X Versions : Renew(u, s)

Spec == Init /\ [][Next]_vars
=============================================================================
