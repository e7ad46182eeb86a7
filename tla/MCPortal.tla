------------------------------ MODULE MCPortal ------------------------------
(***************************************************************************)
(* Instances of Portal for TLC: all pages of the router and every query of *)
(* theirs, one after the other, and a user for each role, one with two.  A *)
(* user whom no page lets near the query that is followed stays away,      *)
(* nobody signs in while the answer of a switch or change of password of   *)
(* the session before is awaited, and at most MaxAwaited answers are       *)
(* awaited at a time.                                                      *)
(***************************************************************************)
EXTENDS Portal, FiniteSets, TLC

MaxAwaited == 2

OneOfEach == [ann |-> <<"Admin", "Teacher">>, sam |-> <<"Student">>, gus |-> <<"Guardian">>]

Concerned == [k \in DOMAIN QueryFor |->
  {u \in DOMAIN RolesOf : \E path \in RelevantTo[k] : \E r \in Range(RolesOf[u]) :
     QueryFor[k] \in PageAt[path].reads[r] /\ r \in PageAt[path].roles}]

MCNext ==
  /\ TabNext
  /\ session' # None => session'.user \in Concerned[watched]
  /\ \A q \in auth' : q.own
  /\ Cardinality(auth') + Cardinality({fetch', change'} \ {None}) <= MaxAwaited

MCSpec == TabInit /\ [][MCNext]_tabVars
=============================================================================
