---------------------------- MODULE MCPromotions ----------------------------
(***************************************************************************)
(* Instances of Promotions for TLC: a class with a peer in the other       *)
(* session, in its batch and in another one, and a class without.          *)
(***************************************************************************)
EXTENDS Promotions

MCClasses == {"8A-old", "8A-new", "8A-other", "9A-old"}

MCSessionOf == [c \in MCClasses |-> IF c \in {"8A-new", "8A-other"} THEN "new" ELSE "old"]

MCBatchOf == [c \in MCClasses |-> IF c = "8A-other" THEN "b2" ELSE "b1"]

MCShapeOf == [c \in MCClasses |-> IF c = "9A-old" THEN "9A" ELSE "8A"]

(* A leaver, a change of class, and a new name.                            *)
MCEdits == {<<Nowhere, "DroppedOff">>, <<"9A-old", "kept">>, <<Nowhere, "kept">>}
MCNewName == {<<Nowhere, "kept">>}

MCMoves == {<<"8A-old", Nowhere>>, <<"9A-old", "8A-old">>}
MCGraduation == {<<"8A-old", Nowhere>>}

(* The students are enrolled in the session that comes first.              *)
MCInit == Init /\ \A s \in Students : SessionOf[seat[s].class] = "old"

MCSpec == MCInit /\ [][Next]_vars
=============================================================================
