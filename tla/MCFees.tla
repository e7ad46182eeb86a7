------------------------------- MODULE MCFees -------------------------------
(***************************************************************************)
(* Instances of FeeLedger for TLC.                                         *)
(***************************************************************************)
EXTENDS FeeViews

CONSTANTS s1, s2, c1, c2, c3

MCOneByOne == {<<s1>>}                   \* one student
MCLists == {<<s1, s2>>, <<s2, s2>>}      \* a class, and a list that names a student twice
=============================================================================
