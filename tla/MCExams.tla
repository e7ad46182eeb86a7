------------------------------ MODULE MCExams ------------------------------
(* Instances of ExamViews for TLC: papers of one mark each, or of a        *)
(* hundred where the grade matters.                                        *)
EXTENDS ExamViews, TLC

CONSTANTS amy, bob, p1, p2, s1, s2

MCSubjectOf == [p \in Papers |-> p]

MCScores == {0, 1}

MCZero == {0}

MCTerms == {[total |-> 1, pass |-> 1, teacher |-> bob]}

(* Two sets of terms, of a paper of one mark and one edited down to none.  *)
MCTwoTerms == {[total |-> n, pass |-> n, teacher |-> amy] : n \in {0, 1}}

(* The default boundaries, and a list of one.                              *)
MCTables == {<<>>, <<Boundary("P", 50, 100)>>}

MCDefault == {<<>>}

MCHundred == {45}

MCHundredTerms == {[total |-> 100, pass |-> 50, teacher |-> amy]}

(* Half a per cent above the A and below the A+.                           *)
MCGap == {179}

MCGapTerms == {[total |-> 200, pass |-> 70, teacher |-> amy]}

(* Papers are all of different subjects, so any two may be exchanged.      *)
MCSymmetry == Permutations(Papers) \cup Permutations(Students)
=============================================================================
