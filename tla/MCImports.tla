----------------------------- MODULE MCImports -----------------------------
(* Instances of ImportJobs for TLC.                                        *)
EXTENDS ImportJobs

CONSTANTS k1, k2

(* A file of two students, one with a student twice, one with an error.    *)
MCFiles ==
  {[rows |-> <<k1, k2>>, bad |-> FALSE], [rows |-> <<k2, k2>>, bad |-> FALSE],
   [rows |-> <<k1>>, bad |-> TRUE]}
=============================================================================
