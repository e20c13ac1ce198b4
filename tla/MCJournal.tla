----------------------------- MODULE MCJournal -----------------------------
(* Journal on a small instance: documents are model values that may be     *)
(* exchanged in the runs without a temporal property.                      *)
EXTENDS Journal, TLC

DocSymmetry == Permutations(Docs)
=============================================================================
