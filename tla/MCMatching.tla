------------------------------ MODULE MCMatching ----------------------------
(* Small instances of the matching engine and of its refinement.           *)
EXTENDS MatchingRefines
=============================================================================
