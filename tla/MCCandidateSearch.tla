------------------------- MODULE MCCandidateSearch -------------------------
(* The search checks with at most one fault: the box of the gender before is  *)
(* out of sight when it is to be unchecked.                                  *)
EXTENDS CandidateSearch

MCPool == [Male |-> 3, Female |-> 2, Others |-> 1]
=============================================================================
