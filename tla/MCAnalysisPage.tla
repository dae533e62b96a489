---------------------------- MODULE MCAnalysisPage ----------------------------
(* AnalysisPage with one page and reports that share their ids.               *)
EXTENDS AnalysisPage, TLC

CONSTANTS p1, r1, r2, rec1, rec2, a1, a2

AllIds == {Ids}
NoIds == {}

\* Neither ids nor apply requests are told apart; runs are, by NextRun.
PageSymmetry == Permutations(Ids) \cup Permutations(Applies)
===============================================================================
