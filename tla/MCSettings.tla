------------------------------ MODULE MCSettings ------------------------------
(* Settings with two pages, two models and one API key.                       *)
EXTENDS Settings, TLC

CONSTANTS p1, p2, l1, m1, m2, k1

PageSymmetry == Permutations(Pages)
===============================================================================
