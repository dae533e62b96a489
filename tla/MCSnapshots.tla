------------------------------ MODULE MCSnapshots ------------------------------
(* Snapshots with two names that sanitizeSnapshotName maps to one.             *)
EXTENDS Snapshots, TLC

CONSTANTS q1, q2

OneRun == {1}
OneBody == {"complete"}
NoBodies == "none"
OneSafe == [n \in Names |-> "a_b"]

RequestSymmetry == Permutations(Requests)
===============================================================================
