------------------------------ MODULE MCAnalyzer ------------------------------
(* Analyzer with few calls and a channel of two entries, so that it fills.    *)
EXTENDS Analyzer, TLC

CONSTANTS c1, c2, t1, t2, r1, r2

\* A complete report carries the counts of its snapshot.
Counts == [calls : 0..Cardinality(Callers) * MaxCalls, errors : 0..Cardinality(Callers) * MaxCalls]
StatBodies == [Tools -> Counts]
NoCounts == [t \in Tools |-> Zero]
===============================================================================
