------------------------------ MODULE MCLogView ------------------------------
(* LogView with a snapshot longer than the log and an empty one.              *)
EXTENDS LogView

LongAndEmpty == [s \in Snaps |-> IF s = 1 THEN MAX + 1 ELSE 0]

\* What Keep keeps is what SelectSeq selects, repeated elements included.
ASSUME KeepSelects ==
    \A s \in SeqOf(1..3, 4), T \in SUBSET (1..3) :
        Keep(s, T) = SelectSeq(s, LAMBDA e : e \in T)
==============================================================================
