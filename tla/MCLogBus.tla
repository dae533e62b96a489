------------------------------- MODULE MCLogBus -------------------------------
(* LogBus with a channel of two entries, so that it fills.                  *)
EXTENDS LogBus, TLC

CONSTANTS g1, g2, s1, s2
=============================================================================
