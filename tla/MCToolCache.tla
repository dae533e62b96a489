----------------------------- MODULE MCToolCache -----------------------------
(* Instances of ToolCache for TLC.  Names are sequences of tokens, so that   *)
(* joining a key and a tool name can collide as it can for strings:          *)
(* "a" + "__" + "b__c" is "a__b" + "__" + "c".                               *)
EXTENDS ToolCache, TLC

CONSTANTS c1, c2, c3, u1, u2, d1, d2

a == <<"a">>
ab == <<"a", "__", "b">>
c == <<"c">>
bc == <<"b", "__", "c">>

OneServer == {a}
CollidingServers == {a, ab}
OneTool == {c}
TwoTools == {c, bc}

OffersOneTool == [s \in OneServer |-> OneTool]
OffersTwoTools == [s \in OneServer |-> TwoTools]
OffersColliding == (a :> {bc}) @@ (ab :> {c})
=============================================================================
