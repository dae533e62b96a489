----------------------------- MODULE PoolPromise -----------------------------
(* What ConnectAll promises its caller (upstream_pool.go:50-51): it decides  *)
(* every registered server once, and only then answers, with an error        *)
(* exactly when no server connected.                                         *)
CONSTANT Servers
VARIABLES outcome, verdict

Outcome == {"connecting", "connected", "failed"}
Verdict == {"none", "ok", "error"}

Init ==
    /\ outcome = [s \in Servers |-> "connecting"]
    /\ verdict = "none"

Decide(s) ==
    /\ verdict = "none"
    /\ outcome[s] = "connecting"
    /\ \E o \in {"connected", "failed"} : outcome' = [outcome EXCEPT ![s] = o]
    /\ UNCHANGED verdict

Answer ==
    /\ verdict = "none"
    /\ \A s \in Servers : outcome[s] # "connecting"
    /\ \/ (\E s \in Servers : outcome[s] = "connected") /\ verdict' = "ok"
       \/ (\A s \in Servers : outcome[s] = "failed") /\ verdict' = "error"
    /\ UNCHANGED outcome

Next == Answer \/ \E s \in Servers : Decide(s)

Spec == Init /\ [][Next]_<<outcome, verdict>>
=============================================================================
