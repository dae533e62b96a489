------------------------------ MODULE Analyzer ------------------------------
(***************************************************************************)
(* What an analysis is made from (internal/analysis/analyzer.go): tool     *)
(* calls log a request and then an outcome (CreateProxyHandler), discovery *)
(* logs the tool catalog, a bounded channel brings the entries to the      *)
(* analyzer's goroutine unless it is full (LogBus), and handleEntry counts *)
(* them while analyses run.                                                *)
(***************************************************************************)
EXTENDS AnalysisJob, Naturals, Sequences, SequencesExt

CONSTANTS
    Callers,        \* concurrent tool calls
    Tools,          \* exposed tool names
    NoTool,         \* of a caller that is not calling
    Cap,            \* capacity of the analyzer's channel (100 in the code)
    MaxCalls,       \* bound on the calls of each caller
    MaxDiscoveries  \* bound on the tool_catalog events

ASSUME AnalyzerAssumption ==
    /\ NoTool \notin Tools
    /\ Cap \in Nat \ {0} /\ MaxCalls \in Nat /\ MaxDiscoveries \in Nat

VARIABLES
    calling,     \* the tool each caller waits for, or NoTool
    made,        \* calls each caller has made
    discovered,  \* tool_catalog events logged
    queue,       \* the analyzer's channel
    lost,        \* history: whether an entry was dropped
    stats,       \* a.toolStats: CallCount and ErrorCount
    catalog,     \* a.toolCatalog: empty or from disk; never a live one
    snap         \* what each analysis copied

dataVars == <<calling, made, discovered, queue, lost, stats, catalog>>
vars == <<jobVars, dataVars, snap>>

Stat == [calls : Nat, errors : Nat]
Zero == [calls |-> 0, errors |-> 0]
Event == [type : {"request", "response", "failure"}, tool : Tools] \cup [type : {"catalog", "end"}]

TypeOK ==
    /\ JobTypeOK
    /\ calling \in [Callers -> Tools \cup {NoTool}]
    /\ made \in [Callers -> 0..MaxCalls]
    /\ discovered \in 0..MaxDiscoveries
    /\ queue \in Seq(Event) /\ Len(queue) <= Cap
    /\ lost \in BOOLEAN
    /\ stats \in [Tools -> Stat]
    /\ catalog \in {"none", "persisted"}
    /\ snap \in [Runs -> [catalog : {"none", "persisted"}, stats : [Tools -> Stat]]]

NoSnap == [catalog |-> "none", stats |-> [t \in Tools |-> Zero]]

\* loadPersistedCatalog injects the saved catalog, if the process found one,
\* before anything else happens.
Init ==
    /\ JobInit
    /\ calling = [c \in Callers |-> NoTool]
    /\ made = [c \in Callers |-> 0]
    /\ discovered = 0
    /\ queue = <<>>
    /\ lost = FALSE
    /\ stats = [t \in Tools |-> Zero]
    /\ catalog \in {"none", "persisted"}
    /\ snap = [r \in Runs |-> NoSnap]

-----------------------------------------------------------------------------
(* The log entries.                                                         *)

\* A full channel drops the entry.
Log(e) ==
    \/ Len(queue) < Cap /\ queue' = Append(queue, e) /\ UNCHANGED lost
    \/ Len(queue) = Cap /\ lost' = TRUE /\ UNCHANGED queue

\* CreateProxyHandler logs the request before it calls upstream ...
Call(c, t) ==
    /\ calling[c] = NoTool
    /\ made[c] < MaxCalls
    /\ made' = [made EXCEPT ![c] = @ + 1]
    /\ calling' = [calling EXCEPT ![c] = t]
    /\ Log([type |-> "request", tool |-> t])
    /\ UNCHANGED <<jobVars, discovered, stats, catalog, snap>>

\* ... and the response, or an error, a cancellation or a timeout, after it.
Return(c) ==
    /\ calling[c] # NoTool
    /\ calling' = [calling EXCEPT ![c] = NoTool]
    /\ \E type \in {"response", "failure"} : Log([type |-> type, tool |-> calling[c]])
    /\ UNCHANGED <<jobVars, made, discovered, stats, catalog, snap>>

\* DiscoverAllTools logs the catalog as a []map[string]interface{}.
LogCatalog ==
    /\ discovered < MaxDiscoveries
    /\ discovered' = discovered + 1
    /\ Log([type |-> "catalog"])
    /\ UNCHANGED <<jobVars, calling, made, stats, catalog, snap>>

-----------------------------------------------------------------------------
(* handleEntry.                                                             *)
Count(t, field) == stats' = [stats EXCEPT ![t][field] = @ + 1]

Handled(e) ==
    \/ e.type = "request" /\ Count(e.tool, "calls") /\ UNCHANGED catalog
    \/ e.type = "failure" /\ Count(e.tool, "errors") /\ UNCHANGED catalog
    \* A catalog is not taken: the assertion to []interface{} does not hold for the
    \* slice type that discovery logs.
    \/ e.type \in {"response", "end", "catalog"} /\ UNCHANGED <<stats, catalog>>

\* Variant: the newest entry first.
HandleNewest ==
    /\ queue # <<>>
    /\ queue' = Front(queue)
    /\ Handled(Last(queue))
    /\ UNCHANGED <<jobVars, calling, made, discovered, lost, snap>>

HandleEntry ==
    /\ queue # <<>>
    /\ queue' = Tail(queue)
    /\ Handled(Head(queue))
    /\ UNCHANGED <<jobVars, calling, made, discovered, lost, snap>>

-----------------------------------------------------------------------------
(* An analysis.                                                             *)
Start(r) == RunAnalysis(r) /\ UNCHANGED <<dataVars, snap>>

Snapshot(r) ==
    /\ TakeSnapshot(r)
    /\ snap' = [snap EXCEPT ![r] = [catalog |-> catalog, stats |-> stats]]
    /\ UNCHANGED dataVars

\* Without catalog there is nothing to ask; otherwise the LLM answers or fails.
End(r) ==
    /\ \/ snap[r].catalog = "none" /\ Finish(r, "insufficient_data", NoBody)
       \/ snap[r].catalog # "none" /\ \/ Finish(r, "complete", snap[r].stats)
                                      \/ Finish(r, "error", NoBody)
    /\ UNCHANGED <<dataVars, snap>>

\* The entry about its end comes back to the analyzer, which ignores it.
Tell(r) ==
    /\ Announce(r)
    /\ Log([type |-> "end"])
    /\ UNCHANGED <<calling, made, discovered, stats, catalog, snap>>

Next ==
    \/ \E c \in Callers : Return(c) \/ \E t \in Tools : Call(c, t)
    \/ LogCatalog \/ HandleEntry
    \/ \E r \in Runs : Start(r) \/ Snapshot(r) \/ End(r) \/ Tell(r)

Spec == Init /\ [][Next]_vars

\* The analysis's goroutine runs on, the LLM call within its 120 s.
Fairness == \A r \in Runs : WF_vars(Snapshot(r) \/ End(r) \/ Tell(r))

FairSpec == Spec /\ Fairness

-----------------------------------------------------------------------------
\* Unless an entry was dropped, no tool shows more errors than calls, neither
\* in the statistics nor in a report: every outcome comes after its request.
ErrorsWithinCalls ==
    ~lost => /\ \A t \in Tools : stats[t].errors <= stats[t].calls
             /\ \A t \in Tools : report.status = "complete" => report.body[t].errors <= report.body[t].calls

\* A complete report never shows fewer calls of a tool than a complete report
\* of an earlier analysis did.
CountsGrow ==
    [][report'.status = "complete" /\ report # report' =>
         \A q \in Runs : job[q] = "done" => \A t \in Tools : snap[q].stats[t].calls <= report'.body[t].calls]_vars
=============================================================================
