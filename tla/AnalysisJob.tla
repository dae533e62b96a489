----------------------------- MODULE AnalysisJob -----------------------------
(***************************************************************************)
(* The life of an analysis in internal/analysis/analyzer.go: RunAnalysis   *)
(* accepts a request unless the report says that one is running, a         *)
(* goroutine of its own snapshots the data, asks the LLM, stores the new   *)
(* report and logs its end.  Analyzer, AnalysisPage and Snapshots say what *)
(* it reads and who reads its reports; without API key none ever starts.   *)
(***************************************************************************)
CONSTANTS
    Runs,      \* the analyses started, one goroutine each
    NoRun,     \* the run of the initial report
    Bodies,    \* what a complete report may carry
    NoBody     \* what any other report carries: zero counts, no recommendations

ASSUME JobAssumption == NoRun \notin Runs

VARIABLES
    report,    \* a.report; an object that is replaced, never changed
    job        \* where the goroutine of each analysis is

jobVars == <<report, job>>

Status == {"pending", "running", "complete", "insufficient_data", "error"}
Report == [run : Runs \cup {NoRun}, status : Status, body : Bodies \cup {NoBody}]
ReportOf(r, s, b) == [run |-> r, status |-> s, body |-> b]

Phase == {"new", "started", "asking", "stored", "done"}
Active(r) == job[r] \in {"started", "asking"}

JobTypeOK ==
    /\ report \in Report
    /\ job \in [Runs -> Phase]

JobInit ==
    /\ report = ReportOf(NoRun, "pending", NoBody)
    /\ job = [r \in Runs |-> "new"]

Goto(r, phase) == job' = [job EXCEPT ![r] = phase]

\* Variant: the status is not looked at.
RunAnalysisUnguarded(r) ==
    /\ job[r] = "new"
    /\ report' = ReportOf(r, "running", NoBody)
    /\ Goto(r, "started")

\* RunAnalysis of a request that is accepted: one critical section.
RunAnalysis(r) ==
    /\ job[r] = "new"
    /\ report.status # "running"
    /\ report' = ReportOf(r, "running", NoBody)
    /\ Goto(r, "started")

\* doAnalysis: catalog and statistics are copied under RLock.
TakeSnapshot(r) ==
    /\ job[r] = "started"
    /\ Goto(r, "asking")
    /\ UNCHANGED report

\* Variant: an analysis that fails leaves the report as it is.
FinishSilently(r, s, b) ==
    /\ job[r] = "asking"
    /\ report' = IF s = "error" THEN report ELSE ReportOf(r, s, b)
    /\ Goto(r, "stored")

\* The LLM answered, failed or ran into its 120 s, or there was nothing to ask:
\* the new report replaces the old one.
Finish(r, s, b) ==
    /\ job[r] = "asking"
    /\ report' = ReportOf(r, s, b)
    /\ Goto(r, "stored")

\* analysis_complete or analysis_error is logged after the report is stored.
Announce(r) ==
    /\ job[r] = "stored"
    /\ Goto(r, "done")
    /\ UNCHANGED report

Outcome(s, b) ==
    \/ s \in {"insufficient_data", "error"} /\ b = NoBody
    \/ s = "complete" /\ b \in Bodies

JobNext ==
    \E r \in Runs :
        \/ RunAnalysis(r) \/ TakeSnapshot(r) \/ Announce(r)
        \/ \E s \in Status, b \in Bodies \cup {NoBody} : Outcome(s, b) /\ Finish(r, s, b)

JobSpec == JobInit /\ [][JobNext]_jobVars

-----------------------------------------------------------------------------
\* The report says "running" exactly while an analysis runs, and then it is the
\* report of that one: no other can start or overwrite it (lines 184-194).
OneAnalysis ==
    /\ \A r \in Runs : Active(r) <=> (report.status = "running" /\ report.run = r)
    /\ \A r, q \in Runs : Active(r) /\ Active(q) => r = q

\* The analyses that ended did so with the report of their own run, and a report
\* that is not pending names an analysis that has been started.
ReportInv ==
    /\ report.status = "pending" <=> report.run = NoRun
    /\ \A r \in Runs : report.run = r => job[r] # "new"

JobInv == JobTypeOK /\ OneAnalysis /\ ReportInv

\* A report that was shown as final is replaced only by the start of a newer
\* analysis: the answer of an older one never comes back.
NoOldAnswer ==
    [][report' # report /\ report.status # "running"
         => job[report'.run] = "new" /\ report'.status = "running"]_jobVars

\* Every analysis that was accepted ends, and with a report that says so.
AnalysisEnds == \A r \in Runs : (report.run = r /\ report.status = "running") ~> report.status # "running"
=============================================================================
