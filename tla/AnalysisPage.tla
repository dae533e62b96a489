----------------------------- MODULE AnalysisPage -----------------------------
(***************************************************************************)
(* The analysis tab of the web UI (internal/webui/web/index.html) over the *)
(* handlers of internal/ui/server.go: pages start analyses, poll for the   *)
(* report while one runs, show the recommendations of the report they have *)
(* and have the checked ones applied.  Each open page talks to the server  *)
(* by requests whose answers may overtake each other, and hears of the end *)
(* of an analysis from its event stream.                                   *)
(*                                                                         *)
(* A report's body is the set of ids of its recommendations.  The LLM is   *)
(* told to use "rec_001", ... and doAnalysis fills in missing ids the same *)
(* way, so reports share ids: a recommendation is a pair <<run, id>>.      *)
(***************************************************************************)
EXTENDS AnalysisJob, Naturals, Sequences, SequencesExt

CONSTANTS
    Pages,
    Ids,           \* recommendation ids
    Applies,       \* apply requests
    MaxInFlight,   \* bound on the answers of each kind under way to a page
    Overtaking,    \* TRUE when a later answer may arrive first
    Faults         \* TRUE when an event may miss a page (full channel, reconnect)
                   \* and a request may fail

ASSUME PageAssumption ==
    /\ MaxInFlight \in Nat \ {0}
    /\ Overtaking \in BOOLEAN /\ Faults \in BOOLEAN

VARIABLES
    view,      \* the analysis tab of each page
    polling,   \* analysisPollTimer is set
    answers,   \* answers of GET /api/analysis under way
    posted,    \* answers of POST /api/analyze under way
    events,    \* analysis_complete and analysis_error events under way
    disturbed, \* history: whether an event missed the page, a request of it failed
               \* or an answer overtook another
    apply      \* POST /api/apply-recommendations

pageVars == <<view, polling, answers, posted, events, disturbed>>
vars == <<jobVars, pageVars, apply>>

\* The report rendered last, whether an error card has taken its place, the ids in
\* selectedRecs and which of the buttons Run Analysis and Apply Selected work.
View == [report : Report, card : BOOLEAN, selected : SUBSET Ids, run : BOOLEAN, apply : BOOLEAN]
\* A poll's answer is silent: its failure shows nothing.
Answer == [report : Report, silent : BOOLEAN]
Verdict == {"accepted", "conflict"}

Recommendation == Runs \X Ids
ApplyPhase == {"new", "sent", "reading", "answered", "done"}
\* The page that sent it, the ids still to apply, the recommendations applied and
\* the report the handler has read.
Apply == [phase : ApplyPhase, page : Pages, ids : SUBSET Ids, done : SUBSET Recommendation,
          read : Report]
NoReport == ReportOf(NoRun, "pending", NoBody)

TypeOK ==
    /\ JobTypeOK
    /\ view \in [Pages -> View]
    /\ polling \in [Pages -> BOOLEAN]
    /\ answers \in [Pages -> Seq(Answer)] /\ posted \in [Pages -> Seq(Verdict)]
    /\ \A p \in Pages : Len(answers[p]) <= MaxInFlight /\ Len(posted[p]) <= MaxInFlight
    /\ events \in [Pages -> SUBSET Runs]
    /\ disturbed \in [Pages -> BOOLEAN]
    /\ apply \in [Applies -> Apply]

\* renderAnalysis: what it renders starts with nothing checked, and Run Analysis
\* works unless the report is running.
Rendered(rep) == [report |-> rep, card |-> FALSE, selected |-> {},
                  run |-> rep.status # "running", apply |-> FALSE]

Init ==
    /\ JobInit
    /\ view = [p \in Pages |-> Rendered(report)]
    /\ polling = [p \in Pages |-> FALSE]
    /\ answers = [p \in Pages |-> <<>>]
    /\ posted = [p \in Pages |-> <<>>]
    /\ events = [p \in Pages |-> {}]
    /\ disturbed = [p \in Pages |-> FALSE]
    /\ apply \in [Applies -> [phase : {"new"}, page : Pages, ids : {{}}, done : {{}},
                              read : {NoReport}]]

-----------------------------------------------------------------------------
(* The analysis itself.                                                     *)
Snapshot(r) == TakeSnapshot(r) /\ UNCHANGED <<pageVars, apply>>

End(r) ==
    /\ \E s \in Status, b \in Bodies \cup {NoBody} : Outcome(s, b) /\ Finish(r, s, b)
    /\ UNCHANGED <<pageVars, apply>>

\* The event goes to the pages whose stream is up and has room.
Tell(r) ==
    /\ Announce(r)
    /\ \E heard \in SUBSET Pages :
          /\ Faults \/ heard = Pages
          /\ events' = [p \in Pages |-> IF p \in heard THEN events[p] \cup {r} ELSE events[p]]
          /\ disturbed' = [p \in Pages |-> disturbed[p] \/ p \notin heard]
    /\ UNCHANGED <<view, polling, answers, posted, apply>>

-----------------------------------------------------------------------------
(* The page shows reports.                                                  *)

\* GET /api/analysis: what GetReport returns is on its way.
Fetch(p, silent) ==
    /\ Len(answers[p]) < MaxInFlight
    /\ answers' = [answers EXCEPT ![p] = Append(@, [report |-> report, silent |-> silent])]

Render(p, rep) == view' = [view EXCEPT ![p] = Rendered(rep)]

\* renderAnalysisState: the error card takes the place of what is rendered and leaves
\* the selection and Apply Selected as they are.
ShowError(p) == view' = [view EXCEPT ![p].card = TRUE]

Arriving(q, i) == i \in 1..Len(q) /\ (Overtaking \/ i = 1)

\* Variant: rendering keeps what is checked.
ReceiveKeepingSelection(p, i) ==
    /\ Arriving(answers[p], i)
    /\ LET rep == answers[p][i].report
       IN  /\ view' = [view EXCEPT ![p] = [Rendered(rep) EXCEPT !.selected = view[p].selected]]
           /\ polling' = [polling EXCEPT ![p] = @ /\ rep.status = "running"]
    /\ answers' = [answers EXCEPT ![p] = RemoveAt(@, i)]
    /\ disturbed' = [disturbed EXCEPT ![p] = @ \/ i > 1]
    /\ UNCHANGED <<jobVars, posted, events, apply>>

\* An answer arrives; a report that is final ends the polling.
Receive(p, i) ==
    /\ Arriving(answers[p], i)
    /\ LET rep == answers[p][i].report
       IN  /\ Render(p, rep)
           /\ polling' = [polling EXCEPT ![p] = @ /\ rep.status = "running"]
    /\ answers' = [answers EXCEPT ![p] = RemoveAt(@, i)]
    /\ disturbed' = [disturbed EXCEPT ![p] = @ \/ i > 1]
    /\ UNCHANGED <<jobVars, posted, events, apply>>

\* An answer is lost: the polling ends, and the error is shown unless it was a poll.
FetchFails(p, i) ==
    /\ Faults
    /\ Arriving(answers[p], i)
    /\ IF answers[p][i].silent THEN UNCHANGED view ELSE ShowError(p)
    /\ polling' = [polling EXCEPT ![p] = FALSE]
    /\ answers' = [answers EXCEPT ![p] = RemoveAt(@, i)]
    /\ disturbed' = [disturbed EXCEPT ![p] = TRUE]
    /\ UNCHANGED <<jobVars, posted, events, apply>>

\* The timer of startAnalysisPoll.
PollTick(p) ==
    /\ polling[p]
    /\ Fetch(p, TRUE)
    /\ UNCHANGED <<jobVars, view, polling, posted, events, disturbed, apply>>

\* Opening the analysis tab loads the report, and polls nothing.
OpenTab(p) ==
    /\ Fetch(p, FALSE)
    /\ UNCHANGED <<jobVars, view, polling, posted, events, disturbed, apply>>

\* Variant: the event only ends the polling.
HearEndOnly(p, r) ==
    /\ r \in events[p]
    /\ events' = [events EXCEPT ![p] = @ \ {r}]
    /\ polling' = [polling EXCEPT ![p] = FALSE]
    /\ UNCHANGED <<jobVars, view, answers, posted, disturbed, apply>>

\* The event ends the polling and loads the report.
HearEnd(p, r) ==
    /\ r \in events[p]
    /\ events' = [events EXCEPT ![p] = @ \ {r}]
    /\ polling' = [polling EXCEPT ![p] = FALSE]
    /\ Fetch(p, FALSE)
    /\ UNCHANGED <<jobVars, view, posted, disturbed, apply>>

-----------------------------------------------------------------------------
(* The user starts analyses.                                                *)

\* Runs are interchangeable, so that it does not matter which is started next.
FreshRuns == {r \in Runs : job[r] = "new"}
NextRun == CHOOSE r \in FreshRuns : TRUE

\* Try Again is on the error card and on a report that is an error.
CanTrigger(p) == view[p].run \/ view[p].card \/ view[p].report.status = "error"

\* Run Analysis or Try Again.  Rendering any answer makes Run Analysis work again,
\* so that another such request may be under way.  handleRunAnalysis accepts or
\* refuses (409).
Trigger(p) ==
    /\ CanTrigger(p)
    /\ Len(posted[p]) < MaxInFlight
    /\ view' = [view EXCEPT ![p].run = FALSE]
    /\ \/ FreshRuns # {} /\ RunAnalysis(NextRun)
          /\ posted' = [posted EXCEPT ![p] = Append(@, "accepted")]
       \/ report.status = "running" /\ UNCHANGED jobVars
          /\ posted' = [posted EXCEPT ![p] = Append(@, "conflict")]
    /\ UNCHANGED <<polling, answers, events, disturbed, apply>>

\* The answer of the POST: show it running and poll, or load the report once.
TriggerAnswered(p, i) ==
    /\ Arriving(posted[p], i)
    /\ posted' = [posted EXCEPT ![p] = RemoveAt(@, i)]
    /\ \/ /\ posted[p][i] = "accepted"
          /\ Render(p, ReportOf(NoRun, "running", NoBody))
          /\ polling' = [polling EXCEPT ![p] = TRUE]
          /\ UNCHANGED answers
       \/ /\ posted[p][i] = "conflict"
          /\ Fetch(p, FALSE)
          /\ UNCHANGED <<view, polling>>
    /\ UNCHANGED <<jobVars, events, disturbed, apply>>

\* It is lost: Run Analysis works again, and the error is shown.
TriggerFails(p, i) ==
    /\ Faults
    /\ Arriving(posted[p], i)
    /\ posted' = [posted EXCEPT ![p] = RemoveAt(@, i)]
    /\ view' = [view EXCEPT ![p].run = TRUE, ![p].card = TRUE]
    /\ disturbed' = [disturbed EXCEPT ![p] = TRUE]
    /\ UNCHANGED <<jobVars, polling, answers, events, apply>>

-----------------------------------------------------------------------------
(* The user checks and unchecks recommendations and has them applied.       *)

\* updateApplyBtn
Select(v, ids) == [v EXCEPT !.selected = ids, !.apply = ids # {}]

Check(p, id) ==
    LET v == view[p]
    IN  /\ v.report.status = "complete" /\ ~v.card /\ id \in v.report.body
        /\ view' = [view EXCEPT ![p] = Select(v, IF id \in v.selected THEN v.selected \ {id}
                                                 ELSE v.selected \cup {id})]
        /\ UNCHANGED <<jobVars, polling, answers, posted, events, disturbed, apply>>

\* The request carries the ids only.  It turns Apply Selected off, which the next
\* checkbox turns on again.
SendApply(p, a) ==
    /\ apply[a].phase = "new" /\ apply[a].page = p
    /\ view[p].apply /\ view[p].selected # {}
    /\ view' = [view EXCEPT ![p].apply = FALSE]
    /\ apply' = [apply EXCEPT ![a].phase = "sent", ![a].ids = view[p].selected]
    /\ UNCHANGED <<jobVars, polling, answers, posted, events, disturbed>>

\* handleApplyRecommendations reads the report once ...
ReadReport(a) ==
    /\ apply[a].phase = "sent"
    /\ apply' = [apply EXCEPT ![a].phase = "reading", ![a].read = report]
    /\ UNCHANGED <<jobVars, pageVars>>

Drop(a, id) == [apply EXCEPT ![a].ids = @ \ {id}]

\* Variant: each id is looked up in the report of the moment.
ApplyNextLookingUp(a, id) ==
    /\ apply[a].phase = "reading" /\ id \in apply[a].ids
    /\ apply' = IF report.status = "complete" /\ id \in report.body
                THEN [Drop(a, id) EXCEPT ![a].done = @ \cup {<<report.run, id>>}]
                ELSE Drop(a, id)
    /\ UNCHANGED <<jobVars, pageVars>>

\* ... and applies the ids it finds in it, one UpdateToolDescription at a time;
\* an id it does not find is an error of the answer.  So is a tool that is not
\* in the cache any more.
ApplyNext(a, id) ==
    LET rep == apply[a].read
    IN  /\ apply[a].phase = "reading" /\ id \in apply[a].ids
        /\ \/ /\ rep.status = "complete" /\ id \in rep.body
              /\ apply' = [Drop(a, id) EXCEPT ![a].done = @ \cup {<<rep.run, id>>}]
           \/ apply' = Drop(a, id)
        /\ UNCHANGED <<jobVars, pageVars>>

ApplyEnds(a) ==
    /\ apply[a].phase = "reading" /\ apply[a].ids = {}
    /\ apply' = [apply EXCEPT ![a].phase = "answered"]
    /\ UNCHANGED <<jobVars, pageVars>>

\* The page takes what was applied from the selection, unless the answer is lost.
ApplyAnswered(a) ==
    LET p == apply[a].page
        applied == {rec[2] : rec \in apply[a].done}
    IN  /\ apply[a].phase = "answered"
        /\ \E ids \in {view[p].selected \ applied} \cup (IF Faults THEN {view[p].selected} ELSE {}) :
              view' = [view EXCEPT ![p] = Select(@, ids)]
        /\ apply' = [apply EXCEPT ![a].phase = "done"]
        /\ UNCHANGED <<jobVars, polling, answers, posted, events, disturbed>>

-----------------------------------------------------------------------------
Next ==
    \/ \E r \in Runs : Snapshot(r) \/ End(r) \/ Tell(r)
    \/ \E p \in Pages :
         \/ PollTick(p) \/ OpenTab(p) \/ Trigger(p)
         \/ \E i \in 1..MaxInFlight :
              Receive(p, i) \/ FetchFails(p, i) \/ TriggerAnswered(p, i) \/ TriggerFails(p, i)
         \/ \E r \in Runs : HearEnd(p, r)
         \/ \E id \in Ids : Check(p, id)
         \/ \E a \in Applies : SendApply(p, a)
    \/ \E a \in Applies :
         \/ ReadReport(a) \/ ApplyEnds(a) \/ ApplyAnswered(a)
         \/ \E id \in Ids : ApplyNext(a, id)

Spec == Init /\ [][Next]_vars

\* The analysis ends within its 120 s; requests are answered, timers fire and
\* events that are under way arrive.  No user has to do anything.
Fairness ==
    /\ \A r \in Runs : WF_vars(Snapshot(r) \/ End(r) \/ Tell(r))
    /\ \A p \in Pages :
          /\ WF_vars(PollTick(p))
          /\ WF_vars(\E i \in 1..MaxInFlight : Receive(p, i))
          /\ WF_vars(\E i \in 1..MaxInFlight : TriggerAnswered(p, i))
          /\ WF_vars(\E r \in Runs : HearEnd(p, r))

FairSpec == Spec /\ Fairness

-----------------------------------------------------------------------------
\* Apply Selected never sends an id of an older report than the one rendered last,
\* whichever answers came before.  That report need not be on the screen: an error
\* card that takes its place leaves the selection as it is.
SelectionShown ==
    \A p \in Pages : view[p].selected # {} =>
        view[p].report.status = "complete" /\ view[p].selected \subseteq view[p].report.body

\* What one request applies comes from a single report, whatever analyses end
\* while it runs.
OneReportPerRequest ==
    \A a \in Applies : \A rec, other \in apply[a].done : rec[1] = other[1]

\* A page that shows a running analysis shows its outcome in the end, unless an
\* event missed it, a request of it failed or an answer overtook another.
PageCatchesUp ==
    \A p \in Pages :
        view[p].report.status = "running" ~> view[p].report.status # "running" \/ disturbed[p]
===============================================================================
