-------------------------- MODULE AnalysisPageProofs --------------------------
(* Theorems about AnalysisPage, for any pages, analyses and recommendations,   *)
(* whatever answers overtake each other and whatever events and requests fail. *)
EXTENDS AnalysisPage, AnalysisJobProofs, SequenceTheorems

\* The steps of the analyses, of what a page shows, and of an apply request.
JobSteps == \E r \in Runs : Snapshot(r) \/ End(r) \/ Tell(r)
PageSteps(p) ==
    \/ PollTick(p) \/ OpenTab(p) \/ Trigger(p)
    \/ \E i \in 1..MaxInFlight :
         Receive(p, i) \/ FetchFails(p, i) \/ TriggerAnswered(p, i) \/ TriggerFails(p, i)
    \/ \E r \in Runs : HearEnd(p, r)
    \/ \E id \in Ids : Check(p, id)
ApplySteps(a) ==
    \/ ReadReport(a) \/ ApplyEnds(a) \/ ApplyAnswered(a)
    \/ \E p \in Pages : SendApply(p, a)
    \/ \E id \in Ids : ApplyNext(a, id)

LEMMA StepsSplit ==
    Next <=> JobSteps \/ (\E p \in Pages : PageSteps(p)) \/ \E a \in Applies : ApplySteps(a)
BY DEF Next, JobSteps, PageSteps, ApplySteps

\* What a step does to the analyses is a step of AnalysisJob.
LEMMA StepsJob == Next => [JobNext]_jobVars
<1> SUFFICES ASSUME Next PROVE [JobNext]_jobVars
  OBVIOUS
<1>1. ASSUME NEW r \in Runs, Snapshot(r) \/ End(r) \/ Tell(r) PROVE JobNext
  BY <1>1 DEF Snapshot, End, Tell, JobNext
<1>2. ASSUME NEW p \in Pages, Trigger(p) PROVE [JobNext]_jobVars
  <2>1. CASE FreshRuns # {} /\ RunAnalysis(NextRun)
    <3>1. NextRun \in Runs
      BY <2>1 DEF FreshRuns, NextRun
    <3>2. QED
      BY <2>1, <3>1 DEF JobNext
  <2>2. QED
    BY <1>2, <2>1 DEF Trigger
<1>3. ASSUME NEW p \in Pages, PageSteps(p), ~Trigger(p) PROVE UNCHANGED jobVars
  BY <1>3 DEF PageSteps, PollTick, OpenTab, Receive, FetchFails, TriggerAnswered, TriggerFails,
              HearEnd, Check
<1>4. ASSUME NEW a \in Applies, ApplySteps(a) PROVE UNCHANGED jobVars
  BY <1>4 DEF ApplySteps, SendApply, ReadReport, ApplyEnds, ApplyAnswered, ApplyNext
<1>5. QED
  BY <1>1, <1>2, <1>3, <1>4, StepsSplit DEF JobSteps

\* Whatever the pages and the handlers do, analyses live as AnalysisJob says: what
\* AnalysisJob promises of reports holds here.
THEOREM ImplementsJob == Spec => JobSpec
<1>1. Init => JobInit
  BY DEF Init
<1>2. [Next]_vars => [JobNext]_jobVars
  BY StepsJob DEF vars, jobVars
<1>3. QED
  BY <1>1, <1>2, PTL DEF Spec, JobSpec

-----------------------------------------------------------------------------
(* The apply requests.                                                       *)

\* An analysis that has stored its report.
Ran(r) == r \in Runs /\ job[r] \in {"stored", "done"}

\* A request has read the report of an analysis that ran, if a complete one, and has
\* applied recommendations of that report only.
ReadInv ==
    \A a \in Applies :
        /\ apply[a].read.status = "complete" => Ran(apply[a].read.run)
        /\ apply[a].phase \in {"new", "sent"} => apply[a].done = {}
        /\ \A rec \in apply[a].done :
              /\ apply[a].read.status = "complete"
              /\ rec[1] = apply[a].read.run /\ rec[2] \in apply[a].read.body

\* What a step of a request does to it.
Progress(a) ==
    \/ /\ apply[a].phase \in {"new", "reading", "answered"}
       /\ apply'[a].phase \in {"sent", "answered", "done"}
       /\ apply'[a].phase = "sent" => apply[a].phase = "new"
       /\ apply'[a].done = apply[a].done /\ apply'[a].read = apply[a].read
    \/ /\ apply[a].phase = "sent" /\ apply'[a].phase = "reading"
       /\ apply'[a].done = apply[a].done /\ apply'[a].read = report
    \/ /\ apply[a].phase = "reading" /\ apply'[a].phase = "reading"
       /\ apply'[a].read = apply[a].read
       /\ \/ apply'[a].done = apply[a].done
          \/ \E id \in apply[a].read.body :
               /\ apply[a].read.status = "complete"
               /\ apply'[a].done = apply[a].done \cup {<<apply[a].read.run, id>>}

LEMMA ApplyProgress ==
    ASSUME TypeOK, NEW a \in Applies, ApplySteps(a)
    PROVE  Progress(a) /\ \A b \in Applies \ {a} : apply'[b] = apply[b]
<1>1. apply \in [Applies -> Apply] /\ apply[a] \in Apply
  BY DEF TypeOK
<1>2. ASSUME NEW p \in Pages, SendApply(p, a)
      PROVE  Progress(a) /\ \A b \in Applies \ {a} : apply'[b] = apply[b]
  BY <1>1, <1>2 DEF SendApply, Apply, Progress
<1>3. ASSUME ReadReport(a)
      PROVE  Progress(a) /\ \A b \in Applies \ {a} : apply'[b] = apply[b]
  BY <1>1, <1>3 DEF ReadReport, Apply, Progress
<1>4. ASSUME ApplyEnds(a)
      PROVE  Progress(a) /\ \A b \in Applies \ {a} : apply'[b] = apply[b]
  BY <1>1, <1>4 DEF ApplyEnds, Apply, Progress
<1>5. ASSUME ApplyAnswered(a)
      PROVE  Progress(a) /\ \A b \in Applies \ {a} : apply'[b] = apply[b]
  BY <1>1, <1>5 DEF ApplyAnswered, Apply, Progress
<1>6. ASSUME NEW id \in Ids, ApplyNext(a, id)
      PROVE  Progress(a) /\ \A b \in Applies \ {a} : apply'[b] = apply[b]
  <2>1. /\ Drop(a, id)[a].phase = apply[a].phase /\ Drop(a, id)[a].read = apply[a].read
        /\ Drop(a, id)[a].done = apply[a].done /\ Drop(a, id)[a] \in Apply
        /\ \A b \in Applies \ {a} : Drop(a, id)[b] = apply[b]
        /\ Drop(a, id) \in [Applies -> Apply]
    BY <1>1 DEF Drop, Apply
  <2>2. apply[a].phase = "reading"
    BY <1>6 DEF ApplyNext
  <2>3. CASE apply' = Drop(a, id)
    BY <2>1, <2>2, <2>3 DEF Progress
  <2>4. CASE /\ apply[a].read.status = "complete" /\ id \in apply[a].read.body
             /\ apply' = [Drop(a, id) EXCEPT ![a].done = @ \cup {<<apply[a].read.run, id>>}]
    <3>1. /\ apply'[a].phase = "reading" /\ apply'[a].read = apply[a].read
          /\ apply'[a].done = apply[a].done \cup {<<apply[a].read.run, id>>}
          /\ \A b \in Applies \ {a} : apply'[b] = apply[b]
      BY <2>1, <2>2, <2>4 DEF Apply
    <3>2. QED
      BY <2>2, <2>4, <3>1 DEF Progress
  <2>5. QED
    BY <1>6, <2>3, <2>4 DEF ApplyNext
<1>7. QED
  BY <1>2, <1>3, <1>4, <1>5, <1>6 DEF ApplySteps

\* A complete report is that of an analysis that ran, and stays so.
LEMMA CompleteRan == JobInv /\ report.status = "complete" => Ran(report.run)
BY DEF JobInv, JobTypeOK, Report, Phase, OneAnalysis, Active, ReportInv, Ran

LEMMA RanStays ==
    ASSUME JobTypeOK, [JobNext]_jobVars, NEW r, Ran(r)
    PROVE  Ran(r)'
<1>1. r \in Runs /\ job[r] \in {"stored", "done"}
  BY DEF Ran
<1>2. job'[r] \in {"stored", "done"}
  <2>1. CASE UNCHANGED jobVars
    BY <1>1, <2>1 DEF jobVars
  <2>2. ASSUME NEW q \in Runs,
               \/ RunAnalysis(q) \/ TakeSnapshot(q) \/ Announce(q)
               \/ \E s \in Status, b \in Bodies \cup {NoBody} : Finish(q, s, b)
        PROVE  job'[r] \in {"stored", "done"}
    BY <1>1, <2>2 DEF RunAnalysis, TakeSnapshot, Announce, Finish, Goto, JobTypeOK
  <2>3. QED
    BY <2>1, <2>2 DEF JobNext
<1>3. QED
  BY <1>1, <1>2 DEF Ran

LEMMA ApplyUntouched ==
    ASSUME JobSteps \/ (\E p \in Pages : PageSteps(p)) \/ UNCHANGED vars
    PROVE  apply' = apply
BY DEF JobSteps, Snapshot, End, Tell, PageSteps, PollTick, OpenTab, Trigger, Receive, FetchFails,
       TriggerAnswered, TriggerFails, HearEnd, Check, vars

LEMMA ReadStep ==
    ASSUME TypeOK, JobInv, ReadInv, [Next]_vars
    PROVE  ReadInv'
<1>1. [JobNext]_jobVars
  BY StepsJob DEF vars, jobVars
<1>2. \A r : Ran(r) => Ran(r)'
  BY <1>1, RanStays DEF JobInv
<1>3. ASSUME apply' = apply PROVE ReadInv'
  BY <1>2, <1>3 DEF ReadInv
<1>4. ASSUME NEW a \in Applies, ApplySteps(a) PROVE ReadInv'
  <2>1. Progress(a) /\ \A b \in Applies \ {a} : apply'[b] = apply[b]
    BY <1>4, ApplyProgress
  <2>2. apply'[a].read.status = "complete" =>
           apply'[a].read.run \in Runs /\ job'[apply'[a].read.run] \in {"stored", "done"}
    <3>1. apply'[a].read \in {apply[a].read, report}
      BY <2>1 DEF Progress
    <3>2. \A rep \in {apply[a].read, report} : rep.status = "complete" => Ran(rep.run)
      BY CompleteRan DEF ReadInv
    <3>3. QED
      BY <1>2, <3>1, <3>2 DEF Ran
  <2>3. apply'[a].phase \in {"new", "sent"} => apply'[a].done = {}
    BY <2>1 DEF Progress, ReadInv
  <2>4. \A rec \in apply'[a].done :
              /\ apply'[a].read.status = "complete"
              /\ rec[1] = apply'[a].read.run /\ rec[2] \in apply'[a].read.body
    BY <2>1 DEF Progress, ReadInv
  <2>5. QED
    BY <1>2, <2>1, <2>2, <2>3, <2>4 DEF ReadInv, Ran
<1>5. QED
  BY <1>3, <1>4, StepsSplit, ApplyUntouched

-----------------------------------------------------------------------------
(* Types.                                                                    *)

LEMMA RemoveOne ==
    ASSUME NEW S, NEW q \in Seq(S), NEW i \in 1..Len(q)
    PROVE  RemoveAt(q, i) \in Seq(S) /\ Len(RemoveAt(q, i)) <= Len(q)
<1>1. SubSeq(q, 1, i - 1) \in Seq(S) /\ Len(SubSeq(q, 1, i - 1)) = i - 1
  OBVIOUS
<1>2. SubSeq(q, i + 1, Len(q)) \in Seq(S) /\ Len(SubSeq(q, i + 1, Len(q))) = Len(q) - i
  OBVIOUS
<1>3. /\ RemoveAt(q, i) \in Seq(S)
      /\ Len(RemoveAt(q, i)) = Len(SubSeq(q, 1, i - 1)) + Len(SubSeq(q, i + 1, Len(q)))
  BY <1>1, <1>2, ConcatProperties, Zenon DEF RemoveAt
<1>4. Len(q) \in Nat
  OBVIOUS
<1>5. Len(RemoveAt(q, i)) = (i - 1) + (Len(q) - i)
  BY <1>1, <1>2, <1>3, Zenon
<1>6. (i - 1) + (Len(q) - i) <= Len(q)
  BY <1>4
<1>7. QED
  BY <1>3, <1>5, <1>6, Zenon

\* The answers of one kind under way to the pages.
Queue(S) == [Pages -> Seq(S)]
Short(q) == \A p \in Pages : Len(q[p]) <= MaxInFlight

LEMMA QueueGrows ==
    ASSUME NEW S, NEW q \in Queue(S), Short(q), NEW p \in Pages, NEW e \in S,
           Len(q[p]) < MaxInFlight
    PROVE  [q EXCEPT ![p] = Append(q[p], e)] \in Queue(S)
           /\ Short([q EXCEPT ![p] = Append(q[p], e)])
BY PageAssumption DEF Queue, Short

LEMMA QueueShrinks ==
    ASSUME NEW S, NEW q \in Queue(S), Short(q), NEW p \in Pages, NEW i, Arriving(q[p], i)
    PROVE  /\ [q EXCEPT ![p] = RemoveAt(q[p], i)] \in Queue(S)
           /\ Short([q EXCEPT ![p] = RemoveAt(q[p], i)])
           /\ q[p][i] \in S
<1>1. q[p] \in Seq(S) /\ i \in 1..Len(q[p])
  BY DEF Queue, Arriving
<1>2. q[p][i] \in S
  BY <1>1
<1>3. RemoveAt(q[p], i) \in Seq(S) /\ Len(RemoveAt(q[p], i)) <= Len(q[p])
  BY <1>1, RemoveOne
<1>4. Len(RemoveAt(q[p], i)) <= MaxInFlight
  BY <1>1, <1>3, PageAssumption DEF Short
<1>5. QED
  BY <1>2, <1>3, <1>4 DEF Queue, Short

LEMMA RenderedView == \A rep \in Report : Rendered(rep) \in View
BY DEF Rendered, View

LEMMA NoReportType == NoReport \in Report /\ ReportOf(NoRun, "running", NoBody) \in Report
BY DEF NoReport, ReportOf, Report, Status

LEMMA PageTypeInit == Init => TypeOK
<1> SUFFICES ASSUME Init PROVE TypeOK
  OBVIOUS
<1>1. JobTypeOK
  BY JobTypeInit DEF Init
<1>2. view \in [Pages -> View]
  BY <1>1, RenderedView DEF Init, JobTypeOK
<1>3. answers \in [Pages -> Seq(Answer)] /\ posted \in [Pages -> Seq(Verdict)]
  BY DEF Init
<1>4. \A p \in Pages : Len(answers[p]) <= MaxInFlight /\ Len(posted[p]) <= MaxInFlight
  BY PageAssumption DEF Init
<1>5. apply \in [Applies -> Apply]
  BY NoReportType DEF Init, Apply, ApplyPhase
<1>6. QED
  BY <1>1, <1>2, <1>3, <1>4, <1>5 DEF Init, TypeOK

LEMMA JobType ==
    ASSUME TypeOK, [Next]_vars
    PROVE  JobTypeOK'
BY StepsJob, TypeNext DEF TypeOK, vars, jobVars

PagesTyped ==
    /\ view \in [Pages -> View] /\ answers \in Queue(Answer) /\ Short(answers)
    /\ posted \in Queue(Verdict) /\ Short(posted)
    /\ polling \in [Pages -> BOOLEAN] /\ disturbed \in [Pages -> BOOLEAN]
    /\ events \in [Pages -> SUBSET Runs] /\ apply \in [Applies -> Apply]

LEMMA TypeParts == TypeOK <=> JobTypeOK /\ PagesTyped
BY DEF TypeOK, PagesTyped, Queue, Short

LEMMA FetchType ==
    ASSUME TypeOK, NEW p \in Pages, NEW silent \in BOOLEAN, Fetch(p, silent)
    PROVE  answers' \in Queue(Answer) /\ Short(answers')
<1>1. [report |-> report, silent |-> silent] \in Answer
  BY DEF Answer, TypeOK, JobTypeOK
<1>2. QED
  BY <1>1, TypeParts, QueueGrows DEF Fetch, PagesTyped

LEMMA PageTypeJob == ASSUME TypeOK, JobTypeOK', JobSteps PROVE TypeOK'
<1>1. ASSUME NEW r \in Runs, Snapshot(r) \/ End(r) PROVE TypeOK'
  BY <1>1 DEF Snapshot, End, pageVars, TypeOK
<1>2. ASSUME NEW r \in Runs, Tell(r) PROVE TypeOK'
  <2>1. events' \in [Pages -> SUBSET Runs] /\ disturbed' \in [Pages -> BOOLEAN]
    BY <1>2 DEF Tell, TypeOK
  <2>2. QED
    BY <1>2, <2>1 DEF Tell, TypeOK
<1>3. QED
  BY <1>1, <1>2 DEF JobSteps

LEMMA PageTypePage == ASSUME TypeOK, JobTypeOK', NEW p \in Pages, PageSteps(p) PROVE TypeOK'
<1>0. PagesTyped /\ view[p] \in View
  BY TypeParts DEF PagesTyped
<1> SUFFICES PagesTyped'
  BY TypeParts DEF TypeOK, PagesTyped, Queue, Short
<1> USE DEF PagesTyped
<1>1. CASE PollTick(p) \/ OpenTab(p)
  BY <1>0, <1>1, FetchType DEF PollTick, OpenTab
<1>2. CASE Trigger(p)
  <2>1. view' \in [Pages -> View]
    BY <1>0, <1>2 DEF Trigger, View
  <2>2. PICK v \in Verdict : posted' = [posted EXCEPT ![p] = Append(posted[p], v)]
    BY <1>2 DEF Trigger, Verdict
  <2>3. posted' \in Queue(Verdict) /\ Short(posted')
    <3>1. Len(posted[p]) < MaxInFlight
      BY <1>2 DEF Trigger
    <3>2. [posted EXCEPT ![p] = Append(posted[p], v)] \in Queue(Verdict)
          /\ Short([posted EXCEPT ![p] = Append(posted[p], v)])
      BY <1>0, <3>1, QueueGrows, Zenon
    <3>3. QED
      BY <2>2, <3>2, Zenon
  <2>4. QED
    BY <1>0, <1>2, <2>1, <2>3 DEF Trigger
<1>3. ASSUME NEW i \in 1..MaxInFlight, Receive(p, i) \/ FetchFails(p, i) PROVE PagesTyped'
  <2>1. Arriving(answers[p], i) /\ answers' = [answers EXCEPT ![p] = RemoveAt(answers[p], i)]
    BY <1>3 DEF Receive, FetchFails
  <2>2. answers' \in Queue(Answer) /\ Short(answers') /\ answers[p][i] \in Answer
    BY <1>0, <2>1, QueueShrinks, Zenon
  <2>3. view' \in [Pages -> View]
    <3>1. answers[p][i].report \in Report
      BY <2>2 DEF Answer
    <3>2. CASE Receive(p, i)
      BY <1>0, <3>1, <3>2, RenderedView DEF Receive, Render
    <3>3. CASE ShowError(p)
      BY <1>0, <3>3 DEF ShowError, View
    <3>4. CASE view' = view
      BY <1>0, <3>4
    <3>5. QED
      BY <1>3, <3>2, <3>3, <3>4 DEF FetchFails
  <2>4. polling' \in [Pages -> BOOLEAN] /\ disturbed' \in [Pages -> BOOLEAN]
    BY <1>0, <1>3 DEF Receive, FetchFails
  <2>5. QED
    BY <1>0, <1>3, <2>2, <2>3, <2>4 DEF Receive, FetchFails
<1>4. ASSUME NEW i \in 1..MaxInFlight, TriggerAnswered(p, i) \/ TriggerFails(p, i)
      PROVE  PagesTyped'
  <2>1. Arriving(posted[p], i) /\ posted' = [posted EXCEPT ![p] = RemoveAt(posted[p], i)]
    BY <1>4 DEF TriggerAnswered, TriggerFails
  <2>2. posted' \in Queue(Verdict) /\ Short(posted')
    BY <1>0, <2>1, QueueShrinks, Zenon
  <2>3. view' \in [Pages -> View]
    <3>1. CASE Render(p, ReportOf(NoRun, "running", NoBody))
      BY <1>0, <3>1, RenderedView, NoReportType DEF Render
    <3>2. CASE TriggerFails(p, i)
      BY <1>0, <3>2 DEF TriggerFails, View
    <3>3. CASE view' = view
      BY <1>0, <3>3
    <3>4. QED
      BY <1>4, <3>1, <3>2, <3>3 DEF TriggerAnswered
  <2>4. answers' \in Queue(Answer) /\ Short(answers')
    BY <1>0, <1>4, FetchType DEF TriggerAnswered, TriggerFails
  <2>5. polling' \in [Pages -> BOOLEAN] /\ disturbed' \in [Pages -> BOOLEAN]
    BY <1>0, <1>4 DEF TriggerAnswered, TriggerFails
  <2>6. QED
    BY <1>0, <1>4, <2>2, <2>3, <2>4, <2>5 DEF TriggerAnswered, TriggerFails
<1>5. ASSUME NEW r \in Runs, HearEnd(p, r) PROVE PagesTyped'
  BY <1>0, <1>5, FetchType DEF HearEnd
<1>6. ASSUME NEW id \in Ids, Check(p, id) PROVE PagesTyped'
  BY <1>0, <1>6 DEF Check, Select, View
<1>7. QED
  BY <1>1, <1>2, <1>3, <1>4, <1>5, <1>6 DEF PageSteps

LEMMA PageTypeApply ==
    ASSUME TypeOK, ReadInv, JobTypeOK', NEW a \in Applies, ApplySteps(a)
    PROVE  TypeOK'
<1>0. PagesTyped /\ apply[a] \in Apply
  BY TypeParts DEF PagesTyped
<1> SUFFICES PagesTyped'
  BY TypeParts DEF TypeOK, PagesTyped, Queue, Short
<1> USE DEF PagesTyped
<1>1. ASSUME NEW p \in Pages, SendApply(p, a) PROVE PagesTyped'
  <2>1. view' \in [Pages -> View] /\ view[p].selected \subseteq Ids
    BY <1>0, <1>1 DEF SendApply, View
  <2>2. apply' \in [Applies -> Apply]
    BY <1>0, <1>1, <2>1 DEF SendApply, Apply, ApplyPhase
  <2>3. QED
    BY <1>0, <1>1, <2>1, <2>2 DEF SendApply
<1>2. CASE ReadReport(a)
  <2>1. apply' \in [Applies -> Apply]
    BY <1>0, <1>2 DEF ReadReport, Apply, ApplyPhase, TypeOK, JobTypeOK
  <2>2. QED
    BY <1>0, <1>2, <2>1 DEF ReadReport, pageVars
<1>3. CASE ApplyEnds(a)
  <2>1. apply' \in [Applies -> Apply]
    BY <1>0, <1>3 DEF ApplyEnds, Apply, ApplyPhase
  <2>2. QED
    BY <1>0, <1>3, <2>1 DEF ApplyEnds, pageVars
<1>4. CASE ApplyAnswered(a)
  <2>1. apply[a].page \in Pages
    BY <1>0 DEF Apply
  <2>2. view' \in [Pages -> View]
    <3> DEFINE v == view[apply[a].page]
    <3>1. PICK ids : /\ ids \subseteq v.selected
                     /\ view' = [view EXCEPT ![apply[a].page] = Select(v, ids)]
      BY <1>4 DEF ApplyAnswered
    <3>2. v \in View
      BY <1>0, <2>1
    <3>3. Select(v, ids) \in View
      BY <3>1, <3>2 DEF Select, View
    <3> HIDE DEF v
    <3>4. QED
      BY <1>0, <2>1, <3>1, <3>3
  <2>3. apply' \in [Applies -> Apply]
    BY <1>0, <1>4 DEF ApplyAnswered, Apply, ApplyPhase
  <2>4. QED
    BY <1>0, <1>4, <2>2, <2>3 DEF ApplyAnswered
<1>5. ASSUME NEW id \in Ids, ApplyNext(a, id) PROVE PagesTyped'
  <2>1. Drop(a, id) \in [Applies -> Apply]
    BY <1>0 DEF Drop, Apply
  <2>2. CASE apply' = Drop(a, id)
    BY <1>0, <1>5, <2>1, <2>2 DEF ApplyNext, pageVars
  <2>3. CASE /\ apply[a].read.status = "complete"
             /\ apply' = [Drop(a, id) EXCEPT ![a].done =
                            @ \cup {<<apply[a].read.run, id>>}]
    <3>1. apply[a].read.run \in Runs
      BY <2>3 DEF ReadInv, Ran
    <3>2. apply' \in [Applies -> Apply]
      BY <2>1, <2>3, <3>1 DEF Apply, Recommendation
    <3>3. QED
      BY <1>0, <1>5, <3>2 DEF ApplyNext, pageVars
  <2>4. QED
    BY <1>5, <2>2, <2>3 DEF ApplyNext
<1>6. QED
  BY <1>1, <1>2, <1>3, <1>4, <1>5 DEF ApplySteps

LEMMA TypeRead == Spec => [](TypeOK /\ ReadInv /\ JobInv)
<1>1. Init => ReadInv
  BY DEF Init, ReadInv, NoReport, ReportOf
<1>2. TypeOK /\ ReadInv /\ JobInv /\ [Next]_vars => TypeOK' /\ ReadInv'
  <2> SUFFICES ASSUME TypeOK, ReadInv, JobInv, [Next]_vars PROVE TypeOK' /\ ReadInv'
    OBVIOUS
  <2>1. JobTypeOK'
    BY JobType
  <2>2. UNCHANGED vars => TypeOK'
    BY <2>1 DEF vars, pageVars, TypeOK
  <2>3. TypeOK'
    BY <2>1, <2>2, PageTypeJob, PageTypePage, PageTypeApply, StepsSplit
  <2>4. QED
    BY <2>3, ReadStep
<1>3. QED
  BY PageTypeInit, <1>1, <1>2, ImplementsJob, JobInductive, PTL DEF Spec

\* The pages, the requests and the answers under way keep their types.
THEOREM TypeCorrect == Spec => []TypeOK
BY TypeRead, PTL

-----------------------------------------------------------------------------
(* What is checked and what is applied.                                      *)

LEMMA SelectionStep == TypeOK /\ SelectionShown /\ [Next]_vars => SelectionShown'
<1> SUFFICES ASSUME TypeOK, SelectionShown, [Next]_vars PROVE SelectionShown'
  OBVIOUS
<1>0. view \in [Pages -> View]
  BY DEF TypeOK
<1>1. ASSUME NEW p \in Pages, NEW v,
             view' = [view EXCEPT ![p] = v],
             v.selected # {} => v.report.status = "complete" /\ v.selected \subseteq v.report.body
      PROVE SelectionShown'
  <2>1. view'[p] = v /\ \A q \in Pages \ {p} : view'[q] = view[q]
    BY <1>0, <1>1
  <2>2. QED
    BY <1>1, <2>1 DEF SelectionShown
<1>2. ASSUME NEW p \in Pages, NEW rep, Render(p, rep) PROVE SelectionShown'
  <2>1. Rendered(rep).selected = {} /\ view' = [view EXCEPT ![p] = Rendered(rep)]
    BY <1>2 DEF Render, Rendered
  <2>2. QED
    BY <1>1, <2>1, Zenon
<1>3. ASSUME NEW p \in Pages, NEW ids, NEW q,
             view' = [view EXCEPT ![p] = Select(q, ids)], q = view[p], ids \subseteq q.selected
      PROVE SelectionShown'
  <2>1. Select(q, ids).selected = ids /\ Select(q, ids).report = q.report
    BY <1>0, <1>3 DEF Select, View
  <2>2. QED
    BY <1>1, <1>3, <2>1 DEF SelectionShown
<1>4. ASSUME NEW p \in Pages, PageSteps(p) PROVE SelectionShown'
  <2>1. ASSUME NEW id \in Ids, Check(p, id) PROVE SelectionShown'
    <3> DEFINE new == IF id \in view[p].selected THEN view[p].selected \ {id}
                      ELSE view[p].selected \cup {id}
    <3>1. /\ view' = [view EXCEPT ![p] = Select(view[p], new)]
          /\ view[p].report.status = "complete" /\ id \in view[p].report.body
      BY <2>1 DEF Check
    <3>2. Select(view[p], new).selected = new /\ Select(view[p], new).report = view[p].report
      BY <1>0 DEF Select, View
    <3>3. new \subseteq view[p].report.body
      BY <3>1 DEF SelectionShown
    <3>4. QED
      BY <1>1, <3>1, <3>2, <3>3
  <2>2. ASSUME NEW i \in 1..MaxInFlight,
               Receive(p, i) \/ FetchFails(p, i) \/ TriggerAnswered(p, i) \/ TriggerFails(p, i)
        PROVE  SelectionShown'
    <3>1. CASE \E rep : Render(p, rep)
      BY <1>2, <3>1
    <3>2. CASE UNCHANGED view
      BY <3>2 DEF SelectionShown
    <3>3. CASE ShowError(p) \/ TriggerFails(p, i)
      BY <1>0, <3>3 DEF ShowError, TriggerFails, SelectionShown, View
    <3>4. QED
      BY <2>2, <3>1, <3>2, <3>3 DEF Receive, FetchFails, TriggerAnswered
  <2>3. CASE Trigger(p)
    BY <1>0, <2>3 DEF Trigger, SelectionShown, View
  <2>4. CASE PollTick(p) \/ OpenTab(p) \/ \E r \in Runs : HearEnd(p, r)
    BY <2>4 DEF PollTick, OpenTab, HearEnd, SelectionShown
  <2>5. QED
    BY <1>4, <2>1, <2>2, <2>3, <2>4 DEF PageSteps
<1>5. ASSUME NEW a \in Applies, ApplySteps(a) PROVE SelectionShown'
  <2>1. ASSUME NEW p \in Pages, SendApply(p, a) PROVE SelectionShown'
    BY <1>0, <2>1 DEF SendApply, SelectionShown, View
  <2>2. CASE ApplyAnswered(a)
    <3>1. apply[a].page \in Pages
      BY DEF TypeOK, Apply
    <3>2. PICK ids : /\ ids \subseteq view[apply[a].page].selected
                     /\ view' = [view EXCEPT ![apply[a].page] = Select(view[apply[a].page], ids)]
      BY <2>2 DEF ApplyAnswered
    <3>3. QED
      BY <1>3, <3>1, <3>2
  <2>3. CASE ReadReport(a) \/ ApplyEnds(a) \/ \E id \in Ids : ApplyNext(a, id)
    BY <2>3 DEF ReadReport, ApplyEnds, ApplyNext, pageVars, SelectionShown
  <2>4. QED
    BY <1>5, <2>1, <2>2, <2>3 DEF ApplySteps
<1>6. CASE JobSteps \/ UNCHANGED vars
  BY <1>6 DEF JobSteps, Snapshot, End, Tell, vars, pageVars, SelectionShown
<1>7. QED
  BY <1>4, <1>5, <1>6, StepsSplit

\* Apply Selected never sends an id of an older report than the one rendered last,
\* whichever answers came in whichever order and whichever requests failed.
THEOREM SelectionStays == Spec => []SelectionShown
<1>1. Init => SelectionShown
  BY DEF Init, Rendered, SelectionShown
<1>2. QED
  BY TypeRead, <1>1, SelectionStep, PTL DEF Spec

\* What a request has applied.
AppliedRan ==
    \A a \in Applies : \A rec \in apply[a].done :
        /\ Ran(rec[1]) /\ rec[1] = apply[a].read.run
        /\ apply[a].read.status = "complete" /\ rec[2] \in apply[a].read.body

\* handleApplyRecommendations applies only what an analysis that ran to its end has
\* recommended, in the report that the handler read.
THEOREM AppliedRecommended == Spec => []AppliedRan
<1>1. ReadInv => AppliedRan
  BY DEF ReadInv, AppliedRan
<1>2. QED
  BY TypeRead, <1>1, PTL

\* handleApplyRecommendations applies from the one report it read, whatever analyses
\* end while it runs.
THEOREM OneReport == Spec => []OneReportPerRequest
<1>1. ReadInv => OneReportPerRequest
  BY DEF ReadInv, OneReportPerRequest
<1>2. QED
  BY TypeRead, <1>1, PTL
===============================================================================
