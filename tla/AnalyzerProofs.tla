---------------------------- MODULE AnalyzerProofs ----------------------------
(* Theorems about the analyzer, for any number of analyses and whatever calls, *)
(* discoveries and dropped entries surround them.                              *)
EXTENDS Analyzer, AnalysisJobProofs, FiniteSetTheorems, SequenceTheorems

\* End stores a report whose status is final.
LEMMA EndFinishes ==
    ASSUME NEW r \in Runs, End(r)
    PROVE  \E s \in {"insufficient_data", "complete", "error"} : \E b : Finish(r, s, b)
BY DEF End

LEMMA OthersLeaveJobs ==
    ASSUME \/ \E c \in Callers : Return(c) \/ \E t \in Tools : Call(c, t)
           \/ LogCatalog \/ HandleEntry
           \/ UNCHANGED vars
    PROVE  UNCHANGED jobVars
BY DEF Return, Call, LogCatalog, HandleEntry, Handled, vars

LEMMA AnalyzerCore ==
    ASSUME JobCore, [Next]_vars
    PROVE  JobCore'
<1>1. ASSUME NEW r \in Runs, Start(r) PROVE JobCore'
  BY <1>1, CoreRun DEF Start
<1>2. ASSUME NEW r \in Runs, Snapshot(r) \/ Tell(r) PROVE JobCore'
  BY <1>2, CoreMoves DEF Snapshot, Tell
<1>3. ASSUME NEW r \in Runs, End(r) PROVE JobCore'
  BY <1>3, EndFinishes, CoreFinish
<1>4. QED
  BY <1>1, <1>2, <1>3, OthersLeaveJobs, CoreStutters DEF Next

LEMMA CoreAlways == Spec => []JobCore
<1>1. Init => JobCore
  BY CoreInit DEF Init
<1>2. JobCore /\ [Next]_vars => JobCore'
  BY AnalyzerCore
<1>3. QED
  BY <1>1, <1>2, PTL DEF Spec

\* One analysis at a time, for any number of requests: the report says
\* "running" exactly while one runs (RunAnalysis, lines 184-194).
THEOREM OneAtATime == Spec => []OneAnalysis
<1>1. JobCore => OneAnalysis
  BY DEF JobCore
<1>2. QED
  BY CoreAlways, <1>1, PTL

\* A report that is final is replaced only by the start of a newer analysis.
LEMMA FinalStays ==
    ASSUME JobCore, [Next]_vars
    PROVE  [report' # report /\ report.status # "running"
              => job[report'.run] = "new" /\ report'.status = "running"]_jobVars
<1>1. ASSUME NEW r \in Runs, Start(r)
      PROVE  job[report'.run] = "new" /\ report'.status = "running"
  BY <1>1 DEF Start, RunAnalysis, ReportOf
<1>2. ASSUME NEW r \in Runs, Snapshot(r) \/ Tell(r) PROVE report' = report
  BY <1>2 DEF Snapshot, Tell, TakeSnapshot, Announce
<1>3. ASSUME NEW r \in Runs, End(r) PROVE report.status = "running"
  BY <1>3, EndFinishes DEF Finish, JobCore, OneAnalysis, Active
<1>4. QED
  BY <1>1, <1>2, <1>3, OthersLeaveJobs DEF Next

\* The answer of an older analysis never replaces a final report, however
\* requests, answers and failures of the LLM interleave.
THEOREM NoOldReport == Spec => NoOldAnswer
<1>1. JobCore /\ [Next]_vars
        => [report' # report /\ report.status # "running"
              => job[report'.run] = "new" /\ report'.status = "running"]_jobVars
  BY FinalStays
<1>2. QED
  BY CoreAlways, <1>1, PTL DEF Spec, NoOldAnswer
-----------------------------------------------------------------------------
(* Analyzer implements AnalysisJob.                                          *)

\* What reports are made of is well formed, as far as that takes no bound.
DataInv ==
    /\ calling \in [Callers -> Tools \cup {NoTool}]
    /\ queue \in Seq(Event)
    /\ stats \in [Tools -> Stat]
    /\ catalog \in {"none", "persisted"}
    /\ snap \in [Runs -> [catalog : {"none", "persisted"}, stats : [Tools -> Stat]]]

LEMMA DataInit == Init => DataInv
<1>1. Zero \in Stat
  BY DEF Zero, Stat
<1>2. QED
  BY <1>1 DEF Init, DataInv, NoSnap

LEMMA LogKeepsEvents ==
    ASSUME queue \in Seq(Event), NEW e \in Event, Log(e)
    PROVE  queue' \in Seq(Event)
BY DEF Log

LEMMA CountType ==
    ASSUME stats \in [Tools -> Stat], NEW t \in Tools,
           Count(t, "calls") \/ Count(t, "errors")
    PROVE  stats' \in [Tools -> Stat]
<1>1. stats[t] \in Stat
  OBVIOUS
<1>2. /\ [stats[t] EXCEPT !["calls"] = @ + 1] \in Stat
      /\ [stats[t] EXCEPT !["errors"] = @ + 1] \in Stat
  BY <1>1 DEF Stat
<1>3. QED
  BY <1>2 DEF Count

LEMMA DataNext == DataInv /\ [Next]_vars => DataInv'
<1> SUFFICES ASSUME DataInv, [Next]_vars PROVE DataInv'
  OBVIOUS
<1>1. ASSUME NEW c \in Callers, NEW t \in Tools, Call(c, t) PROVE DataInv'
  <2>1. [type |-> "request", tool |-> t] \in Event
    BY DEF Event
  <2>2. queue' \in Seq(Event)
    BY <1>1, <2>1, LogKeepsEvents DEF Call, DataInv
  <2>3. QED
    BY <1>1, <2>2 DEF Call, DataInv
<1>2. ASSUME NEW c \in Callers, Return(c) PROVE DataInv'
  <2>1. calling[c] \in Tools
    BY <1>2 DEF Return, DataInv
  <2>2. \A type \in {"response", "failure"} : [type |-> type, tool |-> calling[c]] \in Event
    BY <2>1 DEF Event
  <2>3. queue' \in Seq(Event)
    BY <1>2, <2>2, LogKeepsEvents DEF Return, DataInv
  <2>4. QED
    BY <1>2, <2>3 DEF Return, DataInv
<1>3. CASE LogCatalog
  <2>1. [type |-> "catalog"] \in Event
    BY DEF Event
  <2>2. queue' \in Seq(Event)
    BY <1>3, <2>1, LogKeepsEvents DEF LogCatalog, DataInv
  <2>3. QED
    BY <1>3, <2>2 DEF LogCatalog, DataInv
<1>4. CASE HandleEntry
  <2> DEFINE e == Head(queue)
  <2>1. e \in Event /\ queue' \in Seq(Event)
    BY <1>4 DEF HandleEntry, DataInv
  <2>2. e.type \in {"request", "failure"} => e.tool \in Tools
    BY <2>1 DEF Event
  <2>3. Handled(e)
    BY <1>4 DEF HandleEntry
  <2> HIDE DEF e
  <2>4. stats' \in [Tools -> Stat] /\ catalog' = catalog
    <3>1. CASE e.type \in {"request", "failure"}
      BY <2>2, <2>3, <3>1, CountType DEF Handled, DataInv
    <3>2. CASE e.type \notin {"request", "failure"}
      BY <2>3, <3>2 DEF Handled, DataInv
    <3>3. QED
      BY <3>1, <3>2
  <2>5. QED
    BY <1>4, <2>1, <2>4 DEF HandleEntry, DataInv
<1>5. ASSUME NEW r \in Runs, Start(r) \/ End(r) PROVE DataInv'
  BY <1>5 DEF Start, End, DataInv, dataVars
<1>6. ASSUME NEW r \in Runs, Snapshot(r) PROVE DataInv'
  BY <1>6 DEF Snapshot, DataInv, dataVars
<1>7. ASSUME NEW r \in Runs, Tell(r) PROVE DataInv'
  <2>1. [type |-> "end"] \in Event
    BY DEF Event
  <2>2. queue' \in Seq(Event)
    BY <1>7, <2>1, LogKeepsEvents DEF Tell, DataInv
  <2>3. QED
    BY <1>7, <2>2 DEF Tell, DataInv
<1>8. CASE UNCHANGED vars
  BY <1>8 DEF vars, dataVars, DataInv
<1>9. QED
  BY <1>1, <1>2, <1>3, <1>4, <1>5, <1>6, <1>7, <1>8 DEF Next

\* A step of the analyzer is a step of an analysis or leaves the analyses alone.
LEMMA StepsJob ==
    ASSUME [Tools -> Stat] \subseteq Bodies, DataInv, [Next]_vars
    PROVE  [JobNext]_jobVars
<1>1. ASSUME NEW r \in Runs, Start(r) \/ Snapshot(r) \/ Tell(r) PROVE JobNext
  BY <1>1 DEF Start, Snapshot, Tell, JobNext
<1>2. ASSUME NEW r \in Runs, End(r) PROVE JobNext
  <2>1. snap[r].stats \in Bodies
    BY DEF DataInv
  <2>2. \E s \in Status, b \in Bodies \cup {NoBody} : Outcome(s, b) /\ Finish(r, s, b)
    BY <1>2, <2>1 DEF End, Outcome, Status
  <2>3. QED
    BY <2>2 DEF JobNext
<1>3. QED
  BY <1>1, <1>2, OthersLeaveJobs DEF Next

\* Among calls, discoveries and dropped entries an analysis lives as AnalysisJob
\* says, and what it reports are counts (RunAnalysis and doAnalysis over handleEntry).
THEOREM ImplementsJob ==
    ASSUME [Tools -> Stat] \subseteq Bodies
    PROVE  Spec => JobSpec
<1>1. Init => JobInit /\ DataInv
  BY DataInit DEF Init
<1>2. DataInv /\ [Next]_vars => [JobNext]_jobVars /\ DataInv'
  BY StepsJob, DataNext
<1>3. QED
  BY <1>1, <1>2, PTL DEF Spec, JobSpec
-----------------------------------------------------------------------------
(* The counts of the reports.                                                *)

Below(f, g) == \A t \in Tools : f[t].calls <= g[t].calls

\* What an analysis copied is not above what is counted since, and not above
\* what the analysis now running copied after it.
GrowInv ==
    /\ \A r \in Runs : job[r] \in {"asking", "stored", "done"} => Below(snap[r].stats, stats)
    /\ \A r, q \in Runs : job[r] = "asking" /\ job[q] \in {"stored", "done"}
                             => Below(snap[q].stats, snap[r].stats)

\* A step handles an entry or leaves the statistics alone.
LEMMA StatsChange ==
    ASSUME [Next]_vars
    PROVE  HandleEntry \/ UNCHANGED stats
BY DEF Next, vars, dataVars, Return, Call, LogCatalog, Start, Snapshot, End, Tell

\* Counting one more takes nothing away.
LEMMA CountGrows ==
    ASSUME stats \in [Tools -> Stat], NEW u \in Tools,
           Count(u, "calls") \/ Count(u, "errors")
    PROVE  Below(stats, stats')
<1> SUFFICES ASSUME NEW t \in Tools PROVE stats[t].calls <= stats'[t].calls
  BY DEF Below
<1>1. stats[t] \in Stat
  OBVIOUS
<1>2. stats[t].calls \in Nat
  BY <1>1 DEF Stat
<1>3. stats'[t] \in {stats[t], [stats[t] EXCEPT !["calls"] = @ + 1],
                    [stats[t] EXCEPT !["errors"] = @ + 1]}
  BY DEF Count
<1>4. [stats[t] EXCEPT !["calls"] = @ + 1].calls = stats[t].calls + 1
  BY <1>1 DEF Stat
<1>5. [stats[t] EXCEPT !["errors"] = @ + 1].calls = stats[t].calls
  BY <1>1 DEF Stat
<1>6. QED
  BY <1>2, <1>3, <1>4, <1>5

LEMMA StatsGrow ==
    ASSUME DataInv, [Next]_vars
    PROVE  Below(stats, stats')
<1>1. \A t \in Tools : stats[t].calls \in Nat
  BY DEF DataInv, Stat
<1>2. CASE UNCHANGED stats
  BY <1>1, <1>2 DEF Below
<1>3. CASE HandleEntry
  <2> DEFINE e == Head(queue)
  <2>1. Handled(e) /\ e \in Event
    BY <1>3 DEF HandleEntry, DataInv
  <2>2. e.type \in {"request", "failure"} => e.tool \in Tools
    BY <2>1 DEF Event
  <2> HIDE DEF e
  <2>3. CASE e.type \in {"request", "failure"}
    BY <2>1, <2>2, <2>3, CountGrows DEF Handled, DataInv
  <2>4. CASE e.type \notin {"request", "failure"}
    BY <1>1, <2>1, <2>4 DEF Handled, Below
  <2>5. QED
    BY <2>3, <2>4
<1>4. QED
  BY <1>2, <1>3, StatsChange

LEMMA BelowTransitive ==
    ASSUME NEW f \in [Tools -> Stat], NEW g \in [Tools -> Stat], NEW h \in [Tools -> Stat],
           Below(f, g), Below(g, h)
    PROVE  Below(f, h)
<1>1. \A t \in Tools : f[t].calls \in Nat /\ g[t].calls \in Nat /\ h[t].calls \in Nat
  BY DEF Stat
<1>2. QED
  BY <1>1 DEF Below

\* Only an analysis that takes its snapshot changes what analyses copied.
LEMMA SnapChange ==
    ASSUME [Next]_vars
    PROVE  UNCHANGED snap \/ \E r \in Runs : Snapshot(r)
BY DEF Next, vars, Return, Call, LogCatalog, HandleEntry, Start, End, Tell

LEMMA GrowNext ==
    ASSUME JobCore, DataInv, GrowInv, [Next]_vars
    PROVE  GrowInv'
<1>1. DataInv' /\ Below(stats, stats')
  BY DataNext, StatsGrow
<1>2. ASSUME NEW r \in Runs, Below(snap[r].stats, stats) PROVE Below(snap[r].stats, stats')
  <2>1. snap[r].stats \in [Tools -> Stat] /\ stats \in [Tools -> Stat] /\ stats' \in [Tools -> Stat]
    BY <1>1 DEF DataInv
  <2>2. QED
    BY <1>1, <1>2, <2>1, BelowTransitive
<1>3. CASE UNCHANGED <<jobVars, snap>>
  BY <1>2, <1>3 DEF GrowInv, jobVars
<1>4. ASSUME NEW r \in Runs, Start(r) PROVE GrowInv'
  <2>1. \A q \in Runs : job'[q] \in {"asking", "stored", "done"} => job'[q] = job[q]
    BY <1>4 DEF Start, RunAnalysis, Goto, JobCore
  <2>2. UNCHANGED <<snap, stats>>
    BY <1>4 DEF Start, dataVars
  <2>3. QED
    BY <2>1, <2>2 DEF GrowInv
<1>5. ASSUME NEW r \in Runs, Snapshot(r) PROVE GrowInv'
  <2>1. /\ job' = [job EXCEPT ![r] = "asking"] /\ job[r] = "started"
        /\ UNCHANGED stats
        /\ snap' = [snap EXCEPT ![r] = [catalog |-> catalog, stats |-> stats]]
    BY <1>5 DEF Snapshot, TakeSnapshot, Goto, dataVars
  <2>2. \A q \in Runs : q # r => job'[q] = job[q] /\ snap'[q] = snap[q] /\ job[q] # "asking"
    BY <2>1 DEF JobCore, OneAnalysis, Active, DataInv
  <2>3. job'[r] = "asking" /\ snap'[r].stats = stats
    BY <2>1 DEF JobCore, DataInv
  <2>4. Below(stats, stats)
    BY <1>1, <2>1
  <2>5. QED
    BY <2>1, <2>2, <2>3, <2>4 DEF GrowInv
<1>6. ASSUME NEW r \in Runs, End(r) \/ Tell(r) PROVE GrowInv'
  <2>1. /\ job[r] \in {"asking", "stored"} /\ job'[r] \in {"stored", "done"}
        /\ \A q \in Runs : q # r => job'[q] = job[q]
    BY <1>6 DEF End, Finish, Tell, Announce, Goto, JobCore
  <2>2. UNCHANGED <<snap, stats>>
    BY <1>6 DEF End, Tell, dataVars
  <2>3. \A q \in Runs : job[r] = "asking" /\ job[q] = "asking" => q = r
    BY DEF JobCore, OneAnalysis, Active
  <2>4. QED
    BY <2>1, <2>2, <2>3 DEF GrowInv
<1>7. QED
  BY <1>3, <1>4, <1>5, <1>6, OthersLeaveJobs, SnapChange DEF Next

\* A complete report never shows fewer calls of a tool than the report of an
\* analysis that ended before it: doAnalysis copies counts that only grow.
THEOREM NoFewerCalls == Spec => CountsGrow
<1> DEFINE Grows == report'.status = "complete" /\ report # report'
                      => \A q \in Runs : job[q] = "done" => Below(snap[q].stats, report'.body)
<1>1. Init => JobCore /\ DataInv /\ GrowInv
  BY CoreInit, DataInit DEF Init, JobInit, GrowInv
<1>2. JobCore /\ DataInv /\ GrowInv /\ [Next]_vars => (JobCore /\ DataInv /\ GrowInv)'
  BY AnalyzerCore, DataNext, GrowNext
<1>3. JobCore /\ DataInv /\ GrowInv /\ [Next]_vars => [Grows]_vars
  <2> SUFFICES ASSUME GrowInv, [Next]_vars, report'.status = "complete", report # report',
                      NEW q \in Runs, job[q] = "done"
               PROVE  Below(snap[q].stats, report'.body)
    BY DEF Below
  <2>1. PICK r \in Runs : Start(r) \/ Snapshot(r) \/ End(r) \/ Tell(r)
    BY OthersLeaveJobs DEF Next, jobVars
  <2>2. End(r)
    BY <2>1 DEF Start, RunAnalysis, ReportOf, Snapshot, TakeSnapshot, Tell, Announce
  <2>3. job[r] = "asking" /\ report'.body = snap[r].stats
    BY <2>2 DEF End, Finish, ReportOf
  <2>4. QED
    BY <2>3 DEF GrowInv
<1>4. QED
  BY <1>1, <1>2, <1>3, PTL DEF Spec, CountsGrow, Below
-----------------------------------------------------------------------------
(* How often an entry occurs among the first entries of a queue.             *)

Places(q, e, k) == {i \in 1..k : q[i] = e}
Occurs(q, e, k) == Cardinality(Places(q, e, k))

LEMMA OccursType ==
    ASSUME NEW q, NEW e, NEW k \in Nat
    PROVE  IsFiniteSet(Places(q, e, k)) /\ Occurs(q, e, k) \in Nat
<1>1. IsFiniteSet(1..k)
  BY FS_Interval
<1>2. IsFiniteSet(Places(q, e, k))
  BY <1>1, FS_Subset DEF Places
<1>3. QED
  BY <1>2, FS_CardinalityType DEF Occurs

LEMMA OccursNone ==
    ASSUME NEW q, NEW e
    PROVE  Occurs(q, e, 0) = 0
<1>1. Places(q, e, 0) = {}
  BY DEF Places
<1>2. QED
  BY <1>1, FS_EmptySet DEF Occurs

LEMMA OccursNext ==
    ASSUME NEW q, NEW e, NEW k \in Nat
    PROVE  Occurs(q, e, k + 1) = IF q[k + 1] = e THEN Occurs(q, e, k) + 1 ELSE Occurs(q, e, k)
<1>1. IsFiniteSet(Places(q, e, k)) /\ k + 1 \notin Places(q, e, k)
  <2>1. IsFiniteSet(Places(q, e, k))
    BY OccursType
  <2>2. QED
    BY <2>1 DEF Places
<1>2. CASE q[k + 1] = e
  <2>1. Places(q, e, k + 1) = Places(q, e, k) \cup {k + 1}
    BY <1>2 DEF Places
  <2>2. QED
    BY <1>1, <1>2, <2>1, FS_AddElement DEF Occurs
<1>3. CASE q[k + 1] # e
  <2>1. Places(q, e, k + 1) = Places(q, e, k)
    BY <1>3 DEF Places
  <2>2. QED
    BY <1>3, <2>1 DEF Occurs
<1>4. QED
  BY <1>2, <1>3

\* An entry appended does not change what comes before it.
LEMMA OccursAppend ==
    ASSUME NEW S, NEW q \in Seq(S), NEW x \in S, NEW e, NEW k \in 0..Len(q)
    PROVE  Occurs(Append(q, x), e, k) = Occurs(q, e, k)
<1>1. \A i \in 1..k : Append(q, x)[i] = q[i]
  BY AppendProperties
<1>2. Places(Append(q, x), e, k) = Places(q, e, k)
  BY <1>1 DEF Places
<1>3. QED
  BY <1>2 DEF Occurs

\* Without its head a queue holds what it held, one place earlier.
LEMMA OccursTail ==
    ASSUME NEW S, NEW q \in Seq(S), q # <<>>, NEW e, NEW k \in 0..(Len(q) - 1)
    PROVE  Occurs(q, e, k + 1)
             = IF Head(q) = e THEN Occurs(Tail(q), e, k) + 1 ELSE Occurs(Tail(q), e, k)
<1> DEFINE A == Places(Tail(q), e, k)
           B == Places(q, e, k + 1) \ {1}
           f == [i \in A |-> i + 1]
<1>1. k \in Nat /\ k + 1 \in Nat /\ Head(q) = q[1] /\ \A i \in 1..k : Tail(q)[i] = q[i + 1]
  BY HeadTailProperties
<1>2. f \in Bijection(A, B)
  <2>1. f \in [A -> B]
    BY <1>1 DEF Places
  <2>2. \A a, b \in A : f[a] = f[b] => a = b
    BY <1>1 DEF Places
  <2>3. ASSUME NEW b \in B PROVE \E a \in A : f[a] = b
    <3>1. b - 1 \in A /\ (b - 1) + 1 = b
      BY <1>1 DEF Places
    <3>2. QED
      BY <3>1
  <2>4. QED
    BY <2>1, <2>2, <2>3 DEF Bijection, Injection, Surjection, IsInjective
<1>3. IsFiniteSet(A) /\ IsFiniteSet(Places(q, e, k + 1)) /\ Occurs(q, e, k + 1) \in Nat
  BY <1>1, OccursType
<1>4. Cardinality(B) = Cardinality(A)
  <2> HIDE DEF A, B, f
  <2>1. ExistsBijection(A, B)
    BY <1>2 DEF ExistsBijection
  <2>2. QED
    BY <1>3, <2>1, FS_Bijection
<1>5. 1 \in Places(q, e, k + 1) <=> Head(q) = e
  BY <1>1 DEF Places
<1>6. Cardinality(B) = IF Head(q) = e THEN Occurs(q, e, k + 1) - 1 ELSE Occurs(q, e, k + 1)
  BY <1>3, <1>5, FS_RemoveElement DEF Occurs
<1>7. QED
  BY <1>3, <1>4, <1>6 DEF Occurs
-----------------------------------------------------------------------------
(* Errors within calls.                                                      *)

Request(t) == [type |-> "request", tool |-> t]
Failure(t) == [type |-> "failure", tool |-> t]
Waiting(t) == {c \in Callers : calling[c] = t}

\* With the first k entries of the channel counted and w calls failing after
\* that, tool t would have no more errors than calls.
Ahead(t, k, w) ==
    stats[t].errors + Occurs(queue, Failure(t), k) + w
        <= stats[t].calls + Occurs(queue, Request(t), k)

\* Every prefix of the channel holds the request of an outcome that it holds,
\* unless that request is counted; behind the last entry all calls may fail.
CountInv ==
    /\ \A t \in Tools : IsFiniteSet(Waiting(t))
    /\ ~lost => \A t \in Tools : /\ \A k \in 0..Len(queue) : Ahead(t, k, 0)
                                 /\ Ahead(t, Len(queue), Cardinality(Waiting(t)))

LEMMA EntryTypes ==
    ASSUME NEW t \in Tools
    PROVE  Request(t) \in Event /\ Failure(t) \in Event
BY DEF Request, Failure, Event

LEMMA CountTypes ==
    ASSUME DataInv, CountInv, NEW t \in Tools
    PROVE  /\ stats[t].errors \in Nat /\ stats[t].calls \in Nat
           /\ Cardinality(Waiting(t)) \in Nat /\ Len(queue) \in Nat
<1>1. stats[t] \in Stat /\ queue \in Seq(Event)
  BY DEF DataInv
<1>2. Cardinality(Waiting(t)) \in Nat
  BY FS_CardinalityType DEF CountInv
<1>3. QED
  BY <1>1, <1>2 DEF Stat

\* An entry that is not dropped comes behind all the others.
LEMMA LogCounts ==
    ASSUME queue \in Seq(Event), NEW e \in Event, Log(e), ~lost', NEW x
    PROVE  /\ ~lost /\ Len(queue') = Len(queue) + 1
           /\ \A k \in 0..Len(queue) : Occurs(queue', x, k) = Occurs(queue, x, k)
           /\ Occurs(queue', x, Len(queue) + 1)
                = IF e = x THEN Occurs(queue, x, Len(queue)) + 1 ELSE Occurs(queue, x, Len(queue))
<1>1. ~lost /\ queue' = Append(queue, e)
  BY DEF Log
<1>2. /\ Len(queue) \in Nat /\ Len(queue') = Len(queue) + 1
      /\ queue'[Len(queue) + 1] = e
  BY <1>1, AppendProperties
<1>3. \A k \in 0..Len(queue) : Occurs(queue', x, k) = Occurs(queue, x, k)
  BY <1>1, OccursAppend
<1>4. Occurs(queue', x, Len(queue)) = Occurs(queue, x, Len(queue))
  BY <1>2, <1>3
<1>5. Occurs(queue', x, Len(queue) + 1)
        = IF e = x THEN Occurs(queue', x, Len(queue)) + 1 ELSE Occurs(queue', x, Len(queue))
  <2>1. PICK n \in Nat : n = Len(queue)
    BY <1>2
  <2>2. Occurs(queue', x, n + 1)
            = IF queue'[n + 1] = x THEN Occurs(queue', x, n) + 1 ELSE Occurs(queue', x, n)
    BY OccursNext
  <2>3. QED
    BY <1>2, <2>1, <2>2
<1>6. QED
  BY <1>1, <1>2, <1>3, <1>4, <1>5

\* Logging keeps the counts ahead as long as a failure ends a call and a call
\* logs its request.
LEMMA LogKeepsCount ==
    ASSUME DataInv, CountInv, NEW e \in Event, Log(e), UNCHANGED stats,
           \A t \in Tools : IsFiniteSet(Waiting(t)'),
           \A t \in Tools : Cardinality(Waiting(t)') + (IF e = Failure(t) THEN 1 ELSE 0)
                              <= Cardinality(Waiting(t)) + (IF e = Request(t) THEN 1 ELSE 0)
    PROVE  CountInv'
<1> SUFFICES ASSUME ~lost', NEW t \in Tools
             PROVE  /\ (\A k \in 0..Len(queue) : Ahead(t, k, 0))'
                    /\ Ahead(t, Len(queue), Cardinality(Waiting(t)))'
  BY DEF CountInv
<1> DEFINE n == Len(queue)
           errors == stats[t].errors
           calls == stats[t].calls
           w == Cardinality(Waiting(t))
           v == Cardinality(Waiting(t)')
<1>1. errors \in Nat /\ calls \in Nat /\ w \in Nat /\ n \in Nat /\ v \in Nat
  BY CountTypes, FS_CardinalityType
<1>2. queue \in Seq(Event)
  BY DEF DataInv
<1>3. /\ ~lost /\ Len(queue') = n + 1
      /\ \A k \in 0..n : /\ Occurs(queue', Failure(t), k) = Occurs(queue, Failure(t), k)
                         /\ Occurs(queue', Request(t), k) = Occurs(queue, Request(t), k)
      /\ Occurs(queue', Failure(t), n + 1)
           = Occurs(queue, Failure(t), n) + (IF e = Failure(t) THEN 1 ELSE 0)
      /\ Occurs(queue', Request(t), n + 1)
           = Occurs(queue, Request(t), n) + (IF e = Request(t) THEN 1 ELSE 0)
  <2>1. Occurs(queue, Failure(t), n) \in Nat /\ Occurs(queue, Request(t), n) \in Nat
    BY <1>1, OccursType
  <2>2. QED
    BY <1>2, <2>1, LogCounts
<1> DEFINE Kept(k, x) ==
        errors + Occurs(queue', Failure(t), k) + x <= calls + Occurs(queue', Request(t), k)
<1>4. ASSUME NEW k \in 0..n PROVE Kept(k, 0)
  <2>1. Ahead(t, k, 0)
    BY <1>3, <1>4 DEF CountInv
  <2>2. QED
    BY <1>3, <1>4, <2>1 DEF Ahead
<1>5. Kept(n + 1, v)
  <2>1. errors + Occurs(queue, Failure(t), n) + w <= calls + Occurs(queue, Request(t), n)
    BY <1>3 DEF CountInv, Ahead
  <2>2. v + (IF e = Failure(t) THEN 1 ELSE 0) <= w + (IF e = Request(t) THEN 1 ELSE 0)
    OBVIOUS
  <2>3. Occurs(queue, Failure(t), n) \in Nat /\ Occurs(queue, Request(t), n) \in Nat
    BY <1>1, OccursType
  <2>4. QED
    <3> HIDE DEF errors, calls, w, v, n
    <3>1. QED
      BY <1>1, <1>3, <2>1, <2>2, <2>3
<1>6. Kept(n + 1, 0)
  <2>1. Occurs(queue', Failure(t), n + 1) \in Nat /\ Occurs(queue', Request(t), n + 1) \in Nat
    BY <1>1, OccursType
  <2>2. QED
    BY <1>1, <1>5, <2>1
<1>7. \A k \in 0..n + 1 : Kept(k, 0)
  <2> HIDE DEF Kept
  <2>1. \A k \in 0..n + 1 : k \in 0..n \/ k = n + 1
    BY <1>1
  <2>2. QED
    BY <1>4, <1>6, <2>1
<1>8. Len(queue') = n + 1
  BY <1>3
<1>9. QED
  BY <1>5, <1>7, <1>8 DEF Ahead

\* A step that calls no tool and leaves callers alone keeps who waits.
LEMMA WaitingSame == ASSUME UNCHANGED calling PROVE \A t \in Tools : Waiting(t)' = Waiting(t)
BY DEF Waiting

\* An entry that is neither a request nor a failure changes no count.
LEMMA LogSilently ==
    ASSUME DataInv, CountInv, NEW e \in Event, Log(e), UNCHANGED <<calling, stats>>,
           \A t \in Tools : e # Request(t) /\ e # Failure(t)
    PROVE  CountInv'
<1>1. \A t \in Tools : Waiting(t)' = Waiting(t)
  BY WaitingSame
<1>2. \A t \in Tools : IsFiniteSet(Waiting(t)')
  BY <1>1 DEF CountInv
<1>3. \A t \in Tools : Cardinality(Waiting(t)') + (IF e = Failure(t) THEN 1 ELSE 0)
                         <= Cardinality(Waiting(t)) + (IF e = Request(t) THEN 1 ELSE 0)
  BY <1>1, CountTypes
<1>4. QED
  BY <1>2, <1>3, LogKeepsCount

LEMMA CallKeepsCount ==
    ASSUME DataInv, CountInv, NEW c \in Callers, NEW t \in Tools, Call(c, t)
    PROVE  CountInv'
<1>1. /\ Log(Request(t)) /\ UNCHANGED stats /\ calling[c] \notin Tools
      /\ calling' = [calling EXCEPT ![c] = t]
  BY AnalyzerAssumption DEF Call, Request
<1>2. \A u \in Tools : Waiting(u)' = IF u = t THEN Waiting(u) \cup {c} ELSE Waiting(u)
  BY <1>1 DEF Waiting, DataInv
<1>3. \A u \in Tools : /\ IsFiniteSet(Waiting(u)')
                       /\ Cardinality(Waiting(u)')
                            <= Cardinality(Waiting(u)) + (IF u = t THEN 1 ELSE 0)
  <2> SUFFICES ASSUME NEW u \in Tools
               PROVE  /\ IsFiniteSet(Waiting(u)')
                      /\ Cardinality(Waiting(u)')
                           <= Cardinality(Waiting(u)) + (IF u = t THEN 1 ELSE 0)
    OBVIOUS
  <2>1. IsFiniteSet(Waiting(u)) /\ Cardinality(Waiting(u)) \in Nat
    BY CountTypes DEF CountInv
  <2>2. /\ IsFiniteSet(Waiting(u) \cup {c})
        /\ Cardinality(Waiting(u) \cup {c}) <= Cardinality(Waiting(u)) + 1
    BY <2>1, FS_AddElement
  <2>3. CASE u = t
    BY <1>2, <2>2, <2>3
  <2>4. CASE u # t
    BY <1>2, <2>1, <2>4
  <2>5. QED
    BY <2>3, <2>4
<1>4. \A u \in Tools : (Request(t) = Request(u) <=> t = u) /\ Request(t) # Failure(u)
  BY DEF Request, Failure
<1>5. \A u \in Tools : Cardinality(Waiting(u)') + (IF Request(t) = Failure(u) THEN 1 ELSE 0)
                         <= Cardinality(Waiting(u)) + (IF Request(t) = Request(u) THEN 1 ELSE 0)
  BY <1>3, <1>4, CountTypes, FS_CardinalityType
<1>6. QED
  BY <1>1, <1>3, <1>5, EntryTypes, LogKeepsCount

LEMMA ReturnKeepsCount ==
    ASSUME DataInv, CountInv, NEW c \in Callers, Return(c)
    PROVE  CountInv'
<1> DEFINE t == calling[c]
<1>1. /\ t \in Tools /\ UNCHANGED stats
      /\ calling' = [calling EXCEPT ![c] = NoTool]
      /\ \E type \in {"response", "failure"} : Log([type |-> type, tool |-> t])
  BY DEF Return, DataInv
<1>2. PICK type \in {"response", "failure"} : Log([type |-> type, tool |-> t])
  BY <1>1
<1> DEFINE e == [type |-> type, tool |-> t]
<1>3. e \in Event /\ \A u \in Tools : e # Request(u) /\ (e = Failure(u) => u = t)
  BY <1>1 DEF Event, Request, Failure
<1>4. \A u \in Tools : Waiting(u)' = IF u = t THEN Waiting(u) \ {c} ELSE Waiting(u)
  BY <1>1, AnalyzerAssumption DEF Waiting, DataInv
<1>5. c \in Waiting(t)
  BY DEF Waiting
<1> HIDE DEF t, e
<1>6. \A u \in Tools : /\ IsFiniteSet(Waiting(u)')
                       /\ Cardinality(Waiting(u)')
                            = Cardinality(Waiting(u)) - (IF u = t THEN 1 ELSE 0)
  <2> SUFFICES ASSUME NEW u \in Tools
               PROVE  /\ IsFiniteSet(Waiting(u)')
                      /\ Cardinality(Waiting(u)')
                           = Cardinality(Waiting(u)) - (IF u = t THEN 1 ELSE 0)
    OBVIOUS
  <2>1. IsFiniteSet(Waiting(u)) /\ Cardinality(Waiting(u)) \in Nat
    BY CountTypes DEF CountInv
  <2>2. u = t => /\ IsFiniteSet(Waiting(u) \ {c})
                 /\ Cardinality(Waiting(u) \ {c}) = Cardinality(Waiting(u)) - 1
    BY <1>5, <2>1, FS_RemoveElement
  <2>3. QED
    BY <1>4, <2>1, <2>2
<1>7. \A u \in Tools : Cardinality(Waiting(u)') + (IF e = Failure(u) THEN 1 ELSE 0)
                         <= Cardinality(Waiting(u)) + (IF e = Request(u) THEN 1 ELSE 0)
  BY <1>3, <1>6, CountTypes
<1>8. Log(e)
  BY <1>2 DEF e
<1>9. QED
  BY <1>1, <1>3, <1>6, <1>7, <1>8, LogKeepsCount

\* What is handled is counted: an entry leaves the channel for the statistics.
LEMMA HandledCounts ==
    ASSUME DataInv, NEW e \in Event, Handled(e), NEW t \in Tools
    PROVE  /\ stats'[t].errors = stats[t].errors + (IF e = Failure(t) THEN 1 ELSE 0)
           /\ stats'[t].calls = stats[t].calls + (IF e = Request(t) THEN 1 ELSE 0)
<1>1. stats \in [Tools -> Stat] /\ stats[t] \in Stat
  BY DEF DataInv
<1>2. stats[t].errors \in Nat /\ stats[t].calls \in Nat
  BY <1>1 DEF Stat
<1>3. e = Failure(t) <=> e.type = "failure" /\ e.tool = t
  BY DEF Event, Failure
<1>4. e = Request(t) <=> e.type = "request" /\ e.tool = t
  BY DEF Event, Request
<1>5. CASE e.type = "request"
  <2>1. stats' = [stats EXCEPT ![e.tool]["calls"] = @ + 1]
    BY <1>5 DEF Handled, Count
  <2>2. [stats[t] EXCEPT !["calls"] = @ + 1].calls = stats[t].calls + 1
    BY <1>1 DEF Stat
  <2>3. [stats[t] EXCEPT !["calls"] = @ + 1].errors = stats[t].errors
    BY <1>1 DEF Stat
  <2>4. stats'[t] = IF e.tool = t THEN [stats[t] EXCEPT !["calls"] = @ + 1] ELSE stats[t]
    BY <1>1, <2>1
  <2>5. QED
    BY <1>2, <1>3, <1>4, <1>5, <2>2, <2>3, <2>4
<1>6. CASE e.type = "failure"
  <2>1. stats' = [stats EXCEPT ![e.tool]["errors"] = @ + 1]
    BY <1>6 DEF Handled, Count
  <2>2. [stats[t] EXCEPT !["errors"] = @ + 1].errors = stats[t].errors + 1
    BY <1>1 DEF Stat
  <2>3. [stats[t] EXCEPT !["errors"] = @ + 1].calls = stats[t].calls
    BY <1>1 DEF Stat
  <2>4. stats'[t] = IF e.tool = t THEN [stats[t] EXCEPT !["errors"] = @ + 1] ELSE stats[t]
    BY <1>1, <2>1
  <2>5. QED
    BY <1>2, <1>3, <1>4, <1>6, <2>2, <2>3, <2>4
<1>7. CASE e.type \notin {"request", "failure"}
  BY <1>2, <1>3, <1>4, <1>7 DEF Handled
<1>8. QED
  BY <1>5, <1>6, <1>7

LEMMA HandleKeepsCount ==
    ASSUME DataInv, CountInv, HandleEntry
    PROVE  CountInv'
<1> DEFINE e == Head(queue)
<1> PICK n : n = Len(queue)
  OBVIOUS
<1>1. /\ queue \in Seq(Event) /\ queue # <<>> /\ queue' = Tail(queue)
      /\ Handled(e) /\ UNCHANGED <<calling, lost>>
  BY DEF HandleEntry, DataInv
<1>2. e \in Event /\ n \in Nat \ {0} /\ Len(queue') = n - 1
  BY <1>1, HeadTailProperties
<1>3. \A t \in Tools : Waiting(t)' = Waiting(t)
  BY <1>1, WaitingSame
<1>4. ASSUME NEW t \in Tools, NEW k \in 0..n - 1, NEW w \in Nat, Ahead(t, k + 1, w)
      PROVE  Ahead(t, k, w)'
  <2> DEFINE f == Failure(t)
             q == Request(t)
  <2>1. /\ Occurs(queue', f, k) \in Nat /\ Occurs(queue', q, k) \in Nat
        /\ stats[t].errors \in Nat /\ stats[t].calls \in Nat
    BY OccursType, CountTypes
  <2>2. /\ Occurs(queue, f, k + 1) = Occurs(queue', f, k) + (IF e = f THEN 1 ELSE 0)
        /\ Occurs(queue, q, k + 1) = Occurs(queue', q, k) + (IF e = q THEN 1 ELSE 0)
    BY <1>1, <2>1, OccursTail
  <2>3. /\ stats'[t].errors = stats[t].errors + (IF e = f THEN 1 ELSE 0)
        /\ stats'[t].calls = stats[t].calls + (IF e = q THEN 1 ELSE 0)
    BY <1>1, <1>2, HandledCounts
  <2>4. stats[t].errors + Occurs(queue, f, k + 1) + w <= stats[t].calls + Occurs(queue, q, k + 1)
    BY <1>4 DEF Ahead
  <2>5. stats'[t].errors + Occurs(queue', f, k) + w <= stats'[t].calls + Occurs(queue', q, k)
    <3> HIDE DEF e, f, q
    <3>1. QED
      BY <1>4, <2>1, <2>2, <2>3, <2>4
  <2>6. QED
    BY <2>5 DEF Ahead
<1> HIDE DEF e
<1>5. ASSUME ~lost, NEW t \in Tools
      PROVE  /\ \A k \in 0..n - 1 : Ahead(t, k, 0)'
             /\ Ahead(t, n - 1, Cardinality(Waiting(t)))'
  <2>1. \A k \in 0..n : Ahead(t, k, 0)
    BY <1>5 DEF CountInv
  <2>2. ASSUME NEW k \in 0..n - 1 PROVE Ahead(t, k, 0)'
    <3>1. k + 1 \in 0..n
      BY <1>2, <2>2
    <3>2. QED
      BY <1>4, <2>1, <2>2, <3>1
  <2>3. Ahead(t, n, Cardinality(Waiting(t))) /\ Cardinality(Waiting(t)) \in Nat
    BY <1>5, CountTypes DEF CountInv
  <2>4. n - 1 \in 0..n - 1 /\ (n - 1) + 1 = n
    BY <1>2
  <2>5. PICK w : w = Cardinality(Waiting(t))
    OBVIOUS
  <2>6. Cardinality(Waiting(t))' = w
    BY <1>3, <2>5
  <2>7. Ahead(t, n - 1, w)'
    BY <1>4, <2>3, <2>4, <2>5
  <2>8. QED
    BY <2>2, <2>6, <2>7 DEF Ahead
<1>6. QED
  BY <1>1, <1>2, <1>3, <1>5 DEF CountInv

\* The steps of an analysis count nothing and end no call.
LEMMA AnalysisKeepsCount ==
    ASSUME DataInv, CountInv, NEW r \in Runs, Start(r) \/ Snapshot(r) \/ End(r) \/ Tell(r)
    PROVE  CountInv'
<1>1. CASE Tell(r)
  <2>1. Log([type |-> "end"]) /\ UNCHANGED <<calling, stats>>
    BY <1>1 DEF Tell
  <2>2. /\ [type |-> "end"] \in Event
        /\ \A t \in Tools : [type |-> "end"] # Request(t) /\ [type |-> "end"] # Failure(t)
    BY DEF Event, Request, Failure
  <2>3. QED
    BY <2>1, <2>2, LogSilently
<1>2. CASE Start(r) \/ Snapshot(r) \/ End(r)
  <2>1. UNCHANGED <<calling, stats, queue, lost>>
    BY <1>2 DEF Start, Snapshot, End, dataVars
  <2>2. QED
    BY <2>1 DEF CountInv, Ahead, Waiting
<1>3. QED
  BY <1>1, <1>2

LEMMA CountNext ==
    ASSUME DataInv, CountInv, [Next]_vars
    PROVE  CountInv'
<1>1. CASE LogCatalog
  <2>1. Log([type |-> "catalog"]) /\ UNCHANGED <<calling, stats>>
    BY <1>1 DEF LogCatalog
  <2>2. /\ [type |-> "catalog"] \in Event
        /\ \A t \in Tools : [type |-> "catalog"] # Request(t) /\ [type |-> "catalog"] # Failure(t)
    BY DEF Event, Request, Failure
  <2>3. QED
    BY <2>1, <2>2, LogSilently
<1>2. CASE UNCHANGED vars
  BY <1>2 DEF vars, dataVars, CountInv, Ahead, Waiting
<1>3. QED
  BY <1>1, <1>2, CallKeepsCount, ReturnKeepsCount, HandleKeepsCount, AnalysisKeepsCount DEF Next

LEMMA CountInit == Init => CountInv
<1> SUFFICES ASSUME Init PROVE CountInv
  OBVIOUS
<1>1. ASSUME NEW t \in Tools PROVE Waiting(t) = {}
  BY AnalyzerAssumption DEF Init, Waiting
<1>2. \A t \in Tools : IsFiniteSet(Waiting(t)) /\ Cardinality(Waiting(t)) = 0
  BY <1>1, FS_EmptySet
<1>3. ASSUME NEW t \in Tools PROVE Ahead(t, 0, 0)
  <2>1. Occurs(queue, Failure(t), 0) = 0 /\ Occurs(queue, Request(t), 0) = 0
    BY OccursNone
  <2>2. QED
    BY <2>1 DEF Init, Ahead, Zero
<1>4. Len(queue) = 0 /\ 0..0 = {0}
  BY DEF Init
<1>5. QED
  BY <1>2, <1>3, <1>4 DEF CountInv

Within(f) == \A t \in Tools : f[t].errors <= f[t].calls

\* The statistics, what an analysis under way copied and what it reported.
WithinInv ==
    ~lost => /\ \A r \in Runs : job[r] = "asking" => Within(snap[r].stats)
             /\ report.status = "complete" => Within(report.body)

LEMMA CountsWithin ==
    ASSUME DataInv, CountInv, ~lost
    PROVE  Within(stats)
<1> SUFFICES ASSUME NEW t \in Tools PROVE stats[t].errors <= stats[t].calls
  BY DEF Within
<1>1. Ahead(t, 0, 0)
  BY CountTypes DEF CountInv
<1>2. Occurs(queue, Failure(t), 0) = 0 /\ Occurs(queue, Request(t), 0) = 0
  BY OccursNone
<1>3. QED
  BY <1>1, <1>2, CountTypes DEF Ahead

\* An entry that was dropped stays dropped.
LEMMA LostStays ==
    ASSUME [Next]_vars, lost
    PROVE  lost'
BY DEF Next, vars, dataVars, Return, Call, LogCatalog, Log, HandleEntry, Start, Snapshot, End, Tell

LEMMA WithinNext ==
    ASSUME JobCore, DataInv, CountInv, WithinInv, [Next]_vars
    PROVE  WithinInv'
<1> SUFFICES ASSUME ~lost'
             PROVE  /\ \A r \in Runs : job'[r] = "asking" => Within(snap'[r].stats)
                    /\ report'.status = "complete" => Within(report'.body)
  BY DEF WithinInv, Within
<1>1. /\ \A r \in Runs : job[r] = "asking" => Within(snap[r].stats)
      /\ report.status = "complete" => Within(report.body)
  BY LostStays DEF WithinInv
<1>2. CASE UNCHANGED <<jobVars, snap>>
  BY <1>1, <1>2 DEF jobVars
<1>3. ASSUME NEW q \in Runs, Snapshot(q)
      PROVE  /\ \A r \in Runs : job'[r] = "asking" => Within(snap'[r].stats)
             /\ report'.status = "complete" => Within(report'.body)
  <2>1. /\ job' = [job EXCEPT ![q] = "asking"] /\ UNCHANGED <<report, lost>>
        /\ snap' = [snap EXCEPT ![q] = [catalog |-> catalog, stats |-> stats]]
    BY <1>3 DEF Snapshot, TakeSnapshot, Goto, dataVars
  <2>2. Within(stats)
    BY <2>1, CountsWithin
  <2>3. \A r \in Runs : r # q => job'[r] = job[r] /\ snap'[r] = snap[r]
    BY <2>1 DEF JobCore, DataInv
  <2>4. snap'[q].stats = stats
    BY <2>1 DEF DataInv
  <2>5. QED
    BY <1>1, <2>1, <2>2, <2>3, <2>4
<1>4. ASSUME NEW q \in Runs, Start(q) \/ End(q) \/ Tell(q)
      PROVE  /\ \A r \in Runs : job'[r] = "asking" => Within(snap'[r].stats)
             /\ report'.status = "complete" => Within(report'.body)
  <2>1. \A r \in Runs : job'[r] = "asking" => job[r] = "asking"
    BY <1>4 DEF Start, RunAnalysis, End, Finish, Tell, Announce, Goto, JobCore
  <2>2. UNCHANGED snap
    BY <1>4 DEF Start, End, Tell
  <2>3. report'.status = "complete" => Within(report'.body)
    <3>1. CASE Start(q)
      BY <3>1 DEF Start, RunAnalysis, ReportOf
    <3>2. CASE End(q)
      BY <1>1, <3>2 DEF End, Finish, ReportOf
    <3>3. CASE Tell(q)
      BY <1>1, <3>3 DEF Tell, Announce
    <3>4. QED
      BY <1>4, <3>1, <3>2, <3>3
  <2>4. QED
    BY <1>1, <2>1, <2>2, <2>3
<1>5. QED
  BY <1>2, <1>3, <1>4, OthersLeaveJobs, SnapChange DEF Next

\* As long as no entry was dropped, neither the statistics nor a report shows
\* more errors than calls of a tool, for any number of concurrent calls and any
\* capacity: an outcome is logged after its request (CreateProxyHandler), and
\* handleEntry counts them in the order in which they were logged.
THEOREM ErrorsCounted == Spec => []ErrorsWithinCalls
<1>1. Init => JobCore /\ DataInv /\ CountInv /\ WithinInv
  BY CoreInit, DataInit, CountInit DEF Init, JobInit, WithinInv, ReportOf
<1>2. JobCore /\ DataInv /\ CountInv /\ WithinInv /\ [Next]_vars
        => (JobCore /\ DataInv /\ CountInv /\ WithinInv)'
  BY AnalyzerCore, DataNext, CountNext, WithinNext
<1>3. DataInv /\ CountInv /\ WithinInv => ErrorsWithinCalls
  BY CountsWithin DEF WithinInv, Within, ErrorsWithinCalls
<1>4. QED
  BY <1>1, <1>2, <1>3, PTL DEF Spec
===============================================================================
