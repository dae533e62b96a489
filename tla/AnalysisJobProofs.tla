--------------------------- MODULE AnalysisJobProofs ---------------------------
(* Theorems about the life of an analysis, for any number of runs: what holds   *)
(* of it wherever it is used.                                                   *)
EXTENDS AnalysisJob, TLAPS

\* The invariant leaves open what reports carry, so that it also holds where
\* reports carry whatever statistics have been counted.
JobCore == job \in [Runs -> Phase] /\ OneAnalysis /\ ReportInv

LEMMA CoreInit == JobInit => JobCore
<1> SUFFICES ASSUME JobInit PROVE JobCore
  OBVIOUS
<1> USE JobAssumption DEF JobInit, ReportOf
<1>1. job \in [Runs -> Phase]
  BY DEF Phase
<1>2. OneAnalysis /\ ReportInv
  BY DEF OneAnalysis, ReportInv, Active
<1>3. QED
  BY <1>1, <1>2 DEF JobCore

LEMMA CoreRun ==
    ASSUME JobCore, NEW r \in Runs, RunAnalysis(r)
    PROVE  JobCore'
<1> USE JobAssumption DEF RunAnalysis, Goto, ReportOf
<1>1. (job \in [Runs -> Phase])'
  BY DEF JobCore, Phase
<1>2. \A q \in Runs : ~Active(q)
  BY DEF JobCore, OneAnalysis
<1>3. OneAnalysis'
  BY <1>2 DEF JobCore, OneAnalysis, Active
<1>4. ReportInv'
  BY DEF JobCore, ReportInv
<1>5. QED
  BY <1>1, <1>3, <1>4 DEF JobCore

LEMMA CoreFinish ==
    ASSUME JobCore, NEW r \in Runs, NEW s, NEW b,
           s \notin {"pending", "running"}, Finish(r, s, b)
    PROVE  JobCore'
<1> USE JobAssumption DEF Finish, Goto, ReportOf
<1>1. (job \in [Runs -> Phase])'
  BY DEF JobCore, Phase
<1>2. \A q \in Runs : Active(q) => q = r
  BY DEF JobCore, OneAnalysis, Active
<1>3. OneAnalysis'
  BY <1>2 DEF JobCore, OneAnalysis, Active
<1>4. ReportInv'
  BY DEF JobCore, ReportInv
<1>5. QED
  BY <1>1, <1>3, <1>4 DEF JobCore

LEMMA CoreMoves ==
    ASSUME JobCore, NEW r \in Runs, TakeSnapshot(r) \/ Announce(r)
    PROVE  JobCore'
<1>1. CASE TakeSnapshot(r)
  BY <1>1 DEF TakeSnapshot, Goto, JobCore, Phase, OneAnalysis, Active, ReportInv
<1>2. CASE Announce(r)
  BY <1>2 DEF Announce, Goto, JobCore, Phase, OneAnalysis, Active, ReportInv
<1>3. QED
  BY <1>1, <1>2

LEMMA CoreStutters == ASSUME JobCore, UNCHANGED jobVars PROVE JobCore'
BY DEF jobVars, JobCore, OneAnalysis, Active, ReportInv

-----------------------------------------------------------------------------
(* The life of an analysis on its own.                                       *)

LEMMA JobTypeInit == JobInit => JobTypeOK
BY JobAssumption DEF JobInit, JobTypeOK, Report, ReportOf, Status, Phase

LEMMA JobTypeMoves ==
    ASSUME JobTypeOK, NEW r \in Runs, RunAnalysis(r) \/ TakeSnapshot(r) \/ Announce(r)
    PROVE  JobTypeOK'
BY DEF RunAnalysis, TakeSnapshot, Announce, JobTypeOK, Goto, Report, ReportOf, Phase, Status

LEMMA JobTypeFinish ==
    ASSUME JobTypeOK, NEW r \in Runs, NEW s \in Status, NEW b \in Bodies \cup {NoBody},
           Finish(r, s, b)
    PROVE  JobTypeOK'
BY DEF Finish, JobTypeOK, Goto, Report, ReportOf, Phase

LEMMA TypeNext ==
    ASSUME JobTypeOK, [JobNext]_jobVars
    PROVE  JobTypeOK'
<1>1. CASE UNCHANGED jobVars
  BY <1>1 DEF jobVars, JobTypeOK
<1>2. QED
  BY <1>1, JobTypeMoves, JobTypeFinish DEF JobNext

LEMMA CoreNext ==
    ASSUME JobCore, [JobNext]_jobVars
    PROVE  JobCore'
<1>1. ASSUME NEW r \in Runs, NEW s \in Status, NEW b \in Bodies \cup {NoBody},
             Outcome(s, b), Finish(r, s, b)
      PROVE  JobCore'
  <2>1. s \notin {"pending", "running"}
    BY <1>1 DEF Outcome
  <2>2. QED
    BY <1>1, <2>1, CoreFinish
<1>2. QED
  BY <1>1, CoreRun, CoreMoves, CoreStutters DEF JobNext

\* The life of an analysis, whatever runs it and reads its reports: reports are
\* well formed, one analysis runs at a time, and the report is that of the
\* newest one (RunAnalysis and doAnalysis).
THEOREM JobInductive == JobSpec => []JobInv
<1>1. JobTypeOK /\ [JobNext]_jobVars => JobTypeOK'
  BY TypeNext
<1>2. JobCore /\ [JobNext]_jobVars => JobCore'
  BY CoreNext
<1>3. JobTypeOK /\ JobCore => JobInv
  BY DEF JobInv, JobCore
<1>4. QED
  BY CoreInit, JobTypeInit, <1>1, <1>2, <1>3, PTL DEF JobSpec
================================================================================
