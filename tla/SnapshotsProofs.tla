---------------------------- MODULE SnapshotsProofs ----------------------------
(* Theorems about Snapshots, for any number of analyses, requests, names and    *)
(* entries.                                                                     *)
EXTENDS Snapshots, AnalysisJobProofs, SequenceTheorems

\* What a sequence of entries keeps when entries join and leave it.
LEMMA NewestType ==
    ASSUME NEW S, NEW q \in Seq(S), NEW n \in Nat
    PROVE  /\ Newest(n, q) \in Seq(S) /\ Len(Newest(n, q)) <= n
           /\ \A i \in 1..Len(Newest(n, q)) : \E j \in 1..Len(q) : Newest(n, q)[i] = q[j]
<1>1. Len(q) \in Nat
  OBVIOUS
<1>2. CASE Len(q) <= n
  BY <1>1, <1>2 DEF Newest
<1>3. CASE Len(q) > n
  <2> DEFINE s == SubSeq(q, Len(q) - n + 1, Len(q))
  <2>1. Newest(n, q) = s
    BY <1>1, <1>3 DEF Newest
  <2>2. s \in Seq(S) /\ Len(s) = n
    BY <1>1, <1>3
  <2>3. \A i \in 1..n : s[i] = q[i + (Len(q) - n)] /\ i + (Len(q) - n) \in 1..Len(q)
    BY <1>1, <1>3
  <2> HIDE DEF s
  <2>4. QED
    BY <1>1, <2>1, <2>2, <2>3
<1>4. QED
  BY <1>1, <1>2, <1>3

-----------------------------------------------------------------------------
(* Types.                                                                    *)

LEMMA Data ==
    /\ NoReport \in Report
    /\ NoSave \in Save
    /\ \A s \in Save : Holding(s) \in File
    /\ \A state \in {"absent", "empty", "garbled"} : Holdless(state) \in File
<1>1. NoReport \in Report
  BY JobAssumption DEF NoReport, ReportOf, Report, Status
<1>2. /\ (CHOOSE n \in Names : TRUE) \in Names
      /\ (CHOOSE n \in Lines : TRUE) \in Lines
      /\ 0 \in Seconds /\ <<>> \in Seq(Entries) /\ 1 \in 1..(Len(Parts) + 1)
  BY SnapshotAssumption DEF Seconds, Parts
<1>3. NoSave \in Save
  BY <1>1, <1>2 DEF NoSave, Save, SavePhase
<1>4. \A s \in Save : ContentOf(s) \in Content
  BY <1>1 DEF ContentOf, Content, Save
<1>5. NoContent \in Content
  BY <1>3, <1>4 DEF NoContent
<1>6. QED
  BY <1>1, <1>3, <1>4, <1>5 DEF Holding, Holdless, File

LEMMA SnapshotTypeInit == Init => TypeOK
<1> SUFFICES ASSUME Init PROVE TypeOK
  OBVIOUS
<1>1. JobTypeOK
  BY JobTypeInit DEF Init
<1>2. /\ inbox \in Seq(Entries) /\ Len(inbox) <= InboxCap
      /\ buffer \in Seq(Entries) /\ Len(buffer) <= Cap
  BY SnapshotAssumption DEF Init
<1>3. save \in [Requests -> Save] /\ disk \in [FileName -> File]
  BY Data DEF Init
<1>4. second \in Seconds /\ others \in 0..MaxOthers /\ restarts \in 0..MaxRestarts
  BY SnapshotAssumption DEF Init, Seconds
<1>5. QED
  BY <1>1, <1>2, <1>3, <1>4 DEF Init, TypeOK

\* What an entry that is logged does to the inbox.
LEMMA LogType ==
    ASSUME TypeOK, NEW e \in Entries, Log(e)
    PROVE  /\ inbox' \in Seq(Entries) /\ Len(inbox') <= InboxCap
           /\ inbox' = inbox \/ inbox' = Append(inbox, e)
<1>1. inbox \in Seq(Entries) /\ Len(inbox) \in Nat /\ Len(inbox) <= InboxCap
  BY DEF TypeOK
<1>2. CASE Len(inbox) < InboxCap
  <2>1. inbox' = Append(inbox, e) /\ Append(inbox, e) \in Seq(Entries)
        /\ Len(Append(inbox, e)) = Len(inbox) + 1
    BY <1>1, <1>2 DEF Log
  <2>2. QED
    BY <1>1, <1>2, <2>1, SnapshotAssumption
<1>3. CASE ~(Len(inbox) < InboxCap)
  BY <1>1, <1>3 DEF Log
<1>4. QED
  BY <1>2, <1>3

LEMMA WatchType ==
    ASSUME TypeOK, Watch
    PROVE  /\ inbox' \in Seq(Entries) /\ Len(inbox') <= InboxCap
           /\ buffer' \in Seq(Entries) /\ Len(buffer') <= Cap
           /\ \A i \in 1..Len(inbox') : \E j \in 1..Len(inbox) : inbox'[i] = inbox[j]
           /\ \A i \in 1..Len(buffer') : \/ \E j \in 1..Len(buffer) : buffer'[i] = buffer[j]
                                         \/ \E j \in 1..Len(inbox) : buffer'[i] = inbox[j]
<1>1. /\ inbox \in Seq(Entries) /\ inbox # <<>> /\ Len(inbox) <= InboxCap
      /\ buffer \in Seq(Entries)
      /\ inbox' = Tail(inbox) /\ buffer' = Newest(Cap, Append(buffer, Head(inbox)))
  BY DEF TypeOK, Watch, Kept
<1>2. /\ Head(inbox) \in Entries /\ Tail(inbox) \in Seq(Entries)
      /\ Len(Tail(inbox)) = Len(inbox) - 1 /\ Len(inbox) \in Nat \ {0}
      /\ Head(inbox) = inbox[1]
      /\ \A i \in 1..Len(Tail(inbox)) : Tail(inbox)[i] = inbox[i + 1]
  BY <1>1
<1>3. inbox' \in Seq(Entries) /\ Len(inbox') <= InboxCap
      /\ \A i \in 1..Len(inbox') : \E j \in 1..Len(inbox) : inbox'[i] = inbox[j]
  BY <1>1, <1>2, SnapshotAssumption
<1> DEFINE longer == Append(buffer, Head(inbox))
<1>4. /\ longer \in Seq(Entries)
      /\ \A j \in 1..Len(longer) : longer[j] = Head(inbox)
                                   \/ \E k \in 1..Len(buffer) : longer[j] = buffer[k]
  BY <1>1, <1>2
<1> HIDE DEF longer
<1>5. buffer' = Newest(Cap, longer)
  BY <1>1 DEF longer
<1>6. /\ buffer' \in Seq(Entries) /\ Len(buffer') <= Cap
      /\ \A i \in 1..Len(buffer') : \E j \in 1..Len(longer) : buffer'[i] = longer[j]
  BY <1>4, <1>5, NewestType, SnapshotAssumption
<1>7. \A i \in 1..Len(buffer') : \/ \E j \in 1..Len(buffer) : buffer'[i] = buffer[j]
                                 \/ \E j \in 1..Len(inbox) : buffer'[i] = inbox[j]
  BY <1>2, <1>4, <1>6
<1>8. QED
  BY <1>3, <1>6, <1>7

-----------------------------------------------------------------------------
(* Where a request is says what it has taken and whether it has a file.      *)

Placed(s) ==
    /\ s.phase = "taking" => s.part \in {1, 2}
    /\ s.phase \in {"none", "taking", "taken"} => s.file = NoFile
    /\ s.phase \in {"open", "write", "saved"} => s.file # NoFile
    /\ s.file # NoFile => s.file = FileOf(s.name, s.created)

PlaceInv == \A q \in Requests : Placed(save[q])

LEMMA FileNamed ==
    \A name \in Names, created \in Seconds :
        FileOf(name, created) \in FileName /\ FileOf(name, created) # NoFile
<1> SUFFICES ASSUME NEW name \in Names, NEW created \in Seconds
             PROVE  FileOf(name, created) \in FileName /\ FileOf(name, created) # NoFile
  OBVIOUS
<1>1. Safe[name] \in Names
  BY SnapshotAssumption
<1>2. <<created, Safe[name]>> # <<>>
  <2>1. Len(<<created, Safe[name]>>) = 2 /\ Len(<<>>) = 0
    OBVIOUS
  <2>2. QED
    BY <2>1
<1>3. QED
  BY <1>1, <1>2 DEF FileOf, FileName, NoFile

\* What the steps of a request do to it.
LEMMA TakeStep ==
    ASSUME TypeOK, PlaceInv, NEW q \in Requests, TakePart(q)
    PROVE  /\ save' \in [Requests -> Save] /\ save[q].phase = "taking"
           /\ \A o \in Requests \ {q} : save'[o] = save[o]
           /\ save'[q].file = NoFile
           /\ \/ /\ save[q].part = 1 /\ save'[q].part = 2 /\ save'[q].phase = "taking"
                 /\ save'[q].entries = Newest(save[q].lines, buffer)
              \/ /\ save[q].part = 2 /\ save'[q].part = 3 /\ save'[q].phase = "taken"
                 /\ save'[q].entries = save[q].entries /\ save'[q].report = report
<1> DEFINE s == save[q]
<1>1. /\ s \in Save /\ s.phase = "taking" /\ s.part \in {1, 2} /\ s.file = NoFile
      /\ save \in [Requests -> Save]
      /\ report \in Report /\ buffer \in Seq(Entries)
  BY DEF TakePart, TypeOK, PlaceInv, Placed, JobTypeOK
<1>2. /\ Len(Parts) = 2 /\ Parts[1] = "log" /\ Parts[2] = "report"
      /\ 2 \in 1..(Len(Parts) + 1) /\ 3 \in 1..(Len(Parts) + 1)
  BY DEF Parts
<1>3. Newest(s.lines, buffer) \in Seq(Entries)
  <2>1. s.lines \in Nat
    BY <1>1, SnapshotAssumption DEF Save
  <2>2. QED
    BY <1>1, <2>1, NewestType
<1>4. CASE s.part = 1
  <2> DEFINE t == [s EXCEPT !.phase = "taking", !.part = 2, !.entries = Newest(s.lines, buffer)]
  <2>1. save' = [save EXCEPT ![q] = t]
    BY <1>1, <1>2, <1>4 DEF TakePart
  <2>2. /\ t \in Save /\ t.part = 2 /\ t.phase = "taking" /\ t.file = NoFile
        /\ t.entries = Newest(s.lines, buffer)
    BY <1>1, <1>2, <1>3 DEF Save, SavePhase
  <2> HIDE DEF t
  <2>3. QED
    BY <1>1, <1>4, <2>1, <2>2
<1>5. CASE s.part = 2
  <2> DEFINE t == [s EXCEPT !.phase = "taken", !.part = 3, !.report = report]
  <2>1. save' = [save EXCEPT ![q] = t]
    <3>1. s.part = Len(Parts) /\ Parts[s.part] # "log" /\ s.part + 1 = 3
      BY <1>2, <1>5
    <3>2. save' = [save EXCEPT ![q] = [s EXCEPT !.phase = "taken", !.part = @ + 1,
                                                !.report = report]]
      BY <3>1 DEF TakePart
    <3>3. QED
      BY <3>1, <3>2
  <2>2. /\ t \in Save /\ t.part = 3 /\ t.phase = "taken" /\ t.file = NoFile
        /\ t.entries = s.entries /\ t.report = report
    BY <1>1, <1>2 DEF Save, SavePhase
  <2> HIDE DEF t
  <2>3. QED
    BY <1>1, <1>5, <2>1, <2>2
<1>6. QED
  BY <1>1, <1>4, <1>5

\* What a request has taken and how its file is named.
Taken(s) == <<s.part, s.entries, s.report>>
Stamped(s) == <<s.name, s.created, s.file>>

LEMMA BeginStep ==
    ASSUME TypeOK, NEW q \in Requests, NEW name \in Names, NEW lines \in Lines,
           SaveSnapshot(q, name, lines)
    PROVE  /\ save' \in [Requests -> Save] /\ save[q].phase = "none"
           /\ \A o \in Requests \ {q} : save'[o] = save[o]
           /\ save'[q].phase = "taking" /\ save'[q].part = 1 /\ save'[q].file = NoFile
<1> DEFINE t == [NoSave EXCEPT !.phase = "taking", !.name = name, !.lines = lines]
<1>1. save' = [save EXCEPT ![q] = t] /\ save[q].phase = "none"
  BY DEF SaveSnapshot
<1>2. t \in Save
  BY Data DEF Save, SavePhase
<1>3. t.phase = "taking" /\ t.part = 1 /\ t.file = NoFile
  BY DEF NoSave
<1> HIDE DEF t
<1>4. QED
  BY <1>1, <1>2, <1>3 DEF TypeOK

LEMMA StampStep ==
    ASSUME TypeOK, PlaceInv, NEW q \in Requests, Stamp(q)
    PROVE  /\ save' \in [Requests -> Save] /\ save[q].phase = "taken"
           /\ \A o \in Requests \ {q} : save'[o] = save[o]
           /\ save'[q].phase = "open" /\ Taken(save'[q]) = Taken(save[q])
           /\ save'[q].file = FileOf(save'[q].name, save'[q].created)
           /\ save'[q].file \in FileName \ {NoFile} /\ save[q].file = NoFile
<1> DEFINE s == save[q]
           t == [s EXCEPT !.phase = "open", !.created = second, !.file = FileOf(s.name, second)]
<1>1. s \in Save /\ s.phase = "taken" /\ s.file = NoFile /\ second \in Seconds
  BY DEF Stamp, TypeOK, PlaceInv, Placed
<1>2. save' = [save EXCEPT ![q] = t]
  BY DEF Stamp
<1>3. FileOf(s.name, second) \in FileName \ {NoFile}
  BY <1>1, FileNamed DEF Save
<1>4. /\ t \in Save /\ t.phase = "open" /\ t.name = s.name /\ t.created = second
      /\ t.file = FileOf(s.name, second)
      /\ t.part = s.part /\ t.entries = s.entries /\ t.report = s.report
  BY <1>1, <1>3 DEF Save, SavePhase
<1> HIDE DEF t
<1>5. QED
  BY <1>1, <1>2, <1>3, <1>4 DEF TypeOK, Taken

LEMMA FileStep ==
    ASSUME TypeOK, PlaceInv, NEW q \in Requests, OpenFile(q) \/ WriteFile(q) \/ WriteFails(q)
    PROVE  /\ save' \in [Requests -> Save]
           /\ \A o \in Requests \ {q} : save'[o] = save[o]
           /\ Taken(save'[q]) = Taken(save[q]) /\ Stamped(save'[q]) = Stamped(save[q])
           /\ save[q].phase \in {"open", "write"} /\ save[q].file \in FileName \ {NoFile}
           /\ \/ save[q].phase = "open" /\ save'[q].phase = "write" /\ save'[q].linked
              \/ save[q].phase = "write" /\ save'[q].phase = "saved"
                 /\ save'[q].linked = save[q].linked
              \/ save'[q].phase = "failed"
           /\ disk' \in [FileName -> File]
           /\ \A f \in FileName \ {save[q].file} : disk'[f] = disk[f]
<1> DEFINE s == save[q]
<1>1. /\ s \in Save /\ s.phase \in {"open", "write"} /\ s.file \in FileName \ {NoFile}
      /\ disk \in [FileName -> File] /\ save \in [Requests -> Save]
  BY DEF OpenFile, WriteFile, WriteFails, TypeOK, PlaceInv, Placed, Save
<1>2. CASE OpenFile(q)
  <2> DEFINE t == [s EXCEPT !.phase = "write", !.linked = TRUE]
  <2>1. save' = [save EXCEPT ![q] = t] /\ s.phase = "open"
        /\ disk' = [disk EXCEPT ![s.file] = Holdless("empty")]
    BY <1>2 DEF OpenFile
  <2>2. /\ t \in Save /\ t.phase = "write" /\ t.linked /\ Taken(t) = Taken(s)
        /\ Stamped(t) = Stamped(s)
    BY <1>1 DEF Save, SavePhase, Taken, Stamped
  <2> HIDE DEF t
  <2>3. QED
    BY <1>1, <2>1, <2>2, Data
<1>3. CASE WriteFile(q)
  <2> DEFINE t == [s EXCEPT !.phase = "saved"]
  <2>1. save' = [save EXCEPT ![q] = t] /\ s.phase = "write"
        /\ \/ disk' = disk
           \/ disk' = [disk EXCEPT ![s.file] = Holding(s)]
           \/ disk' = [disk EXCEPT ![s.file] = Holdless("garbled")]
    BY <1>3 DEF WriteFile
  <2>2. /\ t \in Save /\ t.phase = "saved" /\ t.linked = s.linked /\ Taken(t) = Taken(s)
        /\ Stamped(t) = Stamped(s)
    BY <1>1 DEF Save, SavePhase, Taken, Stamped
  <2> HIDE DEF t
  <2>3. QED
    BY <1>1, <2>1, <2>2, Data
<1>4. CASE WriteFails(q)
  <2> DEFINE t == [s EXCEPT !.phase = "failed"]
  <2>1. save' = [save EXCEPT ![q] = t]
        /\ (disk' = disk \/ disk' = [disk EXCEPT ![s.file] = Holdless("garbled")])
    BY <1>4 DEF WriteFails
  <2>2. /\ t \in Save /\ t.phase = "failed" /\ Taken(t) = Taken(s)
        /\ Stamped(t) = Stamped(s)
    BY <1>1 DEF Save, SavePhase, Taken, Stamped
  <2> HIDE DEF t
  <2>3. QED
    BY <1>1, <2>1, <2>2, Data
<1>5. QED
  BY <1>2, <1>3, <1>4

LEMMA DeleteStep ==
    ASSUME TypeOK, NEW f \in FileName, Delete(f)
    PROVE  /\ save' \in [Requests -> Save] /\ disk' \in [FileName -> File]
           /\ disk' = [disk EXCEPT ![f] = Holdless("absent")]
           /\ \A q \in Requests : /\ Taken(save'[q]) = Taken(save[q])
                                  /\ Stamped(save'[q]) = Stamped(save[q])
                                  /\ save'[q].phase = save[q].phase
                                  /\ save[q].file # f => save'[q] = save[q]
<1>1. /\ save' = [q \in Requests |-> IF save[q].file = f THEN [save[q] EXCEPT !.linked = FALSE]
                                     ELSE save[q]]
      /\ disk' = [disk EXCEPT ![f] = Holdless("absent")]
  BY DEF Delete
<1>2. ASSUME NEW q \in Requests
      PROVE  /\ save'[q] \in Save
             /\ Taken(save'[q]) = Taken(save[q]) /\ Stamped(save'[q]) = Stamped(save[q])
             /\ save'[q].phase = save[q].phase
             /\ save[q].file # f => save'[q] = save[q]
  <2>1. save[q] \in Save
    BY DEF TypeOK
  <2>2. CASE save[q].file = f
    <3>1. save'[q] = [save[q] EXCEPT !.linked = FALSE]
      BY <1>1, <2>2
    <3>2. QED
      BY <2>1, <2>2, <3>1 DEF Save, Taken, Stamped
  <2>3. CASE save[q].file # f
    BY <1>1, <2>1, <2>3
  <2>4. QED
    BY <2>2, <2>3
<1>3. save' \in [Requests -> Save]
  BY <1>1, <1>2
<1>4. disk' \in [FileName -> File]
  BY <1>1, Data DEF TypeOK
<1>5. QED
  BY <1>1, <1>2, <1>3, <1>4

LEMMA RestartStep ==
    ASSUME TypeOK, Restart
    PROVE  /\ save' \in [Requests -> Save]
           /\ \A q \in Requests : /\ Taken(save'[q]) = Taken(save[q])
                                  /\ Stamped(save'[q]) = Stamped(save[q])
                                  /\ IF save[q].phase \in {"none", "saved"}
                                     THEN save'[q] = save[q] ELSE save'[q].phase = "failed"
<1>1. save' = [q \in Requests |-> IF save[q].phase \in {"none", "saved"} THEN save[q]
                                  ELSE [save[q] EXCEPT !.phase = "failed"]]
  BY DEF Restart
<1>2. ASSUME NEW q \in Requests
      PROVE  /\ save'[q] \in Save
             /\ Taken(save'[q]) = Taken(save[q]) /\ Stamped(save'[q]) = Stamped(save[q])
             /\ IF save[q].phase \in {"none", "saved"}
                THEN save'[q] = save[q] ELSE save'[q].phase = "failed"
  <2>1. save[q] \in Save
    BY DEF TypeOK
  <2>2. CASE save[q].phase \in {"none", "saved"}
    BY <1>1, <2>1, <2>2
  <2>3. CASE save[q].phase \notin {"none", "saved"}
    <3>1. save'[q] = [save[q] EXCEPT !.phase = "failed"]
      BY <1>1, <2>3
    <3>2. QED
      BY <2>1, <2>3, <3>1 DEF Save, SavePhase, Taken, Stamped
  <2>4. QED
    BY <2>2, <2>3
<1>3. QED
  BY <1>1, <1>2
\* What analyses do, and what a step that leaves a part of the state alone leaves alone.
LEMMA JobSteps ==
    ASSUME NEW r \in Runs, JobTypeOK, Start(r) \/ Analyse(r) \/ Tell(r)
    PROVE  JobTypeOK' /\ UNCHANGED <<second, buffer, save, fileVars, listed, restarts, others>>
<1>1. CASE Start(r)
  BY <1>1, JobTypeMoves DEF Start, logVars
<1>2. CASE Analyse(r)
  BY <1>2, JobTypeMoves, JobTypeFinish DEF Analyse, logVars
<1>3. CASE Tell(r)
  BY <1>3, JobTypeMoves DEF Tell
<1>4. QED
  BY <1>1, <1>2, <1>3

LEMMA TypeStep == TypeOK /\ PlaceInv /\ [Next]_vars => TypeOK'
<1> SUFFICES ASSUME TypeOK, PlaceInv, [Next]_vars PROVE TypeOK'
  OBVIOUS
<1> USE DEF TypeOK
<1>1. CASE Tick
  BY <1>1, SnapshotAssumption DEF Tick, Seconds, jobVars, logVars, fileVars, JobTypeOK
<1>2. CASE LogOther
  <2>1. inbox' \in Seq(Entries) /\ Len(inbox') <= InboxCap
    BY <1>2, LogType DEF LogOther, Entries
  <2>2. others' \in 0..MaxOthers
    BY <1>2, SnapshotAssumption DEF LogOther
  <2>3. QED
    BY <1>2, <2>1, <2>2 DEF LogOther, jobVars, fileVars, JobTypeOK
<1>3. ASSUME NEW r \in Runs, Start(r) \/ Analyse(r) \/ Tell(r) PROVE TypeOK'
  <2>1. inbox' \in Seq(Entries) /\ Len(inbox') <= InboxCap
    <3>1. CASE Tell(r)
      BY <3>1, LogType DEF Tell, Entries
    <3>2. CASE Start(r) \/ Analyse(r)
      BY <3>2 DEF Start, Analyse, logVars
    <3>3. QED
      BY <1>3, <3>1, <3>2
  <2>2. QED
    BY <1>3, <2>1, JobSteps DEF fileVars
<1>4. CASE Watch
  <2>1. JobTypeOK'
    BY <1>4 DEF Watch, jobVars, JobTypeOK
  <2>2. QED
    BY <1>4, <2>1, WatchType DEF Watch, fileVars
<1>5. ASSUME NEW q \in Requests, NEW name \in Names, NEW lines \in Lines,
             SaveSnapshot(q, name, lines)
      PROVE TypeOK'
  <2>1. save' \in [Requests -> Save]
    BY <1>5, BeginStep
  <2>2. QED
    BY <1>5, <2>1 DEF SaveSnapshot, jobVars, logVars, fileVars, JobTypeOK
<1>6. ASSUME NEW q \in Requests, TakePart(q) \/ Stamp(q) PROVE TypeOK'
  <2>1. save' \in [Requests -> Save]
    BY <1>6, TakeStep, StampStep
  <2>2. QED
    BY <1>6, <2>1 DEF TakePart, Stamp, jobVars, logVars, fileVars, JobTypeOK
<1>7. ASSUME NEW q \in Requests, OpenFile(q) \/ WriteFile(q) \/ WriteFails(q) PROVE TypeOK'
  <2>1. save' \in [Requests -> Save] /\ disk' \in [FileName -> File]
    BY <1>7, FileStep
  <2>2. QED
    BY <1>7, <2>1 DEF OpenFile, WriteFile, WriteFails, jobVars, logVars, JobTypeOK
<1>8. ASSUME NEW f \in FileName, List(f) PROVE TypeOK'
  BY <1>8 DEF List, jobVars, logVars, fileVars, JobTypeOK
<1>9. ASSUME NEW f \in FileName, Delete(f) PROVE TypeOK'
  <2>1. save' \in [Requests -> Save] /\ disk' \in [FileName -> File]
    BY <1>9, DeleteStep
  <2>2. QED
    BY <1>9, <2>1 DEF Delete, jobVars, logVars, JobTypeOK
<1>10. CASE Restart
  <2>1. save' \in [Requests -> Save]
    BY <1>10, RestartStep
  <2>2. JobTypeOK'
    BY <1>10, Data DEF Restart, JobTypeOK, Phase
  <2>3. inbox' \in Seq(Entries) /\ Len(inbox') <= InboxCap
        /\ buffer' \in Seq(Entries) /\ Len(buffer') <= Cap
    BY <1>10, SnapshotAssumption DEF Restart
  <2>4. restarts' \in 0..MaxRestarts
    BY <1>10, SnapshotAssumption DEF Restart
  <2>5. QED
    BY <1>10, <2>1, <2>2, <2>3, <2>4 DEF Restart, fileVars
<1>11. CASE UNCHANGED vars
  BY <1>11 DEF vars, jobVars, logVars, fileVars, JobTypeOK
<1>12. QED
  BY <1>1, <1>2, <1>3, <1>4, <1>5, <1>6, <1>7, <1>8, <1>9, <1>10, <1>11 DEF Next

\* The steps of requests are the only ones that touch them, and of those only three
\* touch the files.
LEMMA Elsewhere ==
    ASSUME \/ Tick \/ LogOther \/ Watch \/ UNCHANGED vars
           \/ \E r \in Runs : Start(r) \/ Analyse(r) \/ Tell(r)
           \/ \E f \in FileName : List(f)
    PROVE  UNCHANGED <<save, disk, deleted>>
BY DEF Tick, LogOther, Watch, Start, Analyse, Tell, List, vars, fileVars

LEMMA PlaceStep == TypeOK /\ PlaceInv /\ [Next]_vars => PlaceInv'
<1> SUFFICES ASSUME TypeOK, PlaceInv, [Next]_vars PROVE PlaceInv'
  OBVIOUS
<1>1. ASSUME NEW q \in Requests, NEW name \in Names, NEW lines \in Lines,
             SaveSnapshot(q, name, lines)
      PROVE PlaceInv'
  BY <1>1, BeginStep DEF PlaceInv, Placed
<1>2. ASSUME NEW q \in Requests, TakePart(q) PROVE PlaceInv'
  BY <1>2, TakeStep DEF PlaceInv, Placed
<1>3. ASSUME NEW q \in Requests, Stamp(q) PROVE PlaceInv'
  BY <1>3, StampStep DEF PlaceInv, Placed
<1>4. ASSUME NEW q \in Requests, OpenFile(q) \/ WriteFile(q) \/ WriteFails(q) PROVE PlaceInv'
  BY <1>4, FileStep DEF PlaceInv, Placed, Stamped
<1>5. ASSUME NEW f \in FileName, Delete(f) PROVE PlaceInv'
  BY <1>5, DeleteStep DEF PlaceInv, Placed, Stamped, Taken
<1>6. CASE Restart
  BY <1>6, RestartStep DEF PlaceInv, Placed, Stamped
<1>7. CASE UNCHANGED save
  BY <1>7 DEF PlaceInv
<1>8. QED
  BY <1>1, <1>2, <1>3, <1>4, <1>5, <1>6, <1>7, Elsewhere DEF Next

LEMMA TypePlace == Spec => [](TypeOK /\ PlaceInv)
<1>1. Init => PlaceInv
  BY DEF Init, PlaceInv, Placed, NoSave
<1>2. QED
  BY SnapshotTypeInit, <1>1, TypeStep, PlaceStep, PTL DEF Spec

\* The log buffer never holds more than its 10,000 entries, and what requests take and
\* files hold has its type.
THEOREM TypeCorrect == Spec => []TypeOK
BY TypePlace, PTL

-----------------------------------------------------------------------------
(* The files.  A request that has opened its file is the only one to write     *)
(* it, unless another was stamped with the same second and safe name: what the  *)
(* file then lacks is only what the request has not written yet.               *)

Alone(q) == \A other \in Requests \ {q} : ~Collide(q, other)

FileOk(q) ==
    Alone(q) /\ save[q].file \notin deleted =>
        /\ save[q].phase = "write" => save[q].linked /\ disk[save[q].file].state = "empty"
        /\ save[q].phase = "saved" => disk[save[q].file] = Holding(save[q])

FileInv == \A q \in Requests : FileOk(q)

\* A file that could be read was written by a request that saved it.
WrittenInv ==
    \A f \in FileName : f \in listed \/ disk[f].state = "whole" =>
        \E q \in Requests : save[q].file = f /\ save[q].phase = "saved"

\* Two requests have the same file only if they collide.
LEMMA SameFile ==
    ASSUME TypeOK, PlaceInv, NEW q \in Requests, NEW other \in Requests,
           save[q].file # NoFile, save[other].file # NoFile
    PROVE  Collide(q, other) <=> save[q].file = save[other].file
<1>1. /\ save[q].file = <<save[q].created, Safe[save[q].name]>>
      /\ save[other].file = <<save[other].created, Safe[save[other].name]>>
  BY DEF PlaceInv, Placed, FileOf
<1>2. QED
  BY <1>1 DEF Collide

\* Requests stay collided.
LEMMA CollidedStay ==
    ASSUME NEW q \in Requests, Alone(q)',
           \A o \in Requests : Stamped(save'[o]) = Stamped(save[o]) \/ save[o].file = NoFile
    PROVE  Alone(q)
BY DEF Alone, Collide, Stamped

LEMMA FileStampStep ==
    ASSUME TypeOK, PlaceInv, FileInv, PlaceInv', NEW q \in Requests, Stamp(q)
    PROVE  FileInv'
<1> SUFFICES ASSUME NEW o \in Requests PROVE FileOk(o)'
  BY DEF FileInv
<1>1. UNCHANGED <<disk, deleted>>
  BY DEF Stamp, fileVars
<1>2. CASE o = q
  BY <1>2, StampStep DEF FileOk
<1>3. CASE o # q
  <2>1. save'[o] = save[o]
    BY <1>3, StampStep
  <2>2. Alone(o)' => Alone(o)
    BY StampStep, CollidedStay DEF Stamped
  <2>3. QED
    BY <1>1, <2>1, <2>2 DEF FileOk, FileInv
<1>4. QED
  BY <1>2, <1>3
\* A request that opens or writes its file leaves those alone that are not collided
\* with it.
LEMMA FileOthers ==
    ASSUME TypeOK, PlaceInv, FileInv, NEW q \in Requests,
           OpenFile(q) \/ WriteFile(q) \/ WriteFails(q),
           NEW o \in Requests \ {q}
    PROVE  FileOk(o)'
<1>1. /\ save'[o] = save[o] /\ deleted' = deleted
      /\ save[q].file # NoFile /\ \A f \in FileName \ {save[q].file} : disk'[f] = disk[f]
  BY FileStep DEF OpenFile, WriteFile, WriteFails
<1>2. SUFFICES ASSUME Alone(o)', save[o].file \notin deleted, save[o].phase \in {"write", "saved"}
               PROVE  FileOk(o)'
  BY <1>1 DEF FileOk
<1>3. Alone(o)
  BY <1>2, FileStep, CollidedStay
<1>4. save[o].file # NoFile /\ save[o].file \in FileName
  BY <1>2 DEF PlaceInv, Placed, TypeOK, Save
<1>5. save[o].file # save[q].file
  BY <1>1, <1>3, <1>4, SameFile DEF Alone
<1>6. disk'[save[o].file] = disk[save[o].file]
  BY <1>1, <1>4, <1>5
<1>7. QED
  BY <1>1, <1>3, <1>6 DEF FileOk, FileInv

LEMMA FileOwn ==
    ASSUME TypeOK, PlaceInv, FileInv, NEW q \in Requests,
           OpenFile(q) \/ WriteFile(q) \/ WriteFails(q)
    PROVE  FileOk(q)'
<1>1. /\ deleted' = deleted /\ save'[q].file = save[q].file /\ save[q].file \in FileName
      /\ disk \in [FileName -> File]
  BY FileStep DEF OpenFile, WriteFile, WriteFails, Stamped, TypeOK
<1>2. Alone(q)' => Alone(q)
  BY FileStep, CollidedStay
<1>3. CASE OpenFile(q)
  <2>1. save'[q].phase = "write" /\ save'[q].linked
    <3>1. save[q] \in Save /\ save \in [Requests -> Save]
      BY DEF TypeOK
    <3>2. save' = [save EXCEPT ![q].phase = "write", ![q].linked = TRUE]
      BY <1>3 DEF OpenFile
    <3>3. QED
      BY <3>1, <3>2 DEF Save
  <2>2. disk'[save[q].file].state = "empty"
    BY <1>1, <1>3 DEF OpenFile, Holdless
  <2>3. QED
    BY <1>1, <2>1, <2>2 DEF FileOk
<1>4. CASE WriteFile(q)
  <2>1. save[q].phase = "write" /\ save[q] \in Save
    BY <1>4 DEF WriteFile, TypeOK
  <2>2. save' = [save EXCEPT ![q].phase = "saved"]
    BY <1>4 DEF WriteFile
  <2>3. save'[q] = [save[q] EXCEPT !.phase = "saved"]
    BY <2>2 DEF TypeOK
  <2>4. save'[q].phase = "saved" /\ Holding(save'[q]) = Holding(save[q])
    BY <2>1, <2>3 DEF Save, Holding, ContentOf
  <2>5. ASSUME Alone(q)', save[q].file \notin deleted
        PROVE  disk'[save[q].file] = Holding(save[q])
    <3>1. save[q].linked /\ disk[save[q].file].state = "empty"
      BY <1>2, <2>1, <2>5 DEF FileInv, FileOk
    <3>2. disk' = [disk EXCEPT ![save[q].file] = Holding(save[q])]
      BY <1>4, <3>1 DEF WriteFile
    <3>3. QED
      BY <1>1, <3>2
  <2>6. QED
    BY <1>1, <2>4, <2>5 DEF FileOk
<1>5. CASE WriteFails(q)
  <2>1. save'[q].phase = "failed"
    BY <1>5 DEF WriteFails, TypeOK, Save
  <2>2. QED
    BY <2>1 DEF FileOk
<1>6. QED
  BY <1>3, <1>4, <1>5

LEMMA FileDelete ==
    ASSUME TypeOK, PlaceInv, FileInv, NEW f \in FileName, Delete(f)
    PROVE  FileInv'
<1> SUFFICES ASSUME NEW o \in Requests PROVE FileOk(o)'
  BY DEF FileInv
<1>1. deleted' = deleted \cup {f} /\ save'[o].file = save[o].file
  BY DeleteStep DEF Delete, Stamped
<1>2. CASE save[o].file = f
  BY <1>1, <1>2 DEF FileOk
<1>3. CASE save[o].file # f
  <2>1. save'[o] = save[o]
    BY <1>3, DeleteStep
  <2>2. Alone(o)' => Alone(o)
    BY DeleteStep, CollidedStay
  <2>3. save[o].phase \in {"write", "saved"} => disk'[save[o].file] = disk[save[o].file]
    <3>1. save[o].phase \in {"write", "saved"} => save[o].file \in FileName
      BY DEF PlaceInv, Placed, TypeOK, Save
    <3>2. QED
      BY <1>3, <3>1, DeleteStep DEF TypeOK
  <2>4. QED
    BY <1>1, <2>1, <2>2, <2>3 DEF FileOk, FileInv
<1>4. QED
  BY <1>2, <1>3

LEMMA FilesStep == TypeOK /\ PlaceInv /\ FileInv /\ [Next]_vars => FileInv'
<1> SUFFICES ASSUME TypeOK, PlaceInv, FileInv, [Next]_vars PROVE FileInv'
  OBVIOUS
<1>1. ASSUME NEW q \in Requests,
             TakePart(q) \/ \E name \in Names, lines \in Lines : SaveSnapshot(q, name, lines)
      PROVE FileInv'
  <2>1. UNCHANGED <<disk, deleted>>
    BY <1>1 DEF TakePart, SaveSnapshot, fileVars
  <2>2. /\ save'[q].phase \in {"taking", "taken"} /\ save[q].file = NoFile
        /\ \A o \in Requests \ {q} : save'[o] = save[o]
    BY <1>1, TakeStep, BeginStep DEF PlaceInv, Placed
  <2>3. ASSUME NEW o \in Requests PROVE Alone(o)' => Alone(o)
    BY <2>2, CollidedStay DEF Stamped
  <2>4. QED
    BY <2>1, <2>2, <2>3 DEF FileInv, FileOk
<1>2. ASSUME NEW q \in Requests, Stamp(q) PROVE FileInv'
  BY <1>2, PlaceStep, FileStampStep DEF Next
<1>3. ASSUME NEW q \in Requests, OpenFile(q) \/ WriteFile(q) \/ WriteFails(q) PROVE FileInv'
  BY <1>3, FileOthers, FileOwn DEF FileInv
<1>4. ASSUME NEW f \in FileName, Delete(f) PROVE FileInv'
  BY <1>4, FileDelete
<1>5. CASE Restart
  <2>1. UNCHANGED <<disk, deleted>>
    BY <1>5 DEF Restart, fileVars
  <2>2. ASSUME NEW o \in Requests PROVE Alone(o)' => Alone(o)
    BY <1>5, RestartStep, CollidedStay
  <2>3. QED
    BY <1>5, <2>1, <2>2, RestartStep DEF FileInv, FileOk
<1>6. CASE UNCHANGED <<save, disk, deleted>>
  BY <1>6 DEF FileInv, FileOk, Alone, Collide
<1>7. QED
  BY <1>1, <1>2, <1>3, <1>4, <1>5, <1>6, Elsewhere DEF Next

\* A snapshot that was saved stays in its file as it was taken, whatever other requests,
\* failures and restarts come, until it is deleted or a request of the same second and
\* safe name takes its file.
THEOREM SavedStays == Spec => []SavedIsKept
<1>1. Init => FileInv
  BY DEF Init, FileInv, FileOk, NoSave
<1>2. FileInv => SavedIsKept
  BY DEF FileInv, FileOk, Alone, SavedIsKept
<1>3. QED
  BY TypePlace, <1>1, FilesStep, <1>2, PTL DEF Spec

-----------------------------------------------------------------------------
(* The list of snapshots.                                                      *)

LEMMA WrittenStep == TypeOK /\ PlaceInv /\ WrittenInv /\ [Next]_vars => WrittenInv'
<1> SUFFICES ASSUME TypeOK, PlaceInv, WrittenInv, [Next]_vars PROVE WrittenInv'
  OBVIOUS
\* A request that has saved its snapshot has saved it for good.
<1>1. \A q \in Requests : save[q].phase = "saved" =>
          save'[q].phase = "saved" /\ save'[q].file = save[q].file
  <2>1. ASSUME NEW q \in Requests,
               \/ \E name \in Names, lines \in Lines : SaveSnapshot(q, name, lines)
               \/ TakePart(q) \/ Stamp(q) \/ OpenFile(q) \/ WriteFile(q) \/ WriteFails(q)
        PROVE  save[q].phase # "saved" /\ \A o \in Requests \ {q} : save'[o] = save[o]
    BY <2>1, BeginStep, TakeStep, StampStep, FileStep
  <2>2. ASSUME Restart \/ \E f \in FileName : Delete(f), NEW q \in Requests,
               save[q].phase = "saved"
        PROVE  save'[q].phase = "saved" /\ Stamped(save'[q]) = Stamped(save[q])
    BY <2>2, DeleteStep, RestartStep
  <2>3. CASE UNCHANGED save
    BY <2>3
  <2>4. QED
    BY <2>1, <2>2, <2>3, Elsewhere DEF Next, Stamped
<1>2. ASSUME NEW q \in Requests, WriteFile(q) PROVE WrittenInv'
  <2>1. save'[q].phase = "saved" /\ save'[q].file = save[q].file /\ listed' = listed
    BY <1>2, FileStep DEF WriteFile, Stamped, TypeOK, Save
  <2>2. \A f \in FileName \ {save[q].file} : disk'[f] = disk[f]
    BY <1>2, FileStep
  <2>3. QED
    BY <1>1, <2>1, <2>2 DEF WrittenInv
<1>3. ASSUME NEW q \in Requests, OpenFile(q) \/ WriteFails(q) PROVE WrittenInv'
  <2>1. \A f \in FileName : disk'[f].state = "whole" => disk'[f] = disk[f]
    BY <1>3 DEF OpenFile, WriteFails, Holdless, TypeOK
  <2>2. listed' = listed
    BY <1>3 DEF OpenFile, WriteFails
  <2>3. QED
    BY <1>1, <2>1, <2>2 DEF WrittenInv
<1>4. ASSUME NEW f \in FileName, List(f) PROVE WrittenInv'
  BY <1>1, <1>4 DEF List, fileVars, WrittenInv
<1>5. ASSUME NEW f \in FileName, Delete(f) PROVE WrittenInv'
  <2>1. \A g \in FileName : disk'[g].state = "whole" => disk'[g] = disk[g]
    BY <1>5 DEF Delete, Holdless, TypeOK
  <2>2. listed' \subseteq listed
    BY <1>5 DEF Delete
  <2>3. QED
    BY <1>1, <2>1, <2>2 DEF WrittenInv
<1>6. CASE UNCHANGED <<listed, disk>>
  BY <1>1, <1>6 DEF WrittenInv
<1>7. ASSUME \/ Tick \/ LogOther \/ Watch \/ Restart \/ UNCHANGED vars
             \/ \E r \in Runs : Start(r) \/ Analyse(r) \/ Tell(r)
             \/ \E q \in Requests :
                  \/ \E name \in Names, lines \in Lines : SaveSnapshot(q, name, lines)
                  \/ TakePart(q) \/ Stamp(q)
      PROVE  UNCHANGED <<listed, disk>>
  BY <1>7 DEF Tick, LogOther, Watch, Restart, Start, Analyse, Tell, SaveSnapshot, TakePart, Stamp,
              vars, fileVars
<1>8. QED
  BY <1>2, <1>3, <1>4, <1>5, <1>6, <1>7 DEF Next
\* Only a request that is collided with the one that saved a file spoils it.
LEMMA ListedStep ==
    TypeOK /\ PlaceInv /\ WrittenInv /\ ListedLoads /\ [Next]_vars => ListedLoads'
<1> SUFFICES ASSUME TypeOK, PlaceInv, WrittenInv, ListedLoads, [Next]_vars, NEW f \in listed'
             PROVE  \/ disk'[f].state \in {"whole", "absent"}
                    \/ \E q, other \in Requests : q # other /\ save'[q].file = f
                                                  /\ Collide(q, other)'
  BY DEF ListedLoads
<1>1. f \in FileName
  <2>1. TypeOK'
    BY TypeStep
  <2>2. QED
    BY <2>1 DEF TypeOK
\* Files that collide do so for good.
<1>2. \A o \in Requests : save[o].file # NoFile => Stamped(save'[o]) = Stamped(save[o])
  <2>1. ASSUME NEW q \in Requests,
               \/ \E name \in Names, lines \in Lines : SaveSnapshot(q, name, lines)
               \/ TakePart(q) \/ Stamp(q)
        PROVE  save[q].file = NoFile /\ \A o \in Requests \ {q} : save'[o] = save[o]
    BY <2>1, BeginStep, TakeStep, StampStep DEF PlaceInv, Placed
  <2>2. ASSUME NEW q \in Requests, OpenFile(q) \/ WriteFile(q) \/ WriteFails(q)
        PROVE  \A o \in Requests : Stamped(save'[o]) = Stamped(save[o])
    BY <2>2, FileStep
  <2>3. ASSUME Restart \/ \E g \in FileName : Delete(g)
        PROVE  \A o \in Requests : Stamped(save'[o]) = Stamped(save[o])
    BY <2>3, DeleteStep, RestartStep
  <2>4. CASE UNCHANGED save
    BY <2>4
  <2>5. QED
    BY <2>1, <2>2, <2>3, <2>4, Elsewhere DEF Next
<1>3. ASSUME NEW q \in Requests, NEW other \in Requests, q # other, save[q].file = f,
             Collide(q, other)
      PROVE  save'[q].file = f /\ Collide(q, other)'
  BY <1>2, <1>3 DEF Collide, Stamped
<1>4. ASSUME NEW q \in Requests, OpenFile(q) \/ WriteFile(q) \/ WriteFails(q), f \in listed
      PROVE  \/ disk'[f] = disk[f] \/ disk'[f].state = "whole"
             \/ \E other \in Requests \ {q} : save[q].file = f /\ Collide(q, other)
  <2>1. CASE save[q].file # f
    BY <1>1, <1>4, <2>1, FileStep
  <2>2. CASE save[q].file = f
    <3>1. PICK other \in Requests : save[other].file = f /\ save[other].phase = "saved"
      BY <1>1, <1>4 DEF WrittenInv
    <3>2. other # q /\ save[q].file # NoFile
      BY <1>4, <3>1, FileStep
    <3>3. QED
      BY <2>2, <3>1, <3>2, SameFile
  <2>3. QED
    BY <2>1, <2>2
<1>5. ASSUME NEW q \in Requests, OpenFile(q) \/ WriteFile(q) \/ WriteFails(q)
      PROVE  f \in listed
  BY <1>5 DEF OpenFile, WriteFile, WriteFails
<1>6. ASSUME NEW g \in FileName, List(g) PROVE disk'[f] = disk[f] /\ (f = g \/ f \in listed)
             /\ (f = g => disk[g].state = "whole")
  BY <1>6 DEF List, fileVars
<1>7. ASSUME NEW g \in FileName, Delete(g)
      PROVE  f \in listed /\ (disk'[f] = disk[f] \/ disk'[f].state = "absent")
  BY <1>1, <1>7 DEF Delete, Holdless, TypeOK
<1>8. ASSUME \/ Tick \/ LogOther \/ Watch \/ Restart \/ UNCHANGED vars
             \/ \E r \in Runs : Start(r) \/ Analyse(r) \/ Tell(r)
             \/ \E q \in Requests :
                  \/ \E name \in Names, lines \in Lines : SaveSnapshot(q, name, lines)
                  \/ TakePart(q) \/ Stamp(q)
      PROVE  UNCHANGED <<listed, disk>>
  BY <1>8 DEF Tick, LogOther, Watch, Restart, Start, Analyse, Tell, SaveSnapshot, TakePart, Stamp,
              vars, fileVars
<1>9. f \in listed => \/ disk[f].state \in {"whole", "absent"}
                      \/ \E q, other \in Requests : q # other /\ save[q].file = f
                                                    /\ Collide(q, other)
  BY DEF ListedLoads
<1>10. CASE \E q \in Requests : OpenFile(q) \/ WriteFile(q) \/ WriteFails(q)
  BY <1>3, <1>4, <1>5, <1>9, <1>10
<1>11. CASE \E g \in FileName : List(g) \/ Delete(g)
  BY <1>3, <1>6, <1>7, <1>9, <1>11
<1>12. CASE UNCHANGED <<listed, disk>>
  BY <1>3, <1>9, <1>12
<1>13. QED
  BY <1>8, <1>10, <1>11, <1>12 DEF Next

\* A snapshot that the page lists can be loaded or is gone: what is being written is not
\* listed, unless it replaces one.
THEOREM ListedLoad == Spec => []ListedLoads
<1>1. Init => WrittenInv /\ ListedLoads
  BY DEF Init, WrittenInv, ListedLoads, Holdless
<1>2. QED
  BY TypePlace, <1>1, WrittenStep, ListedStep, PTL DEF Spec

-----------------------------------------------------------------------------
(* The report and the log.  An entry that announces the end of an analysis is   *)
(* logged when the report is that of the analysis, or of a later one, and has   *)
(* ended; reports only go on from there.  So an entry that is taken before the  *)
(* report never is ahead of it, and a restart takes the entries with it.        *)

Past(r, rep) == rep.run > r \/ (rep.run = r /\ rep.status # "running")

\* The entries of a sequence announce analyses that the report is past.
Follows(q) == \A i \in 1..Len(q) : q[i] # Other => job[q[i]] # "new" /\ Past(q[i], report)

\* Runs are started in their order.
Numbered == \A r, q \in Runs : job[r] # "new" /\ q < r => job[q] # "new"

StoredPast == \A r \in Runs : job[r] = "stored" => Past(r, report)

TakenPast == \A q \in Requests :
    /\ save[q].phase = "taking" /\ save[q].part = 2 => Follows(save[q].entries)
    /\ save[q].part > 2 => \A i \in 1..Len(save[q].entries) :
          save[q].entries[i] # Other => Past(save[q].entries[i], save[q].report)

ReportsInv == JobCore /\ Numbered /\ StoredPast /\ Follows(inbox) /\ Follows(buffer) /\ TakenPast
LEMMA ReportMoves ==
    ASSUME TypeOK, JobCore, Numbered, NEW r \in Runs, Start(r) \/ Analyse(r) \/ Tell(r),
           NEW t \in Runs, job[t] # "new", Past(t, report)
    PROVE  job'[t] # "new" /\ Past(t, report')
<1>1. /\ \A q \in Runs : q \in Nat
      /\ job \in [Runs -> Phase] /\ report.run \in Nat
  <2>1. report.run \in Runs \cup {NoRun} /\ job \in [Runs -> Phase]
    BY DEF TypeOK, JobTypeOK, Report
  <2>2. NoRun \in Nat /\ \A q \in Runs : q \in Nat
    BY SnapshotAssumption
  <2>3. QED
    BY <2>1, <2>2
<1>2. CASE Start(r)
  <2>1. job[r] = "new" /\ t # r
    BY <1>2 DEF Start, RunAnalysis
  <2>2. t < r
    BY <1>1, <2>1 DEF Numbered
  <2>3. report'.run = r /\ job'[t] = job[t]
    BY <1>1, <1>2, <2>1 DEF Start, RunAnalysis, ReportOf, Goto
  <2>4. QED
    BY <2>2, <2>3 DEF Past
<1>3. CASE Analyse(r)
  <2>1. CASE TakeSnapshot(r)
    BY <1>1, <2>1 DEF TakeSnapshot, Goto
  <2>2. ASSUME NEW st \in Status, NEW b \in Bodies \cup {NoBody}, Outcome(st, b), Finish(r, st, b)
        PROVE  job'[t] # "new" /\ Past(t, report')
    <3>1. report.run = r /\ report.status = "running"
      BY <2>2 DEF Finish, JobCore, OneAnalysis, Active
    <3>2. r > t
      BY <3>1 DEF Past
    <3>3. report'.run = r /\ job'[t] # "new"
      BY <1>1, <2>2 DEF Finish, ReportOf, Goto
    <3>4. QED
      BY <3>2, <3>3 DEF Past
  <2>3. QED
    BY <1>3, <2>1, <2>2 DEF Analyse
<1>4. CASE Tell(r)
  BY <1>1, <1>4 DEF Tell, Announce, Goto
<1>5. QED
  BY <1>2, <1>3, <1>4

\* A run that ends is the newest, and its report is there before it is announced.
LEMMA StoredStep ==
    ASSUME TypeOK, JobCore, Numbered, StoredPast,
           NEW r \in Runs, Start(r) \/ Analyse(r) \/ Tell(r)
    PROVE  StoredPast'
<1> SUFFICES ASSUME NEW t \in Runs, job'[t] = "stored" PROVE Past(t, report')
  BY DEF StoredPast
<1>1. job \in [Runs -> Phase]
  BY DEF TypeOK, JobTypeOK
<1>2. CASE job[t] = "stored"
  BY <1>2, ReportMoves DEF StoredPast
<1>3. CASE job[t] # "stored"
  <2>1. PICK st \in Status, b \in Bodies \cup {NoBody} : Outcome(st, b) /\ Finish(r, st, b)
    BY <1>1, <1>3 DEF Start, RunAnalysis, Analyse, TakeSnapshot, Tell, Announce, Goto
  <2>2. t = r
    BY <1>1, <1>3, <2>1 DEF Finish, Goto
  <2>3. report'.run = r /\ report'.status # "running"
    BY <2>1 DEF Outcome, Finish, ReportOf
  <2>4. QED
    BY <2>2, <2>3 DEF Past
<1>4. QED
  BY <1>2, <1>3

LEMMA NumberedStep ==
    ASSUME TypeOK, Numbered, NEW r \in Runs, Start(r) \/ Analyse(r) \/ Tell(r)
    PROVE  Numbered'
<1>1. job \in [Runs -> Phase]
  BY DEF TypeOK, JobTypeOK
<1>2. CASE Start(r)
  <2>1. \A q \in Runs : q < r => job[q] # "new"
    BY <1>2 DEF Start
  <2>2. job' = [job EXCEPT ![r] = "started"]
    BY <1>2 DEF Start, RunAnalysis, Goto
  <2>3. QED
    BY <1>1, <2>1, <2>2 DEF Numbered
<1>3. CASE Analyse(r) \/ Tell(r)
  <2>1. \A q \in Runs : job'[q] # "new" <=> job[q] # "new"
    BY <1>1, <1>3 DEF Analyse, TakeSnapshot, Finish, Tell, Announce, Goto
  <2>2. QED
    BY <2>1 DEF Numbered
<1>4. QED
  BY <1>2, <1>3

LEMMA CoreAnalyses ==
    ASSUME JobCore, NEW r \in Runs, Start(r) \/ Analyse(r) \/ Tell(r)
    PROVE  JobCore'
<1>1. CASE Start(r)
  BY <1>1, CoreRun DEF Start
<1>2. CASE Analyse(r)
  <2>1. ASSUME NEW st \in Status, NEW b \in Bodies \cup {NoBody}, Outcome(st, b), Finish(r, st, b)
        PROVE  JobCore'
    <3>1. st \notin {"pending", "running"}
      BY <2>1 DEF Outcome
    <3>2. QED
      BY <2>1, <3>1, CoreFinish
  <2>2. QED
    BY <1>2, <2>1, CoreMoves DEF Analyse
<1>3. CASE Tell(r)
  BY <1>3, CoreMoves DEF Tell
<1>4. QED
  BY <1>1, <1>2, <1>3

\* What announces no more than others did follows with them.
LEMMA FollowsPart ==
    ASSUME NEW q, NEW p, Follows(q),
           \A i \in 1..Len(p) : \E j \in 1..Len(q) : p[i] = q[j]
    PROVE  Follows(p)
BY DEF Follows

LEMMA TakenOn ==
    ASSUME TypeOK, JobCore, Numbered, TakenPast, NEW r \in Runs, Start(r) \/ Analyse(r) \/ Tell(r)
    PROVE  TakenPast'
<1>1. save' = save
  BY DEF Start, Analyse, Tell
<1>2. \A q \in Requests : save[q].entries \in Seq(Entries)
  BY DEF TypeOK, Save
<1>3. \A q \in Requests : Follows(save[q].entries) => Follows(save[q].entries)'
  <2> SUFFICES ASSUME NEW q \in Requests, Follows(save[q].entries)
               PROVE  Follows(save[q].entries)'
    OBVIOUS
  <2> DEFINE es == save[q].entries
  <2>1. \A i \in 1..Len(es) : es[i] # Other => es[i] \in Runs
    BY <1>2 DEF Entries
  <2>2. \A i \in 1..Len(es) : es[i] # Other => job'[es[i]] # "new" /\ Past(es[i], report')
    BY <2>1, ReportMoves DEF Follows
  <2>3. QED
    BY <1>1, <2>2 DEF Follows
<1>4. QED
  BY <1>1, <1>3 DEF TakenPast

LEMMA ReportsAnalyses ==
    ASSUME TypeOK, ReportsInv, NEW r \in Runs, Start(r) \/ Analyse(r) \/ Tell(r)
    PROVE  ReportsInv'
<1> USE DEF ReportsInv
<1>1. JobCore' /\ Numbered' /\ StoredPast' /\ TakenPast'
  BY CoreAnalyses, NumberedStep, StoredStep, TakenOn
<1>2. inbox \in Seq(Entries) /\ buffer \in Seq(Entries)
  BY DEF TypeOK
<1>3. buffer' = buffer
  BY DEF Start, Analyse, Tell, logVars
<1>4. Follows(buffer)'
  <2>1. \A i \in 1..Len(buffer) : buffer[i] # Other => buffer[i] \in Runs
    BY <1>2 DEF Entries
  <2>2. \A i \in 1..Len(buffer) : buffer[i] # Other =>
                                    job'[buffer[i]] # "new" /\ Past(buffer[i], report')
    BY <2>1, ReportMoves DEF Follows
  <2>3. QED
    BY <1>3, <2>2 DEF Follows
<1>5. Follows(inbox)'
  <2>1. \A i \in 1..Len(inbox) : inbox[i] # Other => inbox[i] \in Runs
    BY <1>2 DEF Entries
  <2>2. \A i \in 1..Len(inbox) : inbox[i] # Other =>
                                   job'[inbox[i]] # "new" /\ Past(inbox[i], report')
    BY <2>1, ReportMoves DEF Follows
  <2>3. CASE inbox' = inbox
    BY <2>2, <2>3 DEF Follows
  <2>4. CASE inbox' # inbox
    <3>1. Tell(r)
      BY <2>4 DEF Start, Analyse, logVars
    <3>2. inbox' = Append(inbox, r) /\ job[r] = "stored" /\ report' = report /\ job'[r] # "new"
      BY <2>4, <3>1 DEF Tell, Log, Announce, Goto, TypeOK, JobTypeOK
    <3>3. Past(r, report')
      BY <3>2 DEF StoredPast
    <3>4. \A i \in 1..Len(inbox') : inbox'[i] = r \/ (i \in 1..Len(inbox) /\ inbox'[i] = inbox[i])
      BY <1>2, <3>2
    <3>5. QED
      BY <2>2, <3>2, <3>3, <3>4 DEF Follows
  <2>5. QED
    BY <2>3, <2>4
<1>6. QED
  BY <1>1, <1>4, <1>5
LEMMA ReportsWatch ==
    ASSUME TypeOK, ReportsInv, Watch
    PROVE  ReportsInv'
<1> USE DEF ReportsInv
<1>1. UNCHANGED <<report, job, save>>
  BY DEF Watch, jobVars
<1>2. JobCore' /\ Numbered' /\ StoredPast' /\ TakenPast'
  BY <1>1, CoreStutters DEF jobVars, Numbered, StoredPast, TakenPast, Follows
<1>3. Follows(inbox)' /\ Follows(buffer)'
  BY <1>1, WatchType DEF Follows
<1>4. QED
  BY <1>2, <1>3

LEMMA ReportsTake ==
    ASSUME TypeOK, PlaceInv, ReportsInv, NEW q \in Requests, TakePart(q)
    PROVE  ReportsInv'
<1> USE DEF ReportsInv
<1>1. UNCHANGED <<report, job, inbox, buffer>>
  BY DEF TakePart, jobVars, logVars
<1>2. JobCore' /\ Numbered' /\ StoredPast' /\ Follows(inbox)' /\ Follows(buffer)'
  BY <1>1, CoreStutters DEF jobVars, Numbered, StoredPast, Follows
<1>3. TakenPast'
  <2>1. \A o \in Requests \ {q} : save'[o] = save[o]
    BY TakeStep
  <2>2. CASE save'[q].part = 2
    <3>1. save'[q].entries = Newest(save[q].lines, buffer)
      BY <2>2, TakeStep
    <3>2. save[q].lines \in Nat /\ buffer \in Seq(Entries)
      BY SnapshotAssumption DEF TypeOK, Save
    <3>3. Follows(save'[q].entries)
      <4>1. \A i \in 1..Len(Newest(save[q].lines, buffer)) :
              \E j \in 1..Len(buffer) : Newest(save[q].lines, buffer)[i] = buffer[j]
        BY <3>2, NewestType
      <4>2. Follows(Newest(save[q].lines, buffer))
        BY <4>1, FollowsPart
      <4>3. QED
        BY <3>1, <4>2
    <3>4. Follows(save[q].entries)'
      BY <1>1, <3>3 DEF Follows
    <3>5. QED
      BY <1>1, <2>1, <2>2, <3>4 DEF TakenPast, Follows
  <2>3. CASE save'[q].part = 3
    <3>1. /\ save[q].phase = "taking" /\ save[q].part = 2 /\ save'[q].phase = "taken"
          /\ save'[q].entries = save[q].entries /\ save'[q].report = report
      BY <2>3, TakeStep
    <3>2. Follows(save[q].entries)
      BY <3>1 DEF TakenPast
    <3>3. QED
      BY <1>1, <2>1, <2>3, <3>1, <3>2 DEF TakenPast, Follows
  <2>4. QED
    BY <2>2, <2>3, TakeStep
<1>4. QED
  BY <1>2, <1>3

LEMMA ReportsRequest ==
    ASSUME TypeOK, PlaceInv, ReportsInv,
           \/ \E q \in Requests : \/ Stamp(q) \/ OpenFile(q) \/ WriteFile(q) \/ WriteFails(q)
                                  \/ \E name \in Names, lines \in Lines :
                                       SaveSnapshot(q, name, lines)
           \/ \E f \in FileName : List(f) \/ Delete(f)
           \/ Tick \/ UNCHANGED vars
    PROVE  ReportsInv'
<1> USE DEF ReportsInv
<1>1. UNCHANGED <<report, job, inbox, buffer>>
  BY DEF Stamp, OpenFile, WriteFile, WriteFails, SaveSnapshot, List, Delete, Tick, vars, jobVars,
         logVars
<1>2. JobCore' /\ Numbered' /\ StoredPast' /\ Follows(inbox)' /\ Follows(buffer)'
  BY <1>1, CoreStutters DEF jobVars, Numbered, StoredPast, Follows
<1>3. \A q \in Requests : \/ save'[q].part = 1
                          \/ Taken(save'[q]) = Taken(save[q])
                             /\ (save'[q].phase = "taking" => save[q].phase = "taking")
  <2>1. ASSUME NEW q \in Requests,
               \/ Stamp(q) \/ OpenFile(q) \/ WriteFile(q) \/ WriteFails(q)
               \/ \E name \in Names, lines \in Lines : SaveSnapshot(q, name, lines)
        PROVE  /\ \/ save'[q].part = 1
                  \/ Taken(save'[q]) = Taken(save[q]) /\ save'[q].phase # "taking"
               /\ \A o \in Requests \ {q} : save'[o] = save[o]
    <3>1. CASE Stamp(q)
      BY <3>1, StampStep
    <3>2. CASE OpenFile(q) \/ WriteFile(q) \/ WriteFails(q)
      BY <3>2, FileStep
    <3>3. CASE \E name \in Names, lines \in Lines : SaveSnapshot(q, name, lines)
      BY <3>3, BeginStep
    <3>4. QED
      BY <2>1, <3>1, <3>2, <3>3
  <2>2. ASSUME NEW f \in FileName, Delete(f)
        PROVE  \A q \in Requests : Taken(save'[q]) = Taken(save[q])
                                   /\ save'[q].phase = save[q].phase
    BY <2>2, DeleteStep
  <2>3. CASE UNCHANGED save
    BY <2>3
  <2>4. QED
    BY <2>1, <2>2, <2>3, Elsewhere
<1>4. TakenPast'
  BY <1>1, <1>3 DEF TakenPast, Taken, Follows
<1>5. QED
  BY <1>2, <1>4

LEMMA ReportsRestart ==
    ASSUME TypeOK, ReportsInv, Restart
    PROVE  ReportsInv'
<1> USE DEF ReportsInv
<1>1. /\ report' = NoReport /\ inbox' = <<>> /\ buffer' = <<>>
      /\ job' = [r \in Runs |-> IF job[r] = "new" THEN "new" ELSE "done"]
      /\ job \in [Runs -> Phase]
  BY DEF Restart, TypeOK, JobTypeOK
<1>2. JobCore'
  BY <1>1, JobAssumption
  DEF JobCore, OneAnalysis, ReportInv, Active, NoReport, ReportOf, Phase
<1>3. Numbered' /\ StoredPast'
  BY <1>1 DEF Numbered, StoredPast
<1>4. Follows(inbox)' /\ Follows(buffer)'
  BY <1>1 DEF Follows
<1>5. TakenPast'
  BY RestartStep DEF TakenPast, Taken
<1>6. QED
  BY <1>2, <1>3, <1>4, <1>5

LEMMA ReportsOther ==
    ASSUME TypeOK, ReportsInv, LogOther
    PROVE  ReportsInv'
<1> USE DEF ReportsInv
<1>1. UNCHANGED <<report, job, buffer, save>> /\ Log(Other) /\ Other \in Entries
  BY DEF LogOther, jobVars, Entries
<1>2. JobCore' /\ Numbered' /\ StoredPast' /\ TakenPast' /\ Follows(buffer)'
  BY <1>1, CoreStutters DEF jobVars, Numbered, StoredPast, TakenPast, Follows
<1>3. inbox \in Seq(Entries) /\ (inbox' = inbox \/ inbox' = Append(inbox, Other))
  BY <1>1, LogType DEF TypeOK
<1>4. \A i \in 1..Len(inbox') : inbox'[i] = Other \/ (i \in 1..Len(inbox) /\ inbox'[i] = inbox[i])
  BY <1>3
<1>5. Follows(inbox)'
  BY <1>1, <1>4 DEF Follows
<1>6. QED
  BY <1>2, <1>5

LEMMA ReportsStep == TypeOK /\ PlaceInv /\ ReportsInv /\ [Next]_vars => ReportsInv'
BY ReportsAnalyses, ReportsWatch, ReportsTake, ReportsRequest, ReportsRestart, ReportsOther
   DEF Next

LEMMA ReportsInit == Init => ReportsInv
<1> SUFFICES ASSUME Init PROVE ReportsInv
  OBVIOUS
<1>1. JobCore
  BY CoreInit DEF Init
<1>2. Numbered /\ StoredPast
  BY DEF Init, JobInit, Numbered, StoredPast
<1>3. Follows(inbox) /\ Follows(buffer)
  BY DEF Init, Follows
<1>4. TakenPast
  BY DEF Init, NoSave, TakenPast
<1>5. QED
  BY <1>1, <1>2, <1>3, <1>4 DEF ReportsInv

\* saveSnapshot takes the log before the report, each under its own lock: no snapshot
\* says in its log that an analysis has ended whose report it does not have.
THEOREM ReportFollows == Spec => []ReportFollowsLog
<1>1. TypeOK /\ ReportsInv => ReportFollowsLog
  BY DEF ReportsInv, TakenPast, Past, ReportFollowsLog, Parts
<1>2. QED
  BY TypePlace, ReportsInit, ReportsStep, <1>1, PTL DEF Spec
===============================================================================
