------------------------------ MODULE Snapshots ------------------------------
(***************************************************************************)
(* Snapshots of the session (internal/ui/snapshot.go and the handlers of   *)
(* server.go): watchLogBuffer keeps the last log entries, a request copies *)
(* them, takes the report and writes both to a file named after the second *)
(* and the request's name; pages list, load and delete the files.  The     *)
(* report and the entries that announce it come from AnalysisJob, whose    *)
(* runs are numbered.  The tool catalog of a snapshot is left out.         *)
(***************************************************************************)
EXTENDS AnalysisJob, Naturals, Sequences

CONSTANTS
    Requests,      \* requests to save a snapshot, each sent once
    Names,         \* names users give
    Safe,          \* sanitizeSnapshotName, which may map two names to one
    Lines,         \* values of max_log_lines
    Cap,           \* entries the log buffer keeps
    InboxCap,      \* capacity of watchLogBuffer's channel
    MaxOthers,     \* bound on the entries that announce no report
    MaxSecond,     \* bound on the clock
    MaxRestarts

ASSUME SnapshotAssumption ==
    /\ Runs \subseteq Nat \ {0} /\ NoRun = 0
    /\ Names # {} /\ Safe \in [Names -> Names]
    /\ Lines # {} /\ Lines \subseteq Nat \ {0}
    /\ Cap \in Nat \ {0} /\ InboxCap \in Nat \ {0}
    /\ MaxOthers \in Nat /\ MaxSecond \in Nat /\ MaxRestarts \in Nat

VARIABLES
    second,    \* the clock
    others,    \* how many other entries were logged
    inbox,     \* entries under way to watchLogBuffer
    buffer,    \* logBuffer
    save,      \* POST /api/snapshot of each request
    disk,      \* the snapshot directory
    deleted,   \* history: the names a file was deleted under
    listed,    \* the files the page has a Load button for
    restarts

logVars == <<others, inbox, buffer>>
fileVars == <<disk, deleted>>
vars == <<jobVars, second, logVars, save, fileVars, listed, restarts>>

\* An entry is the run whose end it announces, or another one.
Other == 0
Entries == Runs \cup {Other}
Seconds == 0..MaxSecond
FileName == Seconds \X Names
NoFile == <<>>
NoReport == ReportOf(NoRun, "pending", NoBody)

\* The parts of a snapshot.  Variant: the report is taken first.
ReportFirst == <<"report", "log">>

\* saveSnapshot takes the log entries first.
Parts == <<"log", "report">>

\* A request takes its parts, stamps them with the second, opens the file and writes it.
SavePhase == {"none", "taking", "taken", "open", "write", "saved", "failed"}
Save == [phase : SavePhase, name : Names, lines : Lines, part : 1..(Len(Parts) + 1),
         created : Seconds, entries : Seq(Entries), report : Report, file : FileName \cup {NoFile},
         linked : BOOLEAN]
NoSave == [phase |-> "none", name |-> CHOOSE n \in Names : TRUE,
           lines |-> CHOOSE n \in Lines : TRUE, part |-> 1,
           created |-> 0, entries |-> <<>>, report |-> NoReport, file |-> NoFile, linked |-> FALSE]

\* A file keeps the report only if it is complete.
Content == [name : Names, created : Seconds, entries : Seq(Entries), report : Report]
ContentOf(s) == [name |-> s.name, created |-> s.created, entries |-> s.entries,
                 report |-> IF s.report.status = "complete" THEN s.report ELSE NoReport]
NoContent == ContentOf(NoSave)
File == [state : {"absent", "empty", "whole", "garbled"}, content : Content]
Holding(s) == [state |-> "whole", content |-> ContentOf(s)]
Holdless(state) == [state |-> state, content |-> NoContent]

TypeOK ==
    /\ JobTypeOK
    /\ second \in Seconds
    /\ others \in 0..MaxOthers
    /\ inbox \in Seq(Entries) /\ Len(inbox) <= InboxCap
    /\ buffer \in Seq(Entries) /\ Len(buffer) <= Cap
    /\ save \in [Requests -> Save]
    /\ disk \in [FileName -> File]
    /\ deleted \subseteq FileName
    /\ listed \subseteq FileName
    /\ restarts \in 0..MaxRestarts

Init ==
    /\ JobInit
    /\ second = 0 /\ others = 0 /\ restarts = 0
    /\ inbox = <<>> /\ buffer = <<>>
    /\ save = [q \in Requests |-> NoSave]
    /\ disk = [f \in FileName |-> Holdless("absent")]
    /\ deleted = {} /\ listed = {}

-----------------------------------------------------------------------------
(* Analyses and log entries.                                                *)
Tick ==
    /\ second < MaxSecond
    /\ second' = second + 1
    /\ UNCHANGED <<jobVars, logVars, save, fileVars, listed, restarts>>

\* The logger does not wait for a full channel.
Log(e) == inbox' = IF Len(inbox) < InboxCap THEN Append(inbox, e) ELSE inbox

LogOther ==
    /\ others < MaxOthers
    /\ others' = others + 1
    /\ Log(Other)
    /\ UNCHANGED <<jobVars, second, buffer, save, fileVars, listed, restarts>>

\* Runs are numbered as they start.
Start(r) ==
    /\ \A q \in Runs : q < r => job[q] # "new"
    /\ RunAnalysis(r)
    /\ UNCHANGED <<second, logVars, save, fileVars, listed, restarts>>

Analyse(r) ==
    /\ \/ TakeSnapshot(r)
       \/ \E s \in Status, b \in Bodies \cup {NoBody} : Outcome(s, b) /\ Finish(r, s, b)
    /\ UNCHANGED <<second, logVars, save, fileVars, listed, restarts>>

Tell(r) ==
    /\ Announce(r)
    /\ Log(r)
    /\ UNCHANGED <<second, others, buffer, save, fileVars, listed, restarts>>

Newest(n, q) == IF Len(q) <= n THEN q ELSE SubSeq(q, Len(q) - n + 1, Len(q))

\* Variant: one entry too many is kept.
KeptLoosely(b) == Newest(Cap + 1, b)

Kept(b) == Newest(Cap, b)

\* watchLogBuffer.
Watch ==
    /\ inbox # <<>>
    /\ inbox' = Tail(inbox)
    /\ buffer' = Kept(Append(buffer, Head(inbox)))
    /\ UNCHANGED <<jobVars, second, others, save, fileVars, listed, restarts>>

-----------------------------------------------------------------------------
(* A snapshot is saved.                                                     *)
SaveSnapshot(q, name, lines) ==
    /\ save[q].phase = "none"
    /\ save' = [save EXCEPT ![q] = [NoSave EXCEPT !.phase = "taking", !.name = name,
                                                  !.lines = lines]]
    /\ UNCHANGED <<jobVars, second, logVars, fileVars, listed, restarts>>

\* Each part under its own lock.
TakePart(q) ==
    LET s == save[q]
        taken == IF s.part = Len(Parts) THEN "taken" ELSE "taking"
    IN  /\ s.phase = "taking"
        /\ save' = [save EXCEPT ![q] =
              IF Parts[s.part] = "log"
              THEN [s EXCEPT !.phase = taken, !.part = @ + 1, !.entries = Newest(s.lines, buffer)]
              ELSE [s EXCEPT !.phase = taken, !.part = @ + 1, !.report = report]]
        /\ UNCHANGED <<jobVars, second, logVars, fileVars, listed, restarts>>

\* Variant: the name alone makes the file's.
FileOfName(name, created) == <<0, Safe[name]>>

FileOf(name, created) == <<created, Safe[name]>>

Stamp(q) ==
    /\ save[q].phase = "taken"
    /\ save' = [save EXCEPT ![q].phase = "open", ![q].created = second,
                            ![q].file = FileOf(save[q].name, second)]
    /\ UNCHANGED <<jobVars, second, logVars, fileVars, listed, restarts>>

\* os.WriteFile truncates the file or creates it ...
OpenFile(q) ==
    /\ save[q].phase = "open"
    /\ save' = [save EXCEPT ![q].phase = "write", ![q].linked = TRUE]
    /\ disk' = [disk EXCEPT ![save[q].file] = Holdless("empty")]
    /\ UNCHANGED <<jobVars, second, logVars, deleted, listed, restarts>>

\* ... and writes it.  Over another request's longer text, its tail stays behind;
\* a file that was deleted since stays deleted, and the request succeeds.
WriteFile(q) ==
    LET f == save[q].file
    IN  /\ save[q].phase = "write"
        /\ save' = [save EXCEPT ![q].phase = "saved"]
        /\ \/ ~save[q].linked /\ UNCHANGED disk
           \/ save[q].linked /\ disk' = [disk EXCEPT ![f] = Holding(save[q])]
           \/ /\ save[q].linked /\ disk[f].state # "empty" /\ disk[f] # Holding(save[q])
              /\ disk' = [disk EXCEPT ![f] = Holdless("garbled")]
        /\ UNCHANGED <<jobVars, second, logVars, deleted, listed, restarts>>

\* The file cannot be opened, or is left with a part of the text.
WriteFails(q) ==
    LET f == save[q].file
    IN  /\ save[q].phase \in {"open", "write"}
        /\ save' = [save EXCEPT ![q].phase = "failed"]
        /\ disk' = IF save[q].phase = "write" /\ save[q].linked
                   THEN [disk EXCEPT ![f] = Holdless("garbled")]
                   ELSE disk
        /\ UNCHANGED <<jobVars, second, logVars, deleted, listed, restarts>>

-----------------------------------------------------------------------------
(* Snapshots are listed, loaded and deleted.                                *)

\* Variant: the file is not looked into.
ListUnread(f) ==
    /\ listed' = IF disk[f].state # "absent" THEN listed \cup {f} ELSE listed \ {f}
    /\ UNCHANGED <<jobVars, second, logVars, save, fileVars, restarts>>

\* listSnapshots reads one file after another and skips what it cannot decode.
List(f) ==
    /\ listed' = IF disk[f].state = "whole" THEN listed \cup {f} ELSE listed \ {f}
    /\ UNCHANGED <<jobVars, second, logVars, save, fileVars, restarts>>

\* The page takes the file off its list only when the answer says that it is gone.
Delete(f) ==
    /\ f \in listed
    /\ disk[f].state # "absent"
    /\ disk' = [disk EXCEPT ![f] = Holdless("absent")]
    /\ deleted' = deleted \cup {f}
    /\ save' = [q \in Requests |-> IF save[q].file = f THEN [save[q] EXCEPT !.linked = FALSE]
                                   ELSE save[q]]
    /\ \/ listed' = listed \ {f}
       \/ UNCHANGED listed
    /\ UNCHANGED <<jobVars, second, logVars, restarts>>

\* The process ends and starts again: log, report and requests are gone.
Restart ==
    /\ restarts < MaxRestarts
    /\ restarts' = restarts + 1
    /\ report' = NoReport
    /\ job' = [r \in Runs |-> IF job[r] = "new" THEN "new" ELSE "done"]
    /\ inbox' = <<>> /\ buffer' = <<>>
    /\ save' = [q \in Requests |-> IF save[q].phase \in {"none", "saved"} THEN save[q]
                                   ELSE [save[q] EXCEPT !.phase = "failed"]]
    /\ UNCHANGED <<second, others, fileVars, listed>>

Next ==
    \/ Tick \/ LogOther \/ Watch \/ Restart
    \/ \E r \in Runs : Start(r) \/ Analyse(r) \/ Tell(r)
    \/ \E q \in Requests :
         \/ \E name \in Names, lines \in Lines : SaveSnapshot(q, name, lines)
         \/ TakePart(q) \/ Stamp(q) \/ OpenFile(q) \/ WriteFile(q) \/ WriteFails(q)
    \/ \E f \in FileName : List(f) \/ Delete(f)

Spec == Init /\ [][Next]_vars

-----------------------------------------------------------------------------
\* Two requests were stamped with one second and the same safe name.
Collide(q, other) ==
    /\ save[q].file # NoFile /\ save[other].file # NoFile
    /\ save[q].created = save[other].created
    /\ Safe[save[q].name] = Safe[save[other].name]

\* A snapshot that was saved stays in its file, as it was taken, until someone
\* deletes it or another request has the same second and the same safe name.
SavedIsKept ==
    \A q \in Requests :
        \/ save[q].phase # "saved" \/ save[q].file \in deleted
        \/ \E other \in Requests \ {q} : Collide(q, other)
        \/ disk[save[q].file] = Holding(save[q])

\* A report in a snapshot is not older than its log: an analysis the log says has
\* ended is the one reported, or an older one.
ReportFollowsLog ==
    \A q \in Requests : save[q].part > Len(Parts) =>
        \A i \in 1..Len(save[q].entries) :
            LET r == save[q].entries[i]
            IN  r # Other => \/ save[q].report.run > r
                             \/ save[q].report.run = r /\ save[q].report.status # "running"

\* A snapshot that is listed can be loaded or is gone, unless another request has
\* overwritten it.
ListedLoads ==
    \A f \in listed :
        \/ disk[f].state \in {"whole", "absent"}
        \/ \E q, other \in Requests : q # other /\ save[q].file = f /\ Collide(q, other)
=============================================================================
