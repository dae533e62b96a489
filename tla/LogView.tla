------------------------------- MODULE LogView -------------------------------
(***************************************************************************)
(* The event log of the web UI and its snapshot mode (internal/webui/web/  *)
(* index.html): entries that come over the event stream are kept, the      *)
(* oldest giving way, and get an element in the next frame; a snapshot     *)
(* takes the place of log, tools and report until it is left, when what it *)
(* replaced comes back.                                                    *)
(*                                                                         *)
(* Source 0 is the live session, the others are snapshots.  An entry is a  *)
(* pair of its source and a number; so is what the two other tabs show.    *)
(***************************************************************************)
EXTENDS Naturals, FiniteSets, Sequences, SequencesExt

CONSTANTS
    MAX,          \* entries the log keeps
    Snaps,        \* snapshots the user may load
    SnapLength,   \* how many entries each of them has
    MaxArrivals   \* bound on the entries that come over the stream

Tabs == {"tools", "analysis"}
Live == 0

ASSUME LogViewAssumption ==
    /\ MAX \in Nat \ {0} /\ MaxArrivals \in Nat
    /\ Snaps \subseteq Nat \ {Live}
    /\ SnapLength \in [Snaps -> Nat]

VARIABLES
    arrived,   \* how many entries have come
    entries,   \* entries, oldest first
    pending,   \* those without an element yet
    feed,      \* the elements, whose entries elMap knows
    mode,      \* the snapshot shown, or Live
    saved,     \* liveEntries, liveElMap, liveTools and liveReport
    shown,     \* allTools and currentReport
    latest,    \* which ones the server has
    gets,      \* tabs whose data is under way
    heard,     \* history: the entries that came while the log was live
    taken,     \* history: the tab data that came while the log was live
    swallowed, \* history: entries that were pending when a snapshot was loaded
    stray,     \* history: entries that were pending when they gave way
    nested     \* history: a snapshot was loaded while one was shown

logVars == <<entries, pending, feed>>
modeVars == <<mode, saved>>
tabVars == <<shown, latest, gets>>
history == <<heard, taken, swallowed, stray, nested>>
viewVars == <<arrived, logVars, modeVars, tabVars, history>>

Source == Snaps \cup {Live}
ViewEntry == Source \X (Nat \ {0})
Shown == [Tabs -> Source \X Nat]

ViewTypeOK ==
    /\ arrived \in 0..MaxArrivals
    /\ entries \in Seq(ViewEntry)
    /\ mode = Live /\ ~nested => Len(entries) <= MAX
    /\ pending \in Seq(ViewEntry)
    /\ feed \in Seq(ViewEntry)
    /\ mode \in Source
    /\ saved \in [entries : Seq(ViewEntry), feed : Seq(ViewEntry), shown : Shown]
    /\ shown \in Shown
    /\ latest \in [Tabs -> Nat]
    /\ gets \subseteq Tabs
    /\ heard \in Seq(ViewEntry)
    /\ taken \in [Tabs -> Nat]
    /\ swallowed \subseteq ViewEntry /\ stray \subseteq ViewEntry
    /\ nested \in BOOLEAN

Initially == [k \in Tabs |-> <<Live, 0>>]
\* What is saved is read only while a snapshot is shown.
NotSaved == [entries |-> <<>>, feed |-> <<>>, shown |-> Initially]

ViewInit ==
    /\ arrived = 0
    /\ entries = <<>> /\ pending = <<>> /\ feed = <<>>
    /\ mode = Live
    /\ saved = NotSaved
    /\ shown = Initially
    /\ latest = [k \in Tabs |-> 0] /\ gets = {}
    /\ heard = <<>> /\ taken = [k \in Tabs |-> 0]
    /\ swallowed = {} /\ stray = {} /\ nested = FALSE

-----------------------------------------------------------------------------
(* Events.                                                                  *)

\* The elements of s that are in T, in their order: SelectSeq without its recursion.
Keep(s, T) ==
    LET at == {i \in 1..Len(s) : s[i] \in T}
        Rank(i) == Cardinality({j \in at : j <= i})
    IN  [n \in 1..Cardinality(at) |-> s[CHOOSE i \in at : Rank(i) = n]]

Without(e, s) == Keep(s, ToSet(s) \ {e})

\* Variant: an entry that gives way keeps its element.
EvictEntryOnly(new) ==
    IF Len(new) > MAX
    THEN /\ entries' = Tail(new)
         /\ feed' = feed
         /\ stray' = IF Contains(pending, Head(new)) THEN stray \cup {Head(new)} ELSE stray
    ELSE entries' = new /\ UNCHANGED <<feed, stray>>

\* The oldest entry gives way, with its element if it has one.
Evict(new) ==
    IF Len(new) > MAX
    THEN /\ entries' = Tail(new)
         /\ feed' = Without(Head(new), feed)
         /\ stray' = IF Contains(pending, Head(new)) THEN stray \cup {Head(new)} ELSE stray
    ELSE entries' = new /\ UNCHANGED <<feed, stray>>

\* enqueue: "discard incoming live entries" while a snapshot is shown.
Enqueue(e) ==
    IF mode # Live THEN UNCHANGED <<logVars, heard, stray>>
    ELSE /\ Evict(Append(entries, e))
         /\ pending' = Append(pending, e)
         /\ heard' = Append(heard, e)

\* A tab gets new data, whether or not a snapshot is shown.
Show(k, version) ==
    /\ shown' = [shown EXCEPT ![k] = <<Live, version>>]
    /\ taken' = IF mode = Live THEN [taken EXCEPT ![k] = version] ELSE taken

\* An entry comes over the stream.
Arrive ==
    /\ arrived < MaxArrivals
    /\ arrived' = arrived + 1
    /\ Enqueue(<<Live, arrived + 1>>)

HearOther ==
    /\ Arrive
    /\ UNCHANGED <<modeVars, tabVars, taken, swallowed, nested>>

\* A tool_catalog entry carries the tools.
HearCatalog ==
    /\ Arrive
    /\ latest' = [latest EXCEPT !["tools"] = @ + 1]
    /\ Show("tools", latest["tools"] + 1)
    /\ UNCHANGED <<modeVars, gets, swallowed, nested>>

\* analysis_complete and analysis_error make the page ask for the report.
HearReport ==
    /\ Arrive
    /\ latest' = [latest EXCEPT !["analysis"] = @ + 1]
    /\ gets' = gets \cup {"analysis"}
    /\ UNCHANGED <<modeVars, shown, taken, swallowed, nested>>

\* Opening a tab asks for its data.
OpenTab(k) ==
    /\ gets' = gets \cup {k}
    /\ UNCHANGED <<arrived, logVars, modeVars, shown, latest, history>>

\* The answer is shown when it arrives.
Loaded(k) ==
    /\ k \in gets
    /\ gets' = gets \ {k}
    /\ Show(k, latest[k])
    /\ UNCHANGED <<arrived, logVars, modeVars, latest, heard, swallowed, stray, nested>>

\* flush: in the next frame, every pending entry gets its element.
Flush ==
    /\ pending # <<>>
    /\ feed' = feed \o pending
    /\ pending' = <<>>
    /\ UNCHANGED <<arrived, entries, modeVars, tabVars, history>>

Clear ==
    /\ entries # <<>> \/ feed # <<>>
    /\ entries' = <<>> /\ pending' = <<>> /\ feed' = <<>>
    /\ heard' = IF mode = Live THEN <<>> ELSE heard
    /\ UNCHANGED <<arrived, modeVars, tabVars, taken, swallowed, stray, nested>>

-----------------------------------------------------------------------------
(* Snapshots.                                                               *)
EntriesOf(s) == [i \in 1..SnapLength[s] |-> <<s, i>>]

\* Variant: entries that have no element yet get one among the snapshot's.
EnterKeepingPending(s) ==
    /\ saved' = [entries |-> entries, feed |-> feed, shown |-> shown]
    /\ mode' = s
    /\ entries' = EntriesOf(s) /\ feed' = EntriesOf(s)
    /\ shown' = [k \in Tabs |-> <<s, 0>>]
    /\ nested' = (nested \/ mode # Live)
    /\ UNCHANGED <<arrived, pending, latest, gets, heard, taken, swallowed, stray>>

\* enterSnapshotMode, which does not look at the mode: it saves what is shown.
EnterSnapshotMode(s) ==
    /\ saved' = [entries |-> entries, feed |-> feed, shown |-> shown]
    /\ mode' = s
    /\ entries' = EntriesOf(s) /\ feed' = EntriesOf(s)
    /\ pending' = <<>>
    /\ shown' = [k \in Tabs |-> <<s, 0>>]
    /\ swallowed' = swallowed \cup ToSet(pending)
    /\ nested' = (nested \/ mode # Live)
    /\ UNCHANGED <<arrived, latest, gets, heard, taken, stray>>

\* Variant: only the log comes back.
ExitLogOnly ==
    /\ mode # Live
    /\ mode' = Live
    /\ entries' = saved.entries
    /\ feed' = Keep(saved.entries, ToSet(saved.feed))
    /\ saved' = NotSaved
    /\ UNCHANGED <<arrived, pending, tabVars, history>>

\* exitSnapshotMode: what was saved comes back, as it was.
ExitSnapshotMode ==
    /\ mode # Live
    /\ mode' = Live
    /\ entries' = saved.entries
    /\ feed' = Keep(saved.entries, ToSet(saved.feed))
    /\ shown' = saved.shown
    /\ saved' = NotSaved
    /\ UNCHANGED <<arrived, pending, latest, gets, history>>

ViewNext ==
    \/ HearOther \/ HearCatalog \/ HearReport \/ Flush \/ Clear \/ ExitSnapshotMode
    \/ \E k \in Tabs : OpenTab(k) \/ Loaded(k)
    \/ \E s \in Snaps : EnterSnapshotMode(s)

ViewSpec == ViewInit /\ [][ViewNext]_viewVars

-----------------------------------------------------------------------------
\* "Avoid mixing them with snapshot data" (index.html:2388-2389): while a snapshot is
\* shown, the log holds no entry of the live session or of another snapshot.
SnapshotUnmixed ==
    mode # Live => \A e \in ToSet(entries) \cup ToSet(feed) \cup ToSet(pending) : e[1] = mode

Newest(n, s) == IF Len(s) <= n THEN s ELSE SubSeq(s, Len(s) - n + 1, Len(s))

\* "Live state saved while in snapshot mode (restored on exit)" (index.html:2315):
\* the live log holds the newest entries that came while it was live, and the tabs
\* what came last while it was, whatever was shown between, unless a snapshot was
\* loaded over another.
LiveRestored ==
    mode = Live /\ ~nested =>
        /\ entries = Newest(MAX, heard)
        /\ \A k \in Tabs : shown[k] = <<Live, taken[k]>>

\* Once a frame has come, the elements are those of the live log's entries, in their
\* order, but for entries that were waiting for theirs when a snapshot was loaded,
\* which have none, and entries that gave way before it, which keep it.
FeedShows ==
    mode = Live /\ ~nested /\ pending = <<>> =>
        Keep(feed, ToSet(feed) \ stray) = Keep(entries, ToSet(entries) \ swallowed)
===============================================================================
