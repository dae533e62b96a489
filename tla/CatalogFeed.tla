----------------------------- MODULE CatalogFeed -----------------------------
(***************************************************************************)
(* How the tool catalog gets from discovery to the Tools tab: the UI       *)
(* server of internal/ui/server.go caches and saves the tool_catalog       *)
(* entries it hears, hands the cached one to every event stream that       *)
(* opens, and forwards all entries after it; the page of                   *)
(* internal/webui/web/index.html shows what its stream brings and what     *)
(* GET /api/tools answers.                                                 *)
(*                                                                         *)
(* Every client connection discovers in a goroutine of its own.  Catalogs  *)
(* are numbered as the logger encodes them; 0 is "no catalog".  The        *)
(* broadcast of one gives it to its receivers one at a time and shares its *)
(* lock with other broadcasts, so that catalogs may overtake each other on *)
(* the way to one receiver and not to another (LogBus).                    *)
(***************************************************************************)
EXTENDS Naturals, Sequences

CONSTANTS
    Pages,
    Watcher,      \* the goroutine of watchToolCatalog, as a receiver
    ChannelCap,   \* capacity of a subscriber's channel (100 in the code)
    WireCap,      \* bound on what is under way on an event stream
    MaxCatalogs,  \* bound on the discoveries
    MaxRestarts   \* bound on the restarts of the process

ASSUME FeedAssumption ==
    /\ Watcher \notin Pages
    /\ ChannelCap \in Nat \ {0} /\ WireCap \in Nat \ {0}
    /\ MaxCatalogs \in Nat /\ MaxRestarts \in Nat

VARIABLES
    logged,    \* catalogs encoded so far
    begun,     \* those whose broadcast has begun
    owed,      \* the receivers each broadcast has still to reach
    channel,   \* the receivers' channels
    watcher,   \* where the watcher is: idle, or about to open or write the file
    cached,    \* s.toolCatalog
    disk,      \* tool_catalog.json; 0 when it is absent or does not parse
    failed,    \* history: whether the last save failed
    stream,    \* the event stream of each page: closed, subscribed or streaming
    wire,      \* what handleSSE has written and the page has not handled
    asked,     \* answers of GET /api/tools under way
    tab,       \* the catalog of allTools
    astray,    \* history: while the page's stream was open, broadcasts overlapped or
               \* the watcher or the page missed a catalog
    blind,     \* history: it subscribed, and was sent the cached catalog, while a newer
               \* one waited in the watcher's channel
    late,      \* history: an answer of GET /api/tools came after a newer catalog
    restarts

loggerVars == <<logged, begun>>
watchVars == <<watcher, cached, disk, failed>>
pageVars == <<stream, wire, asked, tab>>
historyVars == <<astray, blind, late>>
catalogVars == <<loggerVars, owed, channel, watchVars, pageVars, historyVars, restarts>>

Catalogs == 1..MaxCatalogs
CatalogEntry == {0} \cup Catalogs
Receivers == Pages \cup {Watcher}

CatalogTypeOK ==
    /\ logged \in CatalogEntry
    /\ begun \subseteq 1..logged
    /\ owed \in [Catalogs -> SUBSET Receivers]
    /\ channel \in [Receivers -> Seq(CatalogEntry)]
    /\ \A r \in Receivers : Len(channel[r]) <= ChannelCap
    /\ watcher \in {"idle", "open", "write"}
    /\ {cached, disk} \subseteq CatalogEntry
    /\ failed \in BOOLEAN
    /\ stream \in [Pages -> {"closed", "subscribed", "streaming"}]
    /\ wire \in [Pages -> Seq(CatalogEntry)]
    /\ \A p \in Pages : Len(wire[p]) <= WireCap
    /\ asked \in [Pages -> SUBSET CatalogEntry]
    /\ tab \in [Pages -> CatalogEntry]
    /\ {astray, blind, late} \subseteq [Pages -> BOOLEAN]
    /\ restarts \in 0..MaxRestarts

CatalogInit ==
    /\ logged = 0 /\ begun = {}
    /\ owed = [k \in Catalogs |-> {}]
    /\ channel = [r \in Receivers |-> <<>>]
    /\ watcher = "idle" /\ cached = 0 /\ disk = 0 /\ failed = FALSE
    /\ stream = [p \in Pages |-> "closed"] /\ wire = [p \in Pages |-> <<>>]
    /\ asked = [p \in Pages |-> {}] /\ tab = [p \in Pages |-> 0]
    /\ astray = [p \in Pages |-> FALSE] /\ blind = [p \in Pages |-> FALSE]
    /\ late = [p \in Pages |-> FALSE]
    /\ restarts = 0

\* The process ends at any point and starts again: Start loads the saved catalog
\* (loadPersistedCatalog), streams break, requests fail, pages stay as they are.
RestartWith(loaded) ==
    /\ restarts < MaxRestarts
    /\ restarts' = restarts + 1
    /\ begun' = 1..logged
    /\ owed' = [k \in Catalogs |-> {}]
    /\ channel' = [r \in Receivers |-> <<>>]
    /\ watcher' = "idle" /\ cached' = loaded /\ failed' = FALSE
    /\ stream' = [p \in Pages |-> "closed"] /\ wire' = [p \in Pages |-> <<>>]
    /\ asked' = [p \in Pages |-> {}]
    /\ astray' = [p \in Pages |-> FALSE] /\ blind' = [p \in Pages |-> FALSE]
    /\ late' = [p \in Pages |-> FALSE]
    /\ UNCHANGED <<logged, disk, tab>>

\* Variant: the saved catalog is not loaded.
RestartEmpty == RestartWith(0)
Restart == RestartWith(disk)

-----------------------------------------------------------------------------
(* The logger.                                                              *)

\* Variant: the stream subscribes when it has sent the cached catalog.
ListeningLate(p) == stream[p] = "streaming"

\* handleSSE subscribes before it reads the cached catalog.
Listening(p) == stream[p] # "closed"

\* A connection that has discovered logs its catalog: it is encoded under l.mu ...
LogCatalog ==
    /\ logged < MaxCatalogs
    /\ logged' = logged + 1
    /\ UNCHANGED <<begun, owed, channel, watchVars, pageVars, historyVars, restarts>>

UnderWay == \E k \in Catalogs : owed[k] # {}

\* ... and broadcast without it, under the read lock of the subscribers.
Begin(k) ==
    /\ k \in 1..logged /\ k \notin begun
    /\ begun' = begun \cup {k}
    /\ owed' = [owed EXCEPT ![k] = {p \in Pages : Listening(p)} \cup {Watcher}]
    /\ astray' = [p \in Pages |-> astray[p] \/ (stream[p] # "closed" /\ UnderWay)]
    /\ UNCHANGED <<logged, channel, watchVars, pageVars, blind, late, restarts>>

HasRoom(r) == Len(channel[r]) < ChannelCap

\* One receiver gets the catalog, or drops it when its channel is full (a select
\* with a default).  A page that gets it has everything that comes after it.
Deliver(k, r) ==
    /\ r \in owed[k]
    /\ owed' = [owed EXCEPT ![k] = @ \ {r}]
    /\ \/ /\ HasRoom(r)
          /\ channel' = [channel EXCEPT ![r] = Append(@, k)]
          /\ blind' = [p \in Pages |-> blind[p] /\ p # r]
          /\ UNCHANGED astray
       \/ /\ ~HasRoom(r)
          /\ astray' = [p \in Pages |-> astray[p] \/ (stream[p] # "closed" /\ r \in {p, Watcher})]
          /\ UNCHANGED <<channel, blind>>
    /\ UNCHANGED <<loggerVars, watchVars, pageVars, late, restarts>>

\* Entries of other types, the error of a failed save included, only take room in
\* the channels: any of them may come to a receiver at any time.
LogOther(r) ==
    /\ r = Watcher \/ (r \in Pages /\ Listening(r))
    /\ HasRoom(r)
    /\ channel' = [channel EXCEPT ![r] = Append(@, 0)]
    /\ UNCHANGED <<loggerVars, owed, watchVars, pageVars, historyVars, restarts>>

-----------------------------------------------------------------------------
(* watchToolCatalog.                                                        *)

\* An entry of another type is skipped, a catalog is cached under toolMu ...
Watch ==
    LET e == Head(channel[Watcher])
    IN  /\ watcher = "idle" /\ channel[Watcher] # <<>>
        /\ channel' = [channel EXCEPT ![Watcher] = Tail(@)]
        /\ \/ e = 0 /\ UNCHANGED <<watcher, cached>>
           \/ e # 0 /\ cached' = e /\ watcher' = "open"
        /\ UNCHANGED <<loggerVars, owed, disk, failed, pageVars, historyVars, restarts>>

\* ... and saved without it: os.WriteFile truncates the file ...
OpenFile ==
    /\ watcher = "open"
    /\ watcher' = "write" /\ disk' = 0
    /\ UNCHANGED <<loggerVars, owed, channel, cached, failed, pageVars, historyVars, restarts>>

\* ... and writes it.
WriteFile ==
    /\ watcher = "write"
    /\ watcher' = "idle" /\ disk' = cached /\ failed' = FALSE
    /\ UNCHANGED <<loggerVars, owed, channel, cached, pageVars, historyVars, restarts>>

\* A save that fails is logged, and the watcher goes on.
SaveFails ==
    /\ watcher \in {"open", "write"}
    /\ watcher' = "idle" /\ failed' = TRUE
    /\ UNCHANGED <<loggerVars, owed, channel, cached, disk, pageVars, historyVars, restarts>>

\* No catalog is on its way to the cache.
NoCatalog(q) == \A i \in 1..Len(q) : q[i] = 0
Settled == (\A k \in Catalogs : Watcher \notin owed[k]) /\ NoCatalog(channel[Watcher])

-----------------------------------------------------------------------------
(* handleSSE and the page.                                                  *)

\* Subscribing takes the write lock: no broadcast is under way.
OpenStream(p) ==
    /\ stream[p] = "closed" /\ ~UnderWay
    /\ stream' = [stream EXCEPT ![p] = "subscribed"]
    /\ blind' = [blind EXCEPT ![p] = ~Settled]
    /\ UNCHANGED <<loggerVars, owed, channel, watchVars, wire, asked, tab, astray, late, restarts>>

\* Variant: the stream waits for a first catalog.
SendCachedWaiting(p) ==
    /\ stream[p] = "subscribed"
    /\ cached # 0
    /\ stream' = [stream EXCEPT ![p] = "streaming"]
    /\ wire' = [wire EXCEPT ![p] = Append(@, cached)]
    /\ blind' = [blind EXCEPT ![p] = @ /\ ~Settled]
    /\ UNCHANGED <<loggerVars, owed, channel, watchVars, asked, tab, astray, late, restarts>>

\* The cached catalog, if there is one, is the first thing on the stream.
SendCached(p) ==
    /\ stream[p] = "subscribed"
    /\ stream' = [stream EXCEPT ![p] = "streaming"]
    /\ wire' = [wire EXCEPT ![p] = IF cached = 0 THEN @ ELSE Append(@, cached)]
    /\ blind' = [blind EXCEPT ![p] = @ /\ ~Settled]
    /\ UNCHANGED <<loggerVars, owed, channel, watchVars, asked, tab, astray, late, restarts>>

Forward(p) ==
    /\ stream[p] = "streaming" /\ channel[p] # <<>>
    /\ Len(wire[p]) < WireCap
    /\ wire' = [wire EXCEPT ![p] = Append(@, Head(channel[p]))]
    /\ channel' = [channel EXCEPT ![p] = Tail(@)]
    /\ UNCHANGED <<loggerVars, owed, watchVars, stream, asked, tab, historyVars, restarts>>

\* The log event: applyToolCatalog shows a catalog as it comes.
Hear(p) ==
    LET e == Head(wire[p])
    IN  /\ wire[p] # <<>>
        /\ wire' = [wire EXCEPT ![p] = Tail(@)]
        /\ \/ e = 0 /\ UNCHANGED <<tab, late>>
           \/ e # 0 /\ tab' = [tab EXCEPT ![p] = e] /\ late' = [late EXCEPT ![p] = FALSE]
        /\ UNCHANGED <<loggerVars, owed, channel, watchVars, stream, asked, astray, blind, restarts>>

\* The stream breaks, or the page closes it; scheduleReconnect opens another, and
\* nothing reads the channel any more, whatever still comes before Unsubscribe.
Disconnect(p) ==
    /\ stream[p] # "closed"
    /\ stream' = [stream EXCEPT ![p] = "closed"] /\ wire' = [wire EXCEPT ![p] = <<>>]
    /\ channel' = [channel EXCEPT ![p] = <<>>]
    /\ owed' = [k \in Catalogs |-> owed[k] \ {p}]
    /\ astray' = [astray EXCEPT ![p] = FALSE] /\ blind' = [blind EXCEPT ![p] = FALSE]
    /\ late' = [late EXCEPT ![p] = FALSE]
    /\ UNCHANGED <<loggerVars, watchVars, asked, tab, restarts>>

\* loadTools, at boot and whenever the tab is opened: handleTools answers with
\* the cached catalog, annotated with the overrides of the moment ...
LoadTools(p) ==
    /\ asked' = [asked EXCEPT ![p] = @ \cup {cached}]
    /\ UNCHANGED <<loggerVars, owed, channel, watchVars, stream, wire, tab, historyVars, restarts>>

\* ... and the answer is shown when it arrives.
ToolsLoaded(p, k) ==
    /\ k \in asked[p]
    /\ asked' = [asked EXCEPT ![p] = @ \ {k}]
    /\ tab' = [tab EXCEPT ![p] = k]
    /\ late' = [late EXCEPT ![p] = ~(Settled /\ k = cached)]
    /\ UNCHANGED <<loggerVars, owed, channel, watchVars, stream, wire, astray, blind, restarts>>

-----------------------------------------------------------------------------
Send == \E k \in Catalogs : Begin(k) \/ \E r \in Receivers : Deliver(k, r)
Serve(p) == SendCached(p) \/ Forward(p)
Save == OpenFile \/ WriteFile \/ SaveFails

CatalogNext ==
    \/ LogCatalog \/ Send \/ Watch \/ Save \/ Restart
    \/ \E r \in Receivers : LogOther(r)
    \/ \E p \in Pages :
         \/ OpenStream(p) \/ Serve(p) \/ Hear(p) \/ Disconnect(p) \/ LoadTools(p)
         \/ \E k \in CatalogEntry : ToolsLoaded(p, k)

CatalogSpec == CatalogInit /\ [][CatalogNext]_catalogVars

\* Goroutines go on: those that log never wait for a receiver, the watcher saves what
\* it caches, the stream writes what it has, and what it has written arrives.
CatalogFairness ==
    /\ WF_catalogVars(Send) /\ WF_catalogVars(Watch) /\ WF_catalogVars(Save)
    /\ \A p \in Pages : WF_catalogVars(Serve(p)) /\ WF_catalogVars(Hear(p))

FairCatalogSpec == CatalogSpec /\ CatalogFairness

-----------------------------------------------------------------------------
\* Nothing is on its way to the page.
Quiet(p) == stream[p] = "streaming" /\ channel[p] = <<>> /\ wire[p] = <<>>

\* When nothing more is on its way, a page with an open stream shows the catalog that
\* the server has cached, whatever came before, behind or beside the cached catalog
\* with which the stream begins (lines 187-206).  This is not so when discoveries that
\* were logged together reached watcher and page in different orders, when a full
\* channel dropped one, or when the page was last given a cached catalog that another
\* one was about to replace.
StreamUpToDate ==
    \A p \in Pages :
        Quiet(p) /\ Settled /\ (\A k \in Catalogs : p \notin owed[k]) /\ cached # 0
            => tab[p] = cached \/ astray[p] \/ blind[p] \/ late[p]

\* While the watcher is idle and its last save succeeded, tool_catalog.json holds
\* what the server shows: the catalog "survives reconnects" (line 58).
DiskFollows == watcher = "idle" /\ ~failed => disk = cached

\* A stream that opens brings the page to the server's catalog, unless it breaks or one
\* of the three things that StreamUpToDate names happens.
StreamCatchesUp ==
    \A p \in Pages : stream[p] = "subscribed"
        ~> \/ stream[p] = "streaming" /\ cached \in {0, tab[p]}
           \/ astray[p] \/ blind[p] \/ late[p]
           \/ stream[p] = "closed"
===============================================================================
