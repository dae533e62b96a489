# Verification of feedbackloop

feedbackloop is an MCP proxy written in Go.  It sits between an MCP client and
one or more upstream MCP servers, shows the traffic in a web UI, has an LLM
analyse how the tools are used, and applies the improved tool descriptions the
LLM suggests.  This directory holds TLA+ models of its concurrent core, their
TLC instances and proofs checked by TLAPS.  Paths below are relative to the
repository; `analyzer.go:98` is line 98 of `internal/analysis/analyzer.go`,
`index.html` is `internal/webui/web/index.html` and, where nothing else is said,
`server.go` is `internal/ui/server.go`.

## 1. The system

| component | code | state | operations | talks to |
|---|---|---|---|---|
| Logger | `internal/logger/logger.go` | subscribers and their channels of 100 entries | Log, Subscribe, Unsubscribe | every component logs; the analyzer, the UI watchers and every event stream subscribe |
| Upstream pool and manager | `internal/proxy/upstream_pool.go`, `upstream.go` | entries with status, one session per manager | Add, ConnectAll, CloseAll; Connect, Close | upstream processes; main |
| Tool cache | `internal/proxy/tools.go` | tools, routes and overrides by exposed name; `overrides.json` | DiscoverAllTools, GetTools, UpdateToolDescription, the call handler | pool, logger, disk |
| Proxy server | `internal/proxy/server.go` | one `mcp.Server` per connection | NewProxyServer, Run | tool cache |
| Analyzer | `internal/analysis/analyzer.go` | call statistics, tool catalog, the current report | watch, RunAnalysis, GetReport, SetToolCatalog | logger, LLM |
| UI server, catalog | `internal/ui/server.go` | cached catalog and server status, `tool_catalog.json` | watchToolCatalog, event streams, /api/tools | logger, tool cache, disk |
| UI server, analysis | `internal/ui/server.go` | none of its own | /api/analysis, /api/analyze, /api/apply-recommendations | analyzer, tool cache |
| UI server, settings | `internal/ui/server.go` | model and API key; the configuration file | /api/settings, /api/models | disk |
| UI server, snapshots | `internal/ui/snapshot.go`, `server.go` | log buffer; the snapshot directory | watchLogBuffer, save, list, load, delete | logger, analyzer, disk |
| Web client | `index.html` | event log, tools, report, selection, settings form, snapshot mode | event stream handlers, requests | UI server |
| main | `cmd/feedbackloop/main.go` | none of its own | start, serve over stdio or HTTP, shut down | all |

What is hard in it:

* In HTTP mode every request of a new client builds its own `ProxyServer`
  (`main.go:297`) over one shared tool cache.  Discovery holds the cache's lock
  for a moment at a time and lets go of it for every round trip; the `mcp.Tool`
  objects in the cache are shared by pointer with the servers that registered
  them.  UI requests patch the same objects.
* `overrides.json` is written after the lock is released, by whole-file
  truncate-and-write, and read once at the start.
* ConnectAll runs a goroutine per server with a buffered channel and a
  WaitGroup; upstream processes die on their own.
* The logger broadcasts without waiting: slow subscribers lose entries, and
  unsubscribing closes a channel others may be sending on.  Goroutines broadcast
  side by side, so that two entries may reach two subscribers in different orders.
* Analyses run in the background for up to 120 s while statistics, catalog
  and report are read and written.
* The page polls, hears events and sends requests whose answers race each
  other; a recommendation is known by an id that every report uses again; an
  error card replaces a report and leaves what was checked of it.
* Settings are read, changed and written back as a whole file, without a lock,
  from pages that may show an older file, or the defaults of an unreadable one.
* A snapshot is put together under several locks, one after the other, and named
  by the second; its file may be listed, loaded or deleted while it is written.
* In snapshot mode the page saves the live log, tools and report and brings
  them back later, while events and answers keep arriving.

The properties that make each component correct are listed with its module
below; `PROJECT.json` lists the hazards line by line.

## 2. The modules

Each module is one component with its state, one action per operation (or per
critical section, where an operation lets go of the lock), its invariants and
its fairness.  Definitions marked *Variant* are wrong versions of the one that
follows: they stand for a plausible bug and show that a property would notice it.
They are not part of any specification.  *History* variables only record what
happened, for the properties to refer to.

### ToolCache

One step is one critical section of `tc.mu`, one upstream round trip or one
file-system call.  A connection `c` goes through `NewProxyServer`:

    Connect > (SkipServer | ListToolsFails | ListToolsReturns > MergeTools)*
            > ApplyOverrides > RefreshCatalog > EmitCatalog > RegisterTools > Disconnect

and a request `u` through `UpdateToolDescription`: one critical section, then
`CopyOverrides > OpenFile > WriteFile` (or `WriteFails`).  `Restart` ends the
process at any point and starts it again on the file it left.

`tools`, `routes` and `overrides` are the three maps.  A `*mcp.Tool` is a heap
object, and the object connection `c` allocates for tool `t` of server `s` is
the record `[client, server, tool]`; `text` gives its Description.  So `served`,
what a connection registered, shares objects with `tools` exactly as the code
does, and patching an object changes what every holder of it serves.  Exposed
names are sequences of tokens joined as the code joins strings, so that names
can collide as strings can.  `disk` distinguishes the file being absent, just
truncated, one whole map, or the overlap of two writes.

Properties: `RoutesMatchTools`, `ServedHaveRoutes`, `OverrideInForce`,
`MemoryCoversDisk`, `CatalogShowsOverrides`, `OverrideTakesEffect`; violated: `Saved`
with two requests, `ServedShowOverrides` with three connections.

### UpstreamPool and PoolPromise

`UpstreamPool` is the pool as main drives it: `StartConnectAll`, for every
server `DialSucceeds` or `DialFails` then `SendResult`, `CloseChannel` when the
WaitGroup is done, `Receive` for every result, `ConnectAllReturns`, then
`StopServing`, `CloseEntry` per server and `Exit`.  `UpstreamDies` may happen
to any open session.  `PoolPromise` says what ConnectAll promises: it decides
every server once and then answers, with an error exactly when none connected.
`KeepsPromise` is the refinement: `outcome <- status`, and `verdict` is read
off main's position.

### LogBus

`Log` is `Encode`, `BeginBroadcast` (RLock), `SendOrDrop` per subscriber in any
order, `EndBroadcast`.  `Subscribe` and `Unsubscribe` need the write lock, and a
waiting `Unsubscribe` keeps new readers out, as `sync.RWMutex` does.  Consumers
read when they like, or never.  History variables `from` and `lost` say what a
subscriber is due and what was dropped.

### AnalysisJob

The life of an analysis: `RunAnalysis`, `TakeSnapshot`, `Finish`, `Announce`.
The three modules that need analyses extend it: `Analyzer` for what an analysis
reads, `AnalysisPage` for what is done with its report, `Snapshots` for what is
saved of it.

### Analyzer

Tool calls log a request and an outcome (`Call`, `Return`: the log entries of
`CreateProxyHandler`), discovery logs the catalog, a bounded channel carries the
entries (LogBus for one subscriber) and `HandleEntry` counts.  A report's body is
the counts of its snapshot.

### AnalysisPage

The pages of the web UI that start analyses, poll, render, check
recommendations and have them applied.  `view` is what a page has: the report it
rendered last (`Render`), whether an error card has taken its place (`ShowError`, for a
load or a start that failed), `selectedRecs`, and which buttons work.  The error card
leaves selection and Apply Selected as they are; rendering any answer makes Run Analysis
work again, so that several POSTs may be under way; each checkbox turns Apply Selected
on again while a request runs.  Requests and answers are separate steps, and
`handleApplyRecommendations` is one step per id, since it lets analyses end
in between.  A report's body is the set of its recommendations' ids; since the LLM
is asked for, and `doAnalysis` fills in, `rec_001`, `rec_002`, ..., all reports
share ids, and a recommendation is a pair of run and id.  With `Overtaking`, a
later answer may arrive first; with `Faults`, an event may miss a page whose
stream is down or whose channel is full, and requests fail.  `disturbed`, a history
variable, says which pages that happened to.

Properties: `SelectionShown`, `OneReportPerRequest`, `PageCatchesUp`.

### CatalogFeed

How a catalog gets from discovery to the Tools tab.  A connection's goroutine
encodes it (`LogCatalog`) and broadcasts it to one receiver after the other (`Begin`,
`Deliver`; `owed` is what is left to do), beside the broadcasts of other connections.
The UI server's watcher hears it (`Watch`), caches it and saves it (`OpenFile`,
`WriteFile`, `SaveFails`); an event stream subscribes, sends the cached catalog and
then what its channel holds (`OpenStream`, `SendCached`, `Forward`); the page shows what
the stream brings (`Hear`) and what its own requests answer (`LoadTools`,
`ToolsLoaded`).  Streams break and open again (`Disconnect`); the process ends at any
step and starts on the file it left (`Restart`).  Entries of other types only fill
channels (`LogOther`).

Server and page show the same catalog in the end, but for three cases that history
variables name: broadcasts overlapped, or watcher or page missed one, while the stream
was open (`astray`); the stream was given a cached catalog while a newer one, logged
before it subscribed, waited in the watcher's channel (`blind`); an answer of
GET /api/tools was shown over a newer event (`late`).

Properties: `StreamUpToDate`, `DiskFollows`, `StreamCatchesUp`.

### Settings

The settings tab over `handleSettings` and `handleModels`.  A page asks for the
settings (`GetSettings`, `SettingsLoaded`, `LoadFails`), then for the models to
choose from (`AskForModels`, `ModelsListed`, `ModelsFail`), and sends what its
form holds (`SaveSettings`).  The server reads the file and merges (`ReadAndMerge`),
truncates it and writes it (`OpenFile`, `WriteFile`, `WriteFails`), one step each,
and answers (`SaveAnswered`).  The process may end in any of them (`Crash`) and starts
only on a file it can read (`Start`: `main.go:167-171` gives up on another).

`file` is whole, empty (truncated) or garbled (parts of two writes, or of one).
`wanted` is the history of what the saves so far should have left, and `harm`
says which of four things happened that the handlers are no match for: saves that
overlapped, a save that was cut short, a page that was told the defaults of an
unreadable file, a page that took the blank option of a missing list of models for
the model.  The properties claim exactly what holds short of these.

Properties: `SavedSettingsKept`, `MemoryAgrees`, `ServersKept`, `ModelKept`.

### Snapshots

`watchLogBuffer` keeps the last entries (`Watch`); a request copies them and takes
the report (`TakePart`, one lock each, in the order of `Parts`), is stamped with
the second and gets a file name from it and its sanitized name (`Stamp`), and is
written (`OpenFile`, `WriteFile`, `WriteFails`).  Pages `List` and `Delete` files at any
step between; a file deleted while it is open is written without a name, and the
request succeeds all the same.  `Restart` empties memory and keeps the directory.
Analyses are numbered as they start, so that one can be said to be older.

Properties: `SavedIsKept`, `ReportFollowsLog`, `ListedLoads`.

### LogView

The event log of one page.  Entries come over the stream (`HearOther`,
`HearCatalog`, `HearReport`), are kept up to `MAX` (`Evict`) and get their element in
the next frame (`Flush`).  `EnterSnapshotMode` puts a snapshot in the place of log,
tools and report and `ExitSnapshotMode` brings back what was there.  In between,
entries are dropped, as the comment at `index.html:2388` says, but the answers
and events of the two other tabs are still shown, as the code does.  `Keep` is the
loop of `exitSnapshotMode` over the saved entries (`index.html:4329`): it selects as
`SelectSeq` does, but is not recursive, so that it can be proved about;
`MCLogView` compares the two on all short sequences.

Properties: `SnapshotUnmixed`, `LiveRestored`, `FeedShows`.

### MC modules

`MCToolCache`, `MCUpstreamPool`, `MCLogBus`, `MCAnalyzer`, `MCAnalysisPage`,
`MCCatalogFeed`, `MCSettings`, `MCSnapshots` and `MCLogView` extend a component,
declare model values and define the values of its constants; the `.cfg` files
choose among them.

## 3. What TLC checks

| run | instance | properties | shows |
|---|---|---|---|
| `CacheConnections` | 2 clients, 2 servers with colliding names, 1 request, failing writes, 1 restart; fair | `RoutesMatchTools`, `ServedHaveRoutes`, `OverrideInForce`, `MemoryCoversDisk`, `CatalogShowsOverrides`, `OverrideTakesEffect` | tools and routes change hands together; a served tool has a route; overrides are in force once merged tools are patched, shown in catalog events and take effect; the file never holds one that memory lost |
| `CacheStaleServed` | 3 clients, 1 tool, 1 request, 1 restart | **violation** of `ServedShowOverrides` | a client that connects keeps the upstream text of an overridden tool |
| `CacheLostOverride` | 2 requests | **violation** of `Saved` | an override is in memory and not on disk |
| `PoolStartToExit` | 3 servers; fair | `ConnectedHasSession`, `ChannelSafe`, `NoOrphans`, `KeepsPromise`, `ConnectAllEnds` | the promise of ConnectAll, no orphan, ConnectAll returns |
| `Bus` | 2 goroutines with 2 entries, 2 subscribers, capacity 2; fair | `NoSendOnClosed`, `InOrder`, `Accounted`, `NeverBlocks` | no send on a closed channel, order, every entry accounted for, the logger never waits |
| `AnalyzerCounts` | 2 calls, 1 discovery, 2 analyses, capacity 2; fair | `OneAnalysis`, `ErrorsWithinCalls`, `CountsGrow`, `NoOldAnswer`, `AnalysisEnds` | one analysis at a time, counts that add up and grow, every analysis ends |
| `PageApplies` | 1 page, 2 analyses, 2 ids, 2 apply requests, 1 answer of each kind under way, faults; symmetric | `OneReportPerRequest` | a request applies from one report, whatever analyses end meanwhile |
| `PageShows` | 1 page, 2 analyses, 1 id, 2 answers of each kind under way, overtaking, faults; fair | `SelectionShown`, `PageCatchesUp` | what is checked is of the report rendered last; a page that shows "running" shows the outcome unless it was disturbed |
| `Feed` | 1 page, 2 discoveries at once, capacity 2, 1 restart; fair | `StreamUpToDate`, `DiskFollows`, `StreamCatchesUp` | a stream with nothing more to bring shows what the server has cached, and gets that far, but for the three cases; the file follows the cache |
| `SettingsKept` | 2 pages, 2 models, 1 key, 2 loads, 2 saves, 2 answers under way, 1 crash | `SavedSettingsKept`, `MemoryAgrees`, `ServersKept`, `ModelKept` | the file holds what was saved last; memory agrees with it; servers and model are lost in no way but the two named |
| `SnapshotsKept` | 2 requests whose names become one, 2 seconds, 1 analysis, buffer of 2, channel of 1, 1 restart | `TypeOK`, `SavedIsKept`, `ReportFollowsLog`, `ListedLoads` | a saved snapshot stays; its report is not older than its log; what is listed can be loaded or is gone |
| `LogViewRestored` | log of 2, 3 entries, a snapshot of 3 entries and an empty one | `SnapshotUnmixed`, `LiveRestored`, `FeedShows` | live entries and snapshots do not mix; the live session comes back; the elements are those of the entries |

**Bounds.**  Two connections are the fewest that interleave discoveries, three the
fewest of which one replaces what another merged and a third registered, and names that
collide are the hardest case for the two maps.  Two requests are the fewest that save at
once, for overrides, settings and snapshots alike; `CacheConnections` has one, since its
properties fail of no write that another overtakes, and `DiskCovered` is proved for any
number.  One restart lets a process load what the one before it left.  A
channel of two entries keeps an order and is full as soon as two wait in it, as
one of 100 is when a hundred do.  Two analyses are the fewest in which an older
one could come back, and two ids the fewest of which one is applied and one is
not; two answers under way are the fewest of which one overtakes the other, and
`PageApplies`, which is about the handler, needs neither.  Two catalogs are the fewest
of which one is older or overtakes the other, and other entries fill the channels
beside them; pages do not interact in `CatalogFeed` and
`AnalysisPage` but by the analysis they share, which a page of its own cannot tell
from one that another page started, so one is enough.  Two models are the fewest
of which the form may show the wrong one.  Two seconds and names that are sanitized
to the same are the fewest in which files collide and in which they do not; three
entries overflow a log of two, and a snapshot that is longer than the log shows
that it is not cut.  `MaxCalls`, `MaxCatalogs`, `WireCap`, `MaxDiscoveries`,
`MaxEvents`, `MaxArrivals`, `MaxRestarts`, `MaxCrashes`, `MaxInFlight`, `MaxLoads`,
`MaxSaves`, `MaxOthers` and `MaxSecond` only keep counters and queues finite.
`SettingsKept` is run with symmetry of the pages, `SnapshotsKept` with symmetry of
the requests and `PageApplies` with symmetry of ids and apply requests; none of the
three checks liveness, and no specification tells them apart.

Deadlock is not checked: clients leave, calls and analyses are bounded, the
proxy exits; the systems may stop.

**Fairness.**  A connection's goroutine goes on (`ListTools` has a 30 s context)
and a request that has stored its override goes on to save it.  Goroutines of
ConnectAll go on, a dial ends within 10 s and a Close with the process killed.
Goroutines that log go on and an unsubscriber gets the lock; no consumer has to
read.  The analysis's goroutine goes on, the LLM call within its 120 s.  A page's
timer fires and answers and events that are under way arrive.  In `CatalogFeed`, the
goroutines that broadcast, the watcher and the event stream go on and what a stream has
written arrives; nobody has to discover.  Nobody has to connect, call, click or leave.

**Where the code differs from what it says** (`findings` in `PROJECT.json`):

* `CacheLostOverride`: of two overlapping requests, the older copy of the
  overrides may be written last; the newer override is then not on disk.
* `CacheStaleServed`: `main.go:295-296` builds a server per request "so that description
  overrides are applied on every reconnect".  With an override stored before, connection
  1 is about to register as 2 merges fresh objects; 1 registers them unpatched, 3 merges
  its own in their place, and `applyOverrides` of 2 and 3 patch those of 3 only: the
  client of 1 is served the upstream text.  Two connections do the same when exposed
  names collide and the override was stored before a restart.

The models show more of the kind, which no run asks for.

* *Tool cache.*  A process that ends between truncating and writing
  `overrides.json` loses every override (look at `Restart` from a truncated
  file).  A catalog event shows the upstream text of an overridden tool when another
  connection merges the tool between `applyOverrides` and the refresh: the one case that
  `CatalogShowsOverrides` leaves out.  Tools an
  upstream stops listing stay cached and served (`tools.go:305`).
* *Pool.*  A dead upstream stays "connected", since `Wait` (`upstream.go:87`) is
  never called.
* *Analysis.*  The live catalog never reaches the analyzer, because `analyzer.go:98`
  asserts `[]interface{}` and `tools.go:391` logs a `[]map[string]interface{}`
  (`Handled`): without a persisted catalog, every analysis says that no tools were
  discovered.  Recommendations are applied by id from the report of the moment,
  not from the one the user looked at.  A load or a start that fails replaces the report
  by an error card and leaves what was checked of it, and Apply Selected, as they were:
  what is applied then is not on the screen.  With `Overtaking`, a page can stay on
  "running", when a poll's answer arrives after the final report has ended the
  polling.  `badges` is never cleared over reports that reuse ids, so a new
  recommendation can show the Applied badge of an older one.  `duration_ms` is
  logged as an int64 and asserted as a float64 (`analyzer.go:132`): the total
  duration of every tool stays 0.
* *Catalog.*  Of two catalogs logged at once, the later may reach the watcher first: cache
  and file then keep the older one, and a page may keep another one than the server
  (`astray`).  The answer of GET /api/tools is shown whenever it arrives, over a
  newer catalog that came as an event in the meantime (`late`).  A page that subscribes
  between the broadcast of a catalog and the watcher's `Watch` is sent the older one
  and not the newer (`blind`).
* *Settings.*  Two saves that overlap, or one that is cut short, lose the API key
  and the unknown keys the comments at `server.go:856` and `894` mean to keep: a
  save that reads a truncated file merges into nothing.  A save without a model takes it
  out of the file while the server goes on with the one it had, and the analyzer keeps the
  model and key it was created with (`main.go:114`).  The next process does not
  start on the file a crash left.  A page that asks while a save has the file
  truncated is told that there are no servers.  One that saves while its list of
  models is missing deletes the model.  An answer of GET that arrives late replaces
  what the user has typed.
* *Snapshots.*  A snapshot that is deleted while it is written reports success and
  leaves nothing.  Two with the same safe name in the same second become one file.
  The comment that a snapshot is of one point in time (`snapshot.go:15`) holds of
  log and report as far as `ReportFollowsLog` says, and no further.
* *Log view.*  Loading a snapshot while one is shown saves the first as the live
  state, and the live log is gone.  Entries that wait for their frame as a snapshot
  is loaded are counted and never shown.  Entries that give way before they have an
  element leave it in the page for good.  Leaving a snapshot brings back the tools and
  report of the moment it was loaded, a "running" one included, over newer ones.

## 4. What is proved

TLAPS proves these for every value of the constants that meets the named
`ASSUME` of the module, without the bounds above: any number of clients, servers,
goroutines, analyses, pages, snapshots, requests; any capacity.  Four of them say more in
their hypotheses, because the code promises no more.  `CatalogShownAlone` and
`ServedShownAlone` are about runs in which connections discover one at a time
(`OneDiscovers`), and `CatalogShown` about one client, which is the stdio transport.
`ImplementsJob` of `AnalyzerProofs` takes any counts for a report's body.  Section 3 says
what happens otherwise.

| module | theorems | argument |
|---|---|---|
| `ToolCacheProofs` | `Inductive`, `TypeCorrect`, `RoutesAgree`, `NoNilSession`, `OverridesInForce`, `DiskCovered` | `IInv` |
| | `RefreshShows`; `CatalogShownAlone`, `CatalogShown`, `ServedShownAlone` | `MergedCached`; `CatalogInv`, `ServedInv` |
| `UpstreamPoolProofs` | `Inductive`, `SessionBehindStatus`, `ChannelNeverBlocks`, `NoOrphanLeft`, `PromiseKept` | `IInv`, then step simulation |
| `EventProofs`, of `LogBus` | `Inductive`, `NoPanic`, `Ordered`, `Bounded`, `NothingUnaccounted` | `IInv`, `AccountInv` |
| of `CatalogFeed` | `FileFollows`, `CatalogInductive`, `StreamBrings` | `CatalogInv` |
| of `LogView` | `ViewInductive`, `NeverMixed`, `LiveComesBack`, `FeedInductive`, `FeedFollows` | `ViewInv`, `FeedKept` |
| `AnalysisJobProofs` | `JobInductive` | `JobCore` |
| `AnalyzerProofs` | `OneAtATime`, `NoOldReport`, `ImplementsJob`, `NoFewerCalls`, `ErrorsCounted` | `JobCore`; step simulation under `DataInv`; `GrowInv`; `CountInv` |
| `AnalysisPageProofs` | `ImplementsJob`, `TypeCorrect`, `SelectionStays`, `AppliedRecommended`, `OneReport` | step simulation; `ReadInv` |
| `SettingsProofs` | `TypeCorrect`, `SavedKept`, `MemoryKept`, `ServersStay`, `ModelStays` | `SavedInv`, `ServersOnTheWay`, `ModelOnTheWay` |
| `SnapshotsProofs` | `TypeCorrect`, `SavedStays`, `ListedLoad`, `ReportFollows` | `PlaceInv`, `FileInv`, `WrittenInv`, `ReportsInv` |

**Tool cache.**  `RoutesMatchTools` needs to know that a merge uses the answer of
a connected server (`AskedConnected`).  `ServedHaveRoutes` follows because routes
are only ever replaced, never removed.  `MemoryCoversDisk` is not inductive
alone, as a request may still write an old copy: `CopiesCovered` says that no
copy has an override memory lacks.  `OverrideInForce` holds because only the
connection that merged an object is between its merge and its
`applyOverrides` while the object shows something else.

What is shown is a matter of when the objects are patched.  `RefreshShows` combines
`OverrideInForce` with `MergedCached`: what a connection merged stays cached, be it as
another's object.  `KnownInv` says that an override, once there, stays; `AllocatedInv` that
an object in the cache, or served, comes from a server its connection is past, so that no
later merge allocates it again.  When one connection discovers at a time, the objects it
registers are in the cache until then, where `OverrideInForce` has them patched
(`ServedInv`), and its event is built from them (`CatalogInv`).

**Pool.**  `DialInv` ties a goroutine's position to its session, `ResultInv`
makes a result in the channel the only and true news of its server,
`StatusInv` and `PhaseInv` carry that to main.  `ChannelSafe` follows by
counting: the results in the channel belong to goroutines that have sent, so a
goroutine that has not finds room.  `PromiseKept` maps `Receive` to `Decide`,
`ConnectAllReturns` to `Answer` and every other step to a stutter.

**Bus.**  `LockInv` says that broadcasts in progress only hold live subscribers.
`InOrder` needs `FeedInv`: what has reached a subscriber is older than what its
goroutine has still to send there.  `NothingUnaccounted` compares, for each goroutine,
the numbers of the entries a subscriber got or lost with those between its
subscription and the broadcasts that are past it (`GotDue`).

**Catalog feed.**  `FileFollows` is inductive as it stands.  `StreamBrings` is about
what is under way.  `ToCache` says with which catalog it leaves the server, `ToPage`
with which it leaves a page: that of a broadcast which has yet to arrive or else the
last one in the channel, and for a page on the wire before it.  As long as a
stream is not `astray`, at most one broadcast is under way and it leaves
the server with its own catalog (`Alone`), so that both end with the same one (`Meet`).
The cached catalog is the only one that comes out of turn, and unless the stream is
`blind`, a newer one, if there is any, is coming behind it (`Ready`).

**Log view.**  `LiveKept` says of the live log, be it shown or put away, what
`LiveRestored` says of it when it is shown; an eviction keeps the newest entries of a
history that grew by one (`NewestAppend`).  `FeedKept` says which entries
have an element, wait for one, were swallowed or strayed (`FeedMatches`), and that entries,
elements and those that wait rise in number, elements before those that wait
(`FeedRises`).  `KeptElements` says what `Keep` returns and that it still
rises, and two rising sequences of the same elements are the same (`SameRise`).  The
theorems about the three modules an entry passes are in one module, `EventProofs`, which
extends them all.

**Analyses.**  `JobCore` ties the report's status to the one analysis that is
active; it leaves open what reports carry, so that it needs no bound on the
statistics.  `AnalyzerProofs`, `AnalysisPageProofs` and `SnapshotsProofs` use its lemmas.

`ImplementsJob` shows that every step of `Analyzer`, and every step of
`AnalysisPage`, is a step of `AnalysisJob` or leaves the analyses alone, so that what is
proved of analyses holds under both; for `Analyzer` it assumes that any counts may be a
report's body, and needs that the counts stay counts (`DataInv`).

`NoFewerCalls` orders the copies of the statistics: those of analyses that are past are not
above that of the running one, nor any above the statistics (`GrowInv`).
`ErrorsCounted` counts: in the statistics, and after any prefix of the channel, a tool has no
more errors than calls, and behind the whole channel there is room for the errors of
the calls that are still to return (`CountInv`).

**Page.**  `SelectionShown` is inductive with `TypeOK`.  `OneReport` and
`AppliedRecommended` need `ReadInv`: a complete report that a request has read is of an
analysis that ran, and the request has applied only recommendations of that report.

**Settings.**  As long as no saves overlapped and none was cut short, there is at
most one writer (`OneWriter`), what it has in hand is the file as wanted (`WriterInv`)
and, when there is none, the file itself is (`FileInv`); `MemoryInv` says the same of
model and key, and `DownInv` that a process that ended left no save under way.  An
empty server list would have to be on its way first: `ServersOnTheWay` follows it from
an answer to a form, a request and a configuration to be written, and
`ModelOnTheWay` does so for the blank model, through the lists that are under way.

**Snapshots.**  `PlaceInv` ties a request's phase to the parts it has and to its
file's name.  `FileInv` says that a saved file changes only by a deletion or by a
request that collides; `WrittenInv` that a listed file is whole unless such a request
has it open.  `ReportsInv` is about order: an analysis whose end is stored or
announced is not newer than the report (`StoredPast`), nor are those whose
announcement is in the channel or the buffer (`Follows`); taking the log first and the
report second then makes the report follow the log (`TakenPast`).

**Only model-checked**: the liveness properties (`OverrideTakesEffect`,
`ConnectAllEnds`, `NeverBlocks`, `AnalysisEnds`, `PageCatchesUp`,
`StreamCatchesUp`), which need fairness and are out of the prover's reach.

## 5. What is not modelled

* In `CatalogFeed`: the annotation of the answer with the overrides of the moment
  (`server.go:526`), the write of `s.toolCache` by main after `Start`, which is
  without a lock (`server.go:114`), and the status of the servers
  (`updateServersStatus`, GET /api/servers).
* In `AnalysisPage`: that the report of a snapshot takes the place of `currentReport`
  while it is shown (`LogView` has that, without the selection).
* In `UpstreamPool`: a proxy that is killed, which closes nothing.
* In `Settings`: the settings besides servers, model and API key, which travel with
  the servers in one request; that `s.apiKey` is read and written without a lock;
  users who empty the server list or choose the blank model on purpose.
* In `Snapshots`: the tool catalog, copied like the two other parts, under its own
  lock between them; loading a snapshot only reads, and `ListedLoads` says what it
  finds.
* In `LogView`: filters, search, details, the counts of calls beside the tools
  (`toolCallCounts`) and the event that one description changed
  (`handleToolDescriptionUpdated`); the form to save a snapshot.
* `DiscoverTools` (`tools.go:171`), `Wait` and `Ping` (`upstream.go`): no caller.
* `LoadConfig` and `ResolveAllServers`: called by main, their source is not in
  the repository.
* go-sdk and the LLM: external.  That `AddTool` keeps the pointer it is given is
  the one fact about go-sdk the models use.
* Contents of calls, prompts, descriptions beyond "upstream or override",
  durations, markup, styles, flags and ports.
* An analyzer without an API key: nothing starts.

## 6. What is left

1. The tool catalog of a snapshot, and what a snapshot promises of it.
2. An abstract bus that delivers or drops one entry at a time to each subscriber, which
   `LogBus` implements and on which `CatalogFeed` and `Analyzer` could be based.
