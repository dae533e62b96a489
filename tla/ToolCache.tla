------------------------------ MODULE ToolCache ------------------------------
(***************************************************************************)
(* The shared tool cache of internal/proxy/tools.go, as its callers use    *)
(* it: every client connection runs NewProxyServer (server.go), which      *)
(* discovers the tools of every connected upstream and registers them,     *)
(* while requests of the web UI override tool descriptions and save the    *)
(* overrides to overrides.json.  A step is one critical section of tc.mu,  *)
(* one upstream round trip or one file-system call: the code holds no lock *)
(* between them, so steps of connections and requests interleave freely.   *)
(*                                                                         *)
(* A *mcp.Tool is a heap object.  Each connection discovers once, so the   *)
(* object it allocates for tool t of server s is [client, server, tool].   *)
(* mcp.Server.AddTool (go-sdk, external) keeps the pointer it is given.    *)
(***************************************************************************)
EXTENDS Sequences, FiniteSets, Naturals

CONSTANTS
    Clients,       \* client connections, one NewProxyServer each
    Servers,       \* keys of the configured upstream servers, token sequences
    ToolNames,     \* tool names the upstreams use, token sequences
    Offers,        \* [Servers -> SUBSET ToolNames]: what each server may list
    Updaters,      \* concurrent UI requests that override descriptions
    Texts,         \* override descriptions
    UpstreamText,  \* the description that comes with a tool
    NoText,        \* "no override"
    NoTool,        \* "not in tc.tools"
    NoRoute,       \* "not in tc.routes"
    DiskFaults,    \* TRUE when writing overrides.json may fail
    MaxRestarts    \* bound on the restarts of the process

\* Names are joined as the code joins strings; MultiServer counts registered
\* servers, connected or not (UpstreamPool.IsMultiServer).
MultiServer == Cardinality(Servers) > 1
ExposedName(s, t) == IF MultiServer THEN s \o <<"__">> \o t ELSE t
Names == {ExposedName(s, t) : s \in Servers, t \in ToolNames}

Object == [client : Clients, server : Servers, tool : ToolNames]
Route == [server : Servers, tool : ToolNames]
Text == Texts \cup {UpstreamText}
OverrideMap == [Names -> Texts \cup {NoText}]
NoOverrides == [n \in Names |-> NoText]
ToolMap == [Names -> Object \cup {NoTool}]
NoTools == [n \in Names |-> NoTool]
NoRoutes == [n \in Names |-> NoRoute]
AnyName == CHOOSE n \in Names : TRUE
NameOf(o) == ExposedName(o.server, o.tool)

CatalogEntry == [text : Text \cup {NoText}, overridden : BOOLEAN]
Catalog == [Names -> CatalogEntry]
EmptyCatalog == [n \in Names |-> [text |-> NoText, overridden |-> FALSE]]

\* The file: absent, just truncated, one whole snapshot, or the overlap of two.
Disk == [state : {"absent", "empty", "whole", "corrupt"}, map : OverrideMap]
Whole(m) == [state |-> "whole", map |-> m]
NotWhole(st) == [state |-> st, map |-> NoOverrides]

ASSUME ConstantsAssumption ==
    /\ IsFiniteSet(Servers)
    /\ Servers # {} /\ ToolNames # {}
    /\ Offers \in [Servers -> SUBSET ToolNames]
    /\ UpstreamText \notin Texts
    /\ NoText \notin Text
    /\ NoTool \notin Object
    /\ NoRoute \notin Route
    /\ DiskFaults \in BOOLEAN
    /\ MaxRestarts \in Nat

VARIABLES
    order,      \* p.servers: the configured keys in the order of a map range
    status,     \* ServerEntry.Status once ConnectAll has returned
    tools,      \* tc.tools
    routes,     \* tc.routes
    overrides,  \* tc.overrides
    text,       \* Description of every tool object
    disk,       \* overrides.json
    pc,         \* where each connection is in NewProxyServer
    at,         \* position of the server it is asking
    reply,      \* the tools that server listed
    catalog,    \* names it has merged so far
    view,       \* its catalog event, filled in by the refresh
    served,     \* the tools registered with its mcp.Server
    known,      \* history: names overridden when it connected
    published,  \* the last tool_catalog event emitted
    upc,        \* where each UI request is in UpdateToolDescription
    snap,       \* its copy of the overrides to write
    restarts

poolVars == <<order, status>>
cacheVars == <<tools, routes, overrides, text>>
clientVars == <<pc, at, reply, catalog, view, served, known, published>>
updaterVars == <<upc, snap>>
vars == <<poolVars, cacheVars, clientVars, updaterVars, disk, restarts>>

Positions == 1..Cardinality(Servers)
Orders == {f \in [Positions -> Servers] : \A i, j \in Positions : f[i] = f[j] => i = j}
\* main exits when no server connected, so some server has.
PoolStatuses == {st \in [Servers -> {"connected", "failed"}] :
                    \E s \in Servers : st[s] = "connected"}

Phase == {"idle", "scan", "merge", "refresh", "emit", "register", "serving", "gone"}
UpdatePhase == {"idle", "save", "open", "write"}
Asked(c) == order[at[c]]
Merging == {"scan", "merge"}      \* merged tools may still await applyOverrides

TypeOK ==
    /\ order \in Orders
    /\ status \in PoolStatuses
    /\ tools \in ToolMap
    /\ routes \in [Names -> Route \cup {NoRoute}]
    /\ overrides \in OverrideMap
    /\ text \in [Object -> Text]
    /\ disk \in Disk
    /\ pc \in [Clients -> Phase]
    /\ at \in [Clients -> 1..Cardinality(Servers) + 1]
    /\ reply \in [Clients -> SUBSET ToolNames]
    /\ catalog \in [Clients -> SUBSET Names]
    /\ view \in [Clients -> Catalog]
    /\ served \in [Clients -> ToolMap]
    /\ known \in [Clients -> SUBSET Names]
    /\ published \in Catalog
    /\ upc \in [Updaters -> UpdatePhase]
    /\ snap \in [Updaters -> OverrideMap]
    /\ restarts \in 0..MaxRestarts

-----------------------------------------------------------------------------
(* Start of the process: a fresh cache, then SetOverridesPath loads what    *)
(* overrides.json holds; a file that is missing or does not parse loads     *)
(* nothing (loadOverrides).                                                 *)
LoadOverrides(d) == IF d.state = "whole" THEN d.map ELSE NoOverrides

Init ==
    /\ order \in Orders /\ status \in PoolStatuses
    /\ tools = NoTools /\ routes = NoRoutes
    /\ overrides = NoOverrides /\ text = [o \in Object |-> UpstreamText]
    /\ pc = [c \in Clients |-> "idle"] /\ at = [c \in Clients |-> 1]
    /\ reply = [c \in Clients |-> {}] /\ catalog = [c \in Clients |-> {}]
    /\ view = [c \in Clients |-> EmptyCatalog] /\ published = EmptyCatalog
    /\ served = [c \in Clients |-> NoTools] /\ known = [c \in Clients |-> {}]
    /\ upc = [u \in Updaters |-> "idle"]
    /\ snap = [u \in Updaters |-> NoOverrides]
    /\ disk = NotWhole("absent")
    /\ restarts = 0

\* The process ends at any point, UI requests in flight included (main does not
\* wait for them), and is started again on the file it left.
RestartWith(loaded) ==
    /\ restarts < MaxRestarts
    /\ restarts' = restarts + 1
    /\ order' \in Orders /\ status' \in PoolStatuses
    /\ tools' = NoTools /\ routes' = NoRoutes
    /\ overrides' = loaded /\ text' = [o \in Object |-> UpstreamText]
    /\ pc' = [c \in Clients |-> "idle"] /\ at' = [c \in Clients |-> 1]
    /\ reply' = [c \in Clients |-> {}] /\ catalog' = [c \in Clients |-> {}]
    /\ view' = [c \in Clients |-> EmptyCatalog] /\ published' = EmptyCatalog
    /\ served' = [c \in Clients |-> NoTools] /\ known' = [c \in Clients |-> {}]
    /\ upc' = [u \in Updaters |-> "idle"]
    /\ snap' = [u \in Updaters |-> NoOverrides]
    /\ UNCHANGED disk

\* Variant: a restart that does not load the file.
RestartEmpty == RestartWith(NoOverrides)
Restart == RestartWith(LoadOverrides(disk))

-----------------------------------------------------------------------------
(* NewProxyServer of one connection: DiscoverAllTools, GetTools, AddTool.   *)
Goto(c, phase) == pc' = [pc EXCEPT ![c] = phase]
NextServer(c) == at' = [at EXCEPT ![c] = @ + 1]

\* tc.multiServer and the copy of the pool's entries never change once
\* ConnectAll has returned, so taking them is part of connecting.
Connect(c) ==
    /\ pc[c] = "idle"
    /\ Goto(c, "scan")
    /\ known' = [known EXCEPT ![c] = {n \in Names : overrides[n] # NoText}]
    /\ UNCHANGED <<poolVars, cacheVars, at, reply, catalog, view, served, published,
                   updaterVars, disk, restarts>>

Scanning(c) == pc[c] = "scan" /\ at[c] \in Positions

SkipServer(c) ==
    /\ Scanning(c)
    /\ status[Asked(c)] # "connected"
    /\ NextServer(c)
    /\ UNCHANGED <<poolVars, cacheVars, pc, reply, catalog, view, served, known,
                   published, updaterVars, disk, restarts>>

\* Variant: a failing server's routes are dropped from the shared cache.
ListToolsFailsDropping(c) ==
    /\ Scanning(c)
    /\ status[Asked(c)] = "connected"
    /\ NextServer(c)
    /\ routes' = [n \in Names |->
                    IF routes[n] # NoRoute /\ routes[n].server = Asked(c)
                    THEN NoRoute ELSE routes[n]]
    /\ UNCHANGED <<poolVars, tools, overrides, text, pc, reply, catalog, view, served,
                   known, published, updaterVars, disk, restarts>>

\* session.ListTools fails: the server died or the 30 s of the context passed.
ListToolsFails(c) ==
    /\ Scanning(c)
    /\ status[Asked(c)] = "connected"
    /\ NextServer(c)
    /\ UNCHANGED <<poolVars, cacheVars, pc, reply, catalog, view, served, known,
                   published, updaterVars, disk, restarts>>

\* The answer of session.ListTools, received outside the lock.  A server may
\* list a different part of its tools each time it is asked.
ListToolsReturns(c) ==
    /\ Scanning(c)
    /\ status[Asked(c)] = "connected"
    /\ \E listed \in SUBSET Offers[Asked(c)] : reply' = [reply EXCEPT ![c] = listed]
    /\ Goto(c, "merge")
    /\ UNCHANGED <<poolVars, cacheVars, at, catalog, view, served, known, published,
                   updaterVars, disk, restarts>>

\* The objects of one answer, and the route of each of them.
Listed(c) == [client : {c}, server : {Asked(c)}, tool : reply[c]]
ToolNamed(c, n) == CHOOSE o \in Listed(c) : NameOf(o) = n
RouteOf(o) == [server |-> o.server, tool |-> o.tool]
Merged(c) == {NameOf(o) : o \in Listed(c)}

MergeWith(c, newRoutes) ==
    /\ pc[c] = "merge"
    /\ tools' = [n \in Names |-> IF n \in Merged(c) THEN ToolNamed(c, n) ELSE tools[n]]
    /\ routes' = newRoutes
    /\ text' = [o \in Object |-> IF o \in Listed(c) THEN UpstreamText ELSE text[o]]
    /\ catalog' = [catalog EXCEPT ![c] = @ \cup Merged(c)]
    /\ reply' = [reply EXCEPT ![c] = {}]
    /\ Goto(c, "scan")
    /\ NextServer(c)
    /\ UNCHANGED <<poolVars, overrides, view, served, known, published, updaterVars,
                   disk, restarts>>

\* Variant: a route that exists is kept.
MergeToolsKeepingRoutes(c) ==
    MergeWith(c, [n \in Names |-> IF n \in Merged(c) /\ routes[n] = NoRoute
                                  THEN RouteOf(ToolNamed(c, n)) ELSE routes[n]])

\* One critical section: new tool objects and routes for everything the server
\* listed.  Names no server lists any more keep their tool and their route.
MergeTools(c) ==
    MergeWith(c, [n \in Names |-> IF n \in Merged(c)
                                  THEN RouteOf(ToolNamed(c, n)) ELSE routes[n]])

Scanned(c) == pc[c] = "scan" /\ at[c] \notin Positions

Overridden(o) == tools[NameOf(o)] = o /\ overrides[NameOf(o)] # NoText
ApplyWith(c, newText) ==
    /\ Scanned(c)
    /\ text' = newText
    /\ Goto(c, "refresh")
    /\ UNCHANGED <<poolVars, tools, routes, overrides, at, reply, catalog, view, served,
                   known, published, updaterVars, disk, restarts>>

\* Variant: the overrides to apply are read once, when the connection starts.
ApplyOverridesReadAtConnect(c) ==
    ApplyWith(c, [o \in Object |-> IF Overridden(o) /\ NameOf(o) \in known[c]
                                   THEN overrides[NameOf(o)] ELSE text[o]])

\* Every cached object whose name has an override gets its text.
ApplyOverrides(c) ==
    ApplyWith(c, [o \in Object |-> IF Overridden(o) THEN overrides[NameOf(o)] ELSE text[o]])

\* Variant: the descriptions stay as merged, only the flags are refreshed.
RefreshFlagsOnly(c) ==
    /\ pc[c] = "refresh"
    /\ view' = [view EXCEPT ![c] =
                  [n \in Names |-> IF n \in catalog[c]
                                   THEN [text |-> UpstreamText, overridden |-> overrides[n] # NoText]
                                   ELSE EmptyCatalog[n]]]
    /\ catalog' = [catalog EXCEPT ![c] = {}]
    /\ Goto(c, "emit")
    /\ UNCHANGED <<poolVars, cacheVars, at, reply, served, known, published, updaterVars,
                   disk, restarts>>

\* The catalog event takes descriptions and flags from the cache under RLock.
RefreshCatalog(c) ==
    /\ pc[c] = "refresh"
    /\ view' = [view EXCEPT ![c] =
                  [n \in Names |-> IF n \in catalog[c]
                                   THEN [text |-> IF tools[n] = NoTool THEN UpstreamText
                                                  ELSE text[tools[n]],
                                         overridden |-> overrides[n] # NoText]
                                   ELSE EmptyCatalog[n]]]
    /\ catalog' = [catalog EXCEPT ![c] = {}]
    /\ Goto(c, "emit")
    /\ UNCHANGED <<poolVars, cacheVars, at, reply, served, known, published, updaterVars,
                   disk, restarts>>

EmitCatalog(c) ==
    /\ pc[c] = "emit"
    /\ published' = view[c]
    /\ view' = [view EXCEPT ![c] = EmptyCatalog]
    /\ Goto(c, "register")
    /\ UNCHANGED <<poolVars, cacheVars, at, reply, catalog, served, known, updaterVars,
                   disk, restarts>>

\* toolCache.GetTools() and server.AddTool for each: every cached tool, those
\* of other connections and stale ones included.
RegisterTools(c) ==
    /\ pc[c] = "register"
    /\ served' = [served EXCEPT ![c] = tools]
    /\ Goto(c, "serving")
    /\ UNCHANGED <<poolVars, cacheVars, at, reply, catalog, view, known, published,
                   updaterVars, disk, restarts>>

\* ProxyServer.Run returns: the client disconnected.
Disconnect(c) ==
    /\ pc[c] = "serving"
    /\ served' = [served EXCEPT ![c] = NoTools]
    /\ Goto(c, "gone")
    /\ UNCHANGED <<poolVars, cacheVars, at, reply, catalog, view, known, published,
                   updaterVars, disk, restarts>>

-----------------------------------------------------------------------------
(* UpdateToolDescription of one UI request, saveOverrides included.  A name *)
(* that is not cached is refused and changes nothing.                       *)
SetOverride(u, n, d) ==
    /\ upc[u] = "idle"
    /\ tools[n] # NoTool
    /\ overrides' = [overrides EXCEPT ![n] = d]

\* Variant: the override is only stored, for the next discovery to apply.
UpdateStoredOnly(u, n, d) ==
    /\ SetOverride(u, n, d)
    /\ upc' = [upc EXCEPT ![u] = "save"]
    /\ UNCHANGED <<poolVars, tools, routes, text, clientVars, snap, disk, restarts>>

\* The critical section: store the override and patch the cached object.
UpdateToolDescription(u, n, d) ==
    /\ SetOverride(u, n, d)
    /\ text' = [text EXCEPT ![tools[n]] = d]
    /\ upc' = [upc EXCEPT ![u] = "save"]
    /\ UNCHANGED <<poolVars, tools, routes, clientVars, snap, disk, restarts>>

\* saveOverrides copies the map under RLock ...
CopyOverrides(u) ==
    /\ upc[u] = "save"
    /\ snap' = [snap EXCEPT ![u] = overrides]
    /\ upc' = [upc EXCEPT ![u] = "open"]
    /\ UNCHANGED <<poolVars, cacheVars, clientVars, disk, restarts>>

\* ... and os.WriteFile truncates the file, then writes the copy.
OpenFile(u) ==
    /\ upc[u] = "open"
    /\ disk' = NotWhole("empty")
    /\ upc' = [upc EXCEPT ![u] = "write"]
    /\ UNCHANGED <<poolVars, cacheVars, clientVars, snap, restarts>>

\* A write over another request's longer text leaves its tail behind.
WriteFile(u) ==
    /\ upc[u] = "write"
    /\ \/ disk' = Whole(snap[u])
       \/ disk.state # "empty" /\ disk # Whole(snap[u]) /\ disk' = NotWhole("corrupt")
    /\ upc' = [upc EXCEPT ![u] = "idle"]
    /\ snap' = [snap EXCEPT ![u] = NoOverrides]
    /\ UNCHANGED <<poolVars, cacheVars, clientVars, restarts>>

\* An error of os.WriteFile is logged and UpdateToolDescription succeeds.
WriteFails(u) ==
    /\ DiskFaults
    /\ \/ upc[u] = "open" /\ UNCHANGED disk
       \/ upc[u] = "write" /\ disk' = NotWhole("corrupt")
    /\ upc' = [upc EXCEPT ![u] = "idle"]
    /\ snap' = [snap EXCEPT ![u] = NoOverrides]
    /\ UNCHANGED <<poolVars, cacheVars, clientVars, restarts>>

-----------------------------------------------------------------------------
Discover(c) ==
    \/ SkipServer(c) \/ ListToolsFails(c) \/ ListToolsReturns(c) \/ MergeTools(c)
    \/ ApplyOverrides(c) \/ RefreshCatalog(c) \/ EmitCatalog(c) \/ RegisterTools(c)

Save(u) == CopyOverrides(u) \/ OpenFile(u) \/ WriteFile(u) \/ WriteFails(u)

Next ==
    \/ \E c \in Clients : Connect(c) \/ Discover(c) \/ Disconnect(c)
    \/ \E u \in Updaters : Save(u)
    \/ \E u \in Updaters, n \in Names, d \in Texts : UpdateToolDescription(u, n, d)
    \/ Restart

Spec == Init /\ [][Next]_vars

\* A connection's goroutine runs on, ListTools ends within its 30 s context,
\* and a request that has stored its override goes on to save it.
Fairness ==
    /\ \A c \in Clients : WF_vars(Discover(c))
    /\ \A u \in Updaters : WF_vars(Save(u))

FairSpec == Spec /\ Fairness

-----------------------------------------------------------------------------
(* Safety.                                                                  *)

\* A cached tool and its route agree: both exist or neither does, and the
\* route leads to the connected server and the tool that the cached object
\* describes (lines 336-341 write the two maps together).
RoutesMatchTools ==
    \A n \in Names :
        /\ tools[n] = NoTool <=> routes[n] = NoRoute
        /\ tools[n] # NoTool => /\ routes[n] = RouteOf(tools[n])
                                /\ NameOf(tools[n]) = n
                                /\ status[routes[n].server] = "connected"

\* Every tool registered with a client still has a route: the handler is
\* built with a nil fallback session "because the routes map is always
\* populated by DiscoverAllTools" (server.go:57-59), and would dereference it.
ServedHaveRoutes ==
    \A c \in Clients, n \in Names : served[c][n] # NoTool => routes[n] # NoRoute

\* A cached tool may show something else than its override only while the
\* connection that put it there has not reached its applyOverrides (line 374).
OverrideInForce ==
    \A n \in Names :
        (tools[n] # NoTool /\ overrides[n] # NoText /\ text[tools[n]] # overrides[n])
            => pc[tools[n].client] \in Merging

\* overrides.json never holds an override that memory has lost: what was
\* loaded at the start or copied from memory is still overridden.
MemoryCoversDisk ==
    disk.state = "whole" =>
        \A n \in Names : disk.map[n] # NoText => overrides[n] # NoText

\* Once no UpdateToolDescription is running, overrides.json holds exactly the
\* overrides in force ("also saved to disk", tools.go:128-129).
Saved ==
    (\A u \in Updaters : upc[u] = "idle")
        => overrides = NoOverrides \/ disk = Whole(overrides)

\* Once no discovery is running, a client is served the override of every tool
\* that was overridden before it connected: the cache is shared "so that
\* description overrides are applied on every reconnect" (main.go:295-296).  A
\* connection may register an object that another merged, and that a third
\* replaces before the applyOverrides of the second.
ServedShowOverrides ==
    (\A c \in Clients : pc[c] \in {"idle", "serving", "gone"}) =>
        \A c \in Clients : \A n \in known[c] :
            served[c][n] # NoTool => text[served[c][n]] # UpstreamText

-----------------------------------------------------------------------------
(* What a step may do.                                                      *)

\* The refresh of a catalog event ("Refresh catalog entries to reflect applied
\* overrides", tools.go:376) takes the override of every tool it marks as
\* overridden, whatever was overridden since applyOverrides, unless another
\* connection has merged the tool meanwhile and has yet to patch it.
CatalogShowsOverrides ==
    [][\A c \in Clients : pc[c] = "refresh" /\ pc'[c] = "emit" =>
         \A n \in Names : view'[c][n].overridden =>
            view'[c][n].text = overrides[n] \/ pc[tools[n].client] \in Merging]_vars

-----------------------------------------------------------------------------
(* Liveness.                                                                *)

\* The names of the tools that servers offer.
OfferedNames == UNION {{ExposedName(s, t) : t \in Offers[s]} : s \in Servers}

\* An override of a cached tool takes effect in the end, whatever discoveries
\* were under way when it was stored, unless the process ends first and starts
\* with an empty cache.
OverrideTakesEffect ==
    \A n \in OfferedNames :
        (tools[n] # NoTool /\ overrides[n] # NoText)
            ~> (tools[n] = NoTool \/ text[tools[n]] = overrides[n])
=============================================================================
