--------------------------- MODULE ToolCacheProofs ---------------------------
(* Theorems about ToolCache, for any number of clients, servers, tools, UI   *)
(* requests and restarts.                                                    *)
EXTENDS ToolCache, TLAPS, FiniteSetTheorems

(* The inductive invariant.                                                  *)

\* A connection merges an answer of a server that is connected.
AskedConnected ==
    \A c \in Clients :
        pc[c] = "merge" => at[c] \in Positions /\ status[Asked(c)] = "connected"

\* A request's copy of the overrides never has one that memory has not.
CopiesCovered ==
    \A u \in Updaters, n \in Names : snap[u][n] # NoText => overrides[n] # NoText

IInv ==
    /\ TypeOK
    /\ AskedConnected
    /\ RoutesMatchTools
    /\ ServedHaveRoutes
    /\ OverrideInForce
    /\ CopiesCovered
    /\ MemoryCoversDisk
-----------------------------------------------------------------------------
(* The types.                                                                *)

\* Positions are numbered by a natural number, and there is a name.
LEMMA PositionsFinite ==
    /\ Cardinality(Servers) \in Nat
    /\ Names # {}
    /\ AnyName \in Names
<1>1. Cardinality(Servers) \in Nat
  BY ConstantsAssumption, FS_CardinalityType
<1>2. Names # {}
  BY ConstantsAssumption DEF Names
<1>3. QED
  BY <1>1, <1>2 DEF AnyName

\* The operators a step applies to typed values return typed values.
LEMMA NamesOfObjects == \A o \in Object : NameOf(o) \in Names
  BY DEF Object, NameOf, Names

LEMMA TypeOfNothing ==
    /\ NoOverrides \in OverrideMap
    /\ NoTools \in ToolMap
    /\ NoRoutes \in [Names -> Route \cup {NoRoute}]
    /\ EmptyCatalog \in Catalog
    /\ \A st \in {"absent", "empty", "corrupt"} : NotWhole(st) \in Disk
    /\ \A m \in OverrideMap : Whole(m) \in Disk
    /\ \A d \in Disk : LoadOverrides(d) \in OverrideMap
  BY DEF NoOverrides, OverrideMap, NoTools, ToolMap, NoRoutes, EmptyCatalog, Catalog,
         CatalogEntry, NotWhole, Whole, Disk, LoadOverrides

LEMMA TypeInit == Init => TypeOK
  BY PositionsFinite, TypeOfNothing, ConstantsAssumption
     DEF Init, TypeOK, Text, Phase, UpdatePhase

LEMMA ListedType ==
    ASSUME TypeOK, NEW c \in Clients, at[c] \in Positions
    PROVE  /\ Asked(c) \in Servers
           /\ Listed(c) \subseteq Object
           /\ Merged(c) \subseteq Names
           /\ \A n \in Merged(c) : ToolNamed(c, n) \in Listed(c) /\ NameOf(ToolNamed(c, n)) = n
           /\ \A o \in Listed(c) : o.client = c /\ o.server = Asked(c) /\ RouteOf(o) \in Route
<1>1. Asked(c) \in Servers
  BY DEF TypeOK, Orders, Asked
<1>2. Listed(c) \subseteq Object
  BY <1>1 DEF TypeOK, Listed, Object
<1>3. \A o \in Listed(c) : o.client = c /\ o.server = Asked(c) /\ RouteOf(o) \in Route
  BY <1>1 DEF TypeOK, Listed, RouteOf, Route
<1>4. \A n \in Merged(c) : ToolNamed(c, n) \in Listed(c) /\ NameOf(ToolNamed(c, n)) = n
  BY DEF Merged, ToolNamed
<1>5. QED
  BY <1>1, <1>2, <1>3, <1>4, NamesOfObjects DEF Merged

LEMMA TypeConnect == TypeOK /\ (\E c \in Clients : Connect(c)) => TypeOK'
  BY DEF TypeOK, Connect, Goto, Phase, poolVars, cacheVars, updaterVars

LEMMA TypeScan ==
    ASSUME TypeOK, NEW c \in Clients,
           SkipServer(c) \/ ListToolsFails(c) \/ ListToolsReturns(c)
    PROVE  TypeOK'
<1>1. at[c] \in Positions
  BY DEF SkipServer, ListToolsFails, ListToolsReturns, Scanning
<1>2. at[c] + 1 \in 1..Cardinality(Servers) + 1
  BY <1>1, PositionsFinite DEF Positions
<1>3. CASE SkipServer(c)
  BY <1>2, <1>3 DEF TypeOK, SkipServer, NextServer, poolVars, cacheVars, updaterVars
<1>4. CASE ListToolsFails(c)
  BY <1>2, <1>4 DEF TypeOK, ListToolsFails, NextServer, poolVars, cacheVars, updaterVars
<1>5. CASE ListToolsReturns(c)
  <2>1. Asked(c) \in Servers
    BY <1>1, ListedType
  <2>2. Offers[Asked(c)] \subseteq ToolNames
    BY <2>1, ConstantsAssumption
  <2>3. reply' \in [Clients -> SUBSET ToolNames]
    BY <1>5, <2>2 DEF TypeOK, ListToolsReturns
  <2>4. QED
    BY <1>5, <2>3 DEF TypeOK, ListToolsReturns, Goto, Phase, poolVars, cacheVars, updaterVars
<1>6. QED
  BY <1>3, <1>4, <1>5

LEMMA TypeMerge ==
    ASSUME TypeOK, NEW c \in Clients, MergeTools(c), at[c] \in Positions
    PROVE  TypeOK'
<1> USE DEF MergeTools, MergeWith
<1>1. at[c] + 1 \in 1..Cardinality(Servers) + 1
  BY PositionsFinite DEF Positions
<1>2. tools' \in ToolMap
  BY ListedType DEF TypeOK, ToolMap
<1>3. routes' \in [Names -> Route \cup {NoRoute}]
  BY ListedType DEF TypeOK
<1>4. text' \in [Object -> Text]
  BY DEF TypeOK, Text
<1>5. catalog' \in [Clients -> SUBSET Names] /\ reply' \in [Clients -> SUBSET ToolNames]
  BY ListedType DEF TypeOK
<1>6. pc' \in [Clients -> Phase] /\ at' \in [Clients -> 1..Cardinality(Servers) + 1]
  BY <1>1 DEF TypeOK, Goto, NextServer, Phase
<1>7. QED
  BY <1>2, <1>3, <1>4, <1>5, <1>6 DEF TypeOK, poolVars, updaterVars

LEMMA TypeApply ==
    ASSUME TypeOK, NEW c \in Clients, ApplyOverrides(c)
    PROVE  TypeOK'
<1>1. text' \in [Object -> Text]
  BY NamesOfObjects DEF TypeOK, ApplyOverrides, ApplyWith, Overridden, OverrideMap, Text
<1>2. QED
  BY <1>1 DEF TypeOK, ApplyOverrides, ApplyWith, Goto, Phase, poolVars, updaterVars

LEMMA TypeRefresh ==
    ASSUME TypeOK, NEW c \in Clients, RefreshCatalog(c)
    PROVE  TypeOK'
<1> DEFINE entry(n) == IF n \in catalog[c]
                       THEN [text |-> IF tools[n] = NoTool THEN UpstreamText
                                      ELSE text[tools[n]],
                             overridden |-> overrides[n] # NoText]
                       ELSE EmptyCatalog[n]
<1>1. \A n \in Names : entry(n) \in CatalogEntry
  BY TypeOfNothing DEF TypeOK, ToolMap, CatalogEntry, Catalog, Text
<1>2. [n \in Names |-> entry(n)] \in Catalog
  BY <1>1 DEF Catalog
<1>3. view' = [view EXCEPT ![c] = [n \in Names |-> entry(n)]]
  BY DEF RefreshCatalog
<1>4. view' \in [Clients -> Catalog]
  BY <1>2, <1>3 DEF TypeOK
<1>5. catalog' \in [Clients -> SUBSET Names] /\ pc' \in [Clients -> Phase]
  BY DEF TypeOK, RefreshCatalog, Goto, Phase
<1>6. QED
  BY <1>4, <1>5 DEF TypeOK, RefreshCatalog, poolVars, cacheVars, updaterVars

LEMMA TypeRegister ==
    ASSUME TypeOK, NEW c \in Clients,
           EmitCatalog(c) \/ RegisterTools(c) \/ Disconnect(c)
    PROVE  TypeOK'
<1>1. CASE EmitCatalog(c)
  BY <1>1, TypeOfNothing
     DEF TypeOK, EmitCatalog, Goto, Phase, poolVars, cacheVars, updaterVars
<1>2. CASE RegisterTools(c)
  BY <1>2 DEF TypeOK, RegisterTools, Goto, Phase, poolVars, cacheVars, updaterVars
<1>3. CASE Disconnect(c)
  BY <1>3, TypeOfNothing
     DEF TypeOK, Disconnect, Goto, Phase, poolVars, cacheVars, updaterVars
<1>4. QED
  BY <1>1, <1>2, <1>3

LEMMA TypeUpdate ==
    ASSUME TypeOK, NEW u \in Updaters, NEW n \in Names, NEW d \in Texts,
           UpdateToolDescription(u, n, d)
    PROVE  TypeOK'
<1> USE DEF UpdateToolDescription, SetOverride
<1>1. overrides' \in OverrideMap
  BY DEF TypeOK, OverrideMap
<1>2. text' \in [Object -> Text]
  BY DEF TypeOK, Text
<1>3. upc' \in [Updaters -> UpdatePhase]
  BY DEF TypeOK, UpdatePhase
<1>4. QED
  BY <1>1, <1>2, <1>3 DEF TypeOK, poolVars, clientVars

LEMMA TypeSave ==
    ASSUME TypeOK, NEW u \in Updaters, Save(u)
    PROVE  TypeOK'
<1> USE DEF UpdatePhase
<1>1. CASE CopyOverrides(u)
  BY <1>1 DEF TypeOK, CopyOverrides, poolVars, cacheVars, clientVars
<1>2. CASE OpenFile(u)
  BY <1>2, TypeOfNothing DEF TypeOK, OpenFile, poolVars, cacheVars, clientVars
<1>3. CASE WriteFile(u)
  <2>1. disk' \in Disk
    BY <1>3, TypeOfNothing DEF TypeOK, WriteFile
  <2>2. QED
    BY <1>3, <2>1, TypeOfNothing DEF TypeOK, WriteFile, poolVars, cacheVars, clientVars
<1>4. CASE WriteFails(u)
  <2>1. disk' \in Disk
    BY <1>4, TypeOfNothing DEF TypeOK, WriteFails
  <2>2. QED
    BY <1>4, <2>1, TypeOfNothing DEF TypeOK, WriteFails, poolVars, cacheVars, clientVars
<1>5. QED
  BY <1>1, <1>2, <1>3, <1>4 DEF Save

LEMMA TypeRestart == TypeOK /\ Restart => TypeOK'
<1> SUFFICES ASSUME TypeOK, Restart PROVE TypeOK'
  OBVIOUS
<1> USE DEF Restart, RestartWith
<1>1. restarts' \in 0..MaxRestarts
  BY ConstantsAssumption DEF TypeOK
<1>2. overrides' \in OverrideMap
  BY TypeOfNothing DEF TypeOK
<1>3. text' \in [Object -> Text]
  BY DEF Text
<1>4. pc' \in [Clients -> Phase] /\ upc' \in [Updaters -> UpdatePhase]
  BY DEF Phase, UpdatePhase
<1>5. at' \in [Clients -> 1..Cardinality(Servers) + 1]
  BY PositionsFinite
<1>6. QED
  BY <1>1, <1>2, <1>3, <1>4, <1>5, TypeOfNothing, PositionsFinite DEF TypeOK

-----------------------------------------------------------------------------
(* IInv is inductive: one lemma for each conjunct besides the types, with   *)
(* one step for each action that can disturb it.                            *)
LEMMA TypeNext == TypeOK /\ AskedConnected /\ [Next]_vars => TypeOK'
<1> SUFFICES ASSUME TypeOK, AskedConnected, [Next]_vars PROVE TypeOK'
  OBVIOUS
<1>1. ASSUME NEW c \in Clients, MergeTools(c) PROVE TypeOK'
  <2>1. at[c] \in Positions
    BY <1>1 DEF MergeTools, MergeWith, AskedConnected
  <2>2. QED
    BY <1>1, <2>1, TypeMerge
<1>2. CASE UNCHANGED vars
  BY <1>2 DEF TypeOK, vars, poolVars, cacheVars, clientVars, updaterVars
<1>3. QED
  BY <1>1, <1>2, TypeConnect, TypeScan, TypeApply, TypeRefresh, TypeRegister, TypeUpdate,
     TypeSave, TypeRestart DEF Next, Discover

LEMMA AskedNext == TypeOK /\ AskedConnected /\ [Next]_vars => AskedConnected'
<1> SUFFICES ASSUME TypeOK, AskedConnected, [Next]_vars PROVE AskedConnected'
  OBVIOUS
<1> USE DEF AskedConnected, Asked
<1>1. ASSUME NEW c \in Clients, Connect(c) PROVE AskedConnected'
  BY <1>1 DEF TypeOK, Connect, Goto, poolVars
<1>2. ASSUME NEW c \in Clients, SkipServer(c) \/ ListToolsFails(c) PROVE AskedConnected'
  BY <1>2 DEF TypeOK, SkipServer, ListToolsFails, Scanning, NextServer, poolVars
<1>3. ASSUME NEW c \in Clients, ListToolsReturns(c) PROVE AskedConnected'
  BY <1>3 DEF TypeOK, ListToolsReturns, Scanning, Goto, poolVars
<1>4. ASSUME NEW c \in Clients, MergeTools(c) PROVE AskedConnected'
  BY <1>4 DEF TypeOK, MergeTools, MergeWith, Goto, NextServer, poolVars
<1>5. ASSUME NEW c \in Clients,
             ApplyOverrides(c) \/ RefreshCatalog(c) \/ EmitCatalog(c)
               \/ RegisterTools(c) \/ Disconnect(c)
      PROVE  AskedConnected'
  BY <1>5 DEF TypeOK, ApplyOverrides, ApplyWith, RefreshCatalog, EmitCatalog, RegisterTools,
              Disconnect, Goto, poolVars
<1>6. ASSUME NEW u \in Updaters, Save(u) PROVE AskedConnected'
  BY <1>6 DEF Save, CopyOverrides, OpenFile, WriteFile, WriteFails, poolVars, clientVars
<1>7. ASSUME NEW u \in Updaters, NEW n \in Names, NEW d \in Texts,
             UpdateToolDescription(u, n, d)
      PROVE  AskedConnected'
  BY <1>7 DEF UpdateToolDescription, SetOverride, poolVars, clientVars
<1>8. CASE Restart
  BY <1>8 DEF Restart, RestartWith
<1>9. CASE UNCHANGED vars
  BY <1>9 DEF vars, poolVars, clientVars
<1>10. QED
  BY <1>1, <1>2, <1>3, <1>4, <1>5, <1>6, <1>7, <1>8, <1>9 DEF Next, Discover

LEMMA RoutesNext ==
    TypeOK /\ AskedConnected /\ RoutesMatchTools /\ [Next]_vars => RoutesMatchTools'
<1> SUFFICES ASSUME TypeOK, AskedConnected, RoutesMatchTools, [Next]_vars
             PROVE  RoutesMatchTools'
  OBVIOUS
<1> USE DEF RoutesMatchTools
<1>1. ASSUME NEW c \in Clients, MergeTools(c) PROVE RoutesMatchTools'
  <2> USE <1>1 DEF MergeTools, MergeWith
  <2>1. at[c] \in Positions /\ status[Asked(c)] = "connected" /\ status' = status
    BY DEF AskedConnected, poolVars
  <2>2. SUFFICES ASSUME NEW n \in Names
                 PROVE  /\ tools'[n] = NoTool <=> routes'[n] = NoRoute
                        /\ tools'[n] # NoTool => /\ routes'[n] = RouteOf(tools'[n])
                                                 /\ NameOf(tools'[n]) = n
                                                 /\ status'[routes'[n].server] = "connected"
    OBVIOUS
  <2>3. CASE n \in Merged(c)
    <3>1. tools'[n] = ToolNamed(c, n) /\ routes'[n] = RouteOf(ToolNamed(c, n))
      BY <2>3
    <3>2. /\ ToolNamed(c, n) \in Object
          /\ NameOf(ToolNamed(c, n)) = n
          /\ ToolNamed(c, n).server = Asked(c)
          /\ RouteOf(ToolNamed(c, n)) \in Route
      BY <2>1, <2>3, ListedType
    <3>3. RouteOf(ToolNamed(c, n)).server = Asked(c)
      BY <3>2 DEF RouteOf
    <3>4. QED
      BY <2>1, <3>1, <3>2, <3>3, ConstantsAssumption
  <2>4. CASE n \notin Merged(c)
    BY <2>1, <2>4
  <2>5. QED
    BY <2>3, <2>4
<1>2. CASE Restart
  BY <1>2 DEF Restart, RestartWith, NoTools, NoRoutes
<1>3. ASSUME UNCHANGED <<tools, routes, status>> PROVE RoutesMatchTools'
  BY <1>3
<1>4. QED
  BY <1>1, <1>2, <1>3
     DEF Next, Connect, Discover, SkipServer, ListToolsFails, ListToolsReturns, ApplyOverrides,
         ApplyWith, RefreshCatalog, EmitCatalog, RegisterTools, Disconnect, Save, CopyOverrides,
         OpenFile, WriteFile, WriteFails, UpdateToolDescription, vars, poolVars, cacheVars

\* Tools stay in the cache until the process ends.
LEMMA ToolsStay ==
    ASSUME TypeOK, AskedConnected, [Next]_vars, ~Restart,
           NEW n \in Names, tools[n] # NoTool
    PROVE  tools'[n] # NoTool
<1>1. ASSUME NEW c \in Clients, MergeTools(c) PROVE tools'[n] # NoTool
  <2>1. at[c] \in Positions
    BY <1>1 DEF MergeTools, MergeWith, AskedConnected
  <2>2. n \in Merged(c) => ToolNamed(c, n) \in Object
    BY <2>1, ListedType
  <2>3. QED
    BY <1>1, <2>2, ConstantsAssumption DEF MergeTools, MergeWith
<1>2. ASSUME UNCHANGED tools PROVE tools'[n] # NoTool
  BY <1>2
<1>3. QED
  BY <1>1, <1>2
     DEF Next, Connect, Discover, SkipServer, ListToolsFails, ListToolsReturns, ApplyOverrides,
         ApplyWith, RefreshCatalog, EmitCatalog, RegisterTools, Disconnect, Save, CopyOverrides,
         OpenFile, WriteFile, WriteFails, UpdateToolDescription, vars, cacheVars

LEMMA ServedNext ==
    /\ TypeOK /\ AskedConnected /\ RoutesMatchTools /\ ServedHaveRoutes /\ [Next]_vars
    /\ RoutesMatchTools'
    => ServedHaveRoutes'
<1> SUFFICES ASSUME TypeOK, AskedConnected, RoutesMatchTools, ServedHaveRoutes, [Next]_vars,
                    RoutesMatchTools'
             PROVE  ServedHaveRoutes'
  OBVIOUS
<1>1. CASE Restart
  BY <1>1 DEF Restart, RestartWith, NoTools, ServedHaveRoutes
<1>2. CASE ~Restart
  <2>1. \A n \in Names : routes[n] # NoRoute => routes'[n] # NoRoute
    BY <1>2, ToolsStay DEF RoutesMatchTools
  <2>2. ASSUME NEW c \in Clients, RegisterTools(c) PROVE ServedHaveRoutes'
    BY <2>1, <2>2 DEF TypeOK, RegisterTools, ServedHaveRoutes, RoutesMatchTools
  <2>3. ASSUME NEW c \in Clients, Disconnect(c) PROVE ServedHaveRoutes'
    BY <2>1, <2>3 DEF TypeOK, Disconnect, NoTools, ServedHaveRoutes
  <2>4. ASSUME UNCHANGED served PROVE ServedHaveRoutes'
    BY <2>1, <2>4 DEF ServedHaveRoutes
  <2>5. QED
    BY <1>2, <2>2, <2>3, <2>4
       DEF Next, Connect, Discover, SkipServer, ListToolsFails, ListToolsReturns, MergeTools,
           MergeWith, ApplyOverrides, ApplyWith, RefreshCatalog, EmitCatalog, Save,
           CopyOverrides, OpenFile, WriteFile, WriteFails, UpdateToolDescription, vars,
           clientVars
<1>3. QED
  BY <1>1, <1>2

LEMMA OverrideNext ==
    TypeOK /\ AskedConnected /\ RoutesMatchTools /\ OverrideInForce /\ [Next]_vars
        => OverrideInForce'
<1> SUFFICES ASSUME TypeOK, AskedConnected, RoutesMatchTools, OverrideInForce, [Next]_vars
             PROVE  OverrideInForce'
  OBVIOUS
<1>1. \A n \in Names : tools[n] # NoTool => /\ tools[n] \in Object
                                           /\ tools[n].client \in Clients
                                           /\ NameOf(tools[n]) = n
  BY DEF TypeOK, ToolMap, Object, RoutesMatchTools
<1>2. ASSUME NEW c \in Clients, MergeTools(c) PROVE OverrideInForce'
  <2> USE <1>2 DEF MergeTools, MergeWith
  <2>1. at[c] \in Positions /\ overrides' = overrides /\ pc' = [pc EXCEPT ![c] = "scan"]
    BY DEF AskedConnected, Goto
  <2>2. SUFFICES ASSUME NEW n \in Names, tools'[n] # NoTool, overrides[n] # NoText,
                        text'[tools'[n]] # overrides[n]
                 PROVE  pc'[tools'[n].client] \in Merging
    BY <2>1 DEF OverrideInForce
  <2>3. CASE tools'[n] \in Listed(c)
    BY <2>1, <2>3, ListedType DEF TypeOK, Merging
  <2>4. CASE tools'[n] \notin Listed(c)
    <3>1. tools'[n] = tools[n]
      BY <2>1, <2>4, ListedType
    <3>2. text'[tools'[n]] = text[tools[n]]
      BY <1>1, <2>2, <2>4, <3>1
    <3>3. pc[tools[n].client] \in Merging
      BY <2>2, <3>1, <3>2 DEF OverrideInForce
    <3>4. QED
      BY <1>1, <2>1, <2>2, <3>1, <3>3 DEF TypeOK, Merging
  <2>5. QED
    BY <2>3, <2>4
<1>3. ASSUME NEW c \in Clients, ApplyOverrides(c) PROVE OverrideInForce'
  BY <1>1, <1>3 DEF TypeOK, ApplyOverrides, ApplyWith, Overridden, OverrideInForce
<1>4. ASSUME NEW u \in Updaters, NEW n \in Names, NEW d \in Texts,
             UpdateToolDescription(u, n, d)
      PROVE  OverrideInForce'
  <2>1. SUFFICES ASSUME NEW m \in Names, tools[m] # NoTool, overrides'[m] # NoText,
                        text'[tools[m]] # overrides'[m]
                 PROVE  pc[tools[m].client] \in Merging
    BY <1>4 DEF UpdateToolDescription, OverrideInForce, clientVars
  <2>2. m # n
    BY <1>1, <1>4, <2>1 DEF UpdateToolDescription, SetOverride, TypeOK, OverrideMap
  <2>3. text'[tools[m]] = text[tools[m]] /\ overrides'[m] = overrides[m]
    BY <1>1, <1>4, <2>1, <2>2 DEF UpdateToolDescription, SetOverride, TypeOK, OverrideMap
  <2>4. QED
    BY <2>1, <2>3 DEF OverrideInForce
<1>5. ASSUME NEW c \in Clients,
             \/ Connect(c) \/ ListToolsReturns(c) \/ RefreshCatalog(c) \/ EmitCatalog(c)
             \/ RegisterTools(c) \/ Disconnect(c)
      PROVE  OverrideInForce'
  <2>1. UNCHANGED <<tools, overrides, text>>
    BY <1>5 DEF Connect, ListToolsReturns, RefreshCatalog, EmitCatalog, RegisterTools,
                Disconnect, cacheVars
  <2>2. \A p \in Clients : pc[p] \in Merging => pc'[p] \in Merging
    BY <1>5 DEF TypeOK, Connect, ListToolsReturns, RefreshCatalog, EmitCatalog, RegisterTools,
                Disconnect, Goto, Merging
  <2>3. QED
    BY <1>1, <2>1, <2>2 DEF OverrideInForce
<1>6. CASE Restart
  BY <1>6 DEF Restart, RestartWith, NoTools, OverrideInForce
<1>7. ASSUME UNCHANGED <<tools, overrides, text, pc>> PROVE OverrideInForce'
  BY <1>7 DEF OverrideInForce
<1>8. QED
  BY <1>2, <1>3, <1>4, <1>5, <1>6, <1>7
     DEF Next, Discover, SkipServer, ListToolsFails, Save, CopyOverrides, OpenFile, WriteFile,
         WriteFails, vars, cacheVars, clientVars

LEMMA DiskNext ==
    TypeOK /\ CopiesCovered /\ MemoryCoversDisk /\ [Next]_vars
        => CopiesCovered' /\ MemoryCoversDisk'
<1> SUFFICES ASSUME TypeOK, CopiesCovered, MemoryCoversDisk, [Next]_vars
             PROVE  CopiesCovered' /\ MemoryCoversDisk'
  OBVIOUS
<1> USE DEF CopiesCovered, MemoryCoversDisk
<1>1. ASSUME NEW u \in Updaters, NEW n \in Names, NEW d \in Texts,
             UpdateToolDescription(u, n, d)
      PROVE  CopiesCovered' /\ MemoryCoversDisk'
  <2>1. d # NoText
    BY ConstantsAssumption DEF Text
  <2>2. \A m \in Names : overrides[m] # NoText => overrides'[m] # NoText
    BY <1>1, <2>1 DEF UpdateToolDescription, SetOverride, TypeOK, OverrideMap
  <2>3. QED
    BY <1>1, <2>2 DEF UpdateToolDescription
<1>2. ASSUME NEW u \in Updaters, CopyOverrides(u) PROVE CopiesCovered' /\ MemoryCoversDisk'
  BY <1>2 DEF CopyOverrides, TypeOK, cacheVars
<1>3. ASSUME NEW u \in Updaters, OpenFile(u) PROVE CopiesCovered' /\ MemoryCoversDisk'
  BY <1>3 DEF OpenFile, NotWhole, cacheVars
<1>4. ASSUME NEW u \in Updaters, WriteFile(u) \/ WriteFails(u)
      PROVE  CopiesCovered' /\ MemoryCoversDisk'
  BY <1>4 DEF WriteFile, WriteFails, TypeOK, NotWhole, Whole, NoOverrides, cacheVars
<1>5. CASE Restart
  BY <1>5 DEF Restart, RestartWith, LoadOverrides, NoOverrides
<1>6. ASSUME UNCHANGED <<overrides, snap, disk>> PROVE CopiesCovered' /\ MemoryCoversDisk'
  BY <1>6
<1>7. QED
  BY <1>1, <1>2, <1>3, <1>4, <1>5, <1>6
     DEF Next, Connect, Discover, SkipServer, ListToolsFails, ListToolsReturns, MergeTools,
         MergeWith, ApplyOverrides, ApplyWith, RefreshCatalog, EmitCatalog, RegisterTools,
         Disconnect, Save, vars, cacheVars, updaterVars

LEMMA InvInit == Init => IInv
<1> SUFFICES ASSUME Init PROVE IInv
  OBVIOUS
<1>1. TypeOK
  BY TypeInit
<1>2. AskedConnected
  BY DEF Init, AskedConnected
<1>3. RoutesMatchTools /\ ServedHaveRoutes /\ OverrideInForce
  BY DEF Init, NoTools, NoRoutes, RoutesMatchTools, ServedHaveRoutes, OverrideInForce
<1>4. CopiesCovered /\ MemoryCoversDisk
  BY DEF Init, NotWhole, NoOverrides, CopiesCovered, MemoryCoversDisk
<1>5. QED
  BY <1>1, <1>2, <1>3, <1>4 DEF IInv

LEMMA InvNext == IInv /\ [Next]_vars => IInv'
  BY TypeNext, AskedNext, RoutesNext, ServedNext, OverrideNext, DiskNext DEF IInv

-----------------------------------------------------------------------------
\* The inductive invariant of the cache, its connections and its file.
THEOREM Inductive == Spec => []IInv
  BY InvInit, InvNext, PTL DEF Spec

\* Type correctness of the cache, every connection and every UI request.
THEOREM TypeCorrect == Spec => []TypeOK
<1>1. IInv => TypeOK
  BY DEF IInv
<1>2. QED
  BY Inductive, <1>1, PTL

\* The two maps of the cache always agree: a cached tool is routed to the
\* connected server, and to the tool there, that its object describes.
THEOREM RoutesAgree == Spec => []RoutesMatchTools
<1>1. IInv => RoutesMatchTools
  BY DEF IInv
<1>2. QED
  BY Inductive, <1>1, PTL

\* No handler that a client can call lacks a route, so the nil fallback session
\* of NewProxyServer is never used.
THEOREM NoNilSession == Spec => []ServedHaveRoutes
<1>1. IInv => ServedHaveRoutes
  BY DEF IInv
<1>2. QED
  BY Inductive, <1>1, PTL

\* A cached tool shows its override unless the connection that cached it has
\* still to apply the overrides.
THEOREM OverridesInForce == Spec => []OverrideInForce
<1>1. IInv => OverrideInForce
  BY DEF IInv
<1>2. QED
  BY Inductive, <1>1, PTL

\* What overrides.json holds, memory holds, across writes that fail or overlap
\* and across restarts.
THEOREM DiskCovered == Spec => []MemoryCoversDisk
<1>1. IInv => MemoryCoversDisk
  BY DEF IInv
<1>2. QED
  BY Inductive, <1>1, PTL
-----------------------------------------------------------------------------
(* What clients and the catalog event show.                                  *)

\* The client's connection is in NewProxyServer.
Discovering(c) == pc[c] \notin {"idle", "serving", "gone"}
OneDiscovers == \A c, d \in Clients : Discovering(c) /\ Discovering(d) => c = d

\* What was overridden when a connection started still is.
KnownInv == \A c \in Clients : \A n \in known[c] : overrides[n] # NoText

\* An object is allocated once: its server comes before the one asked next.
Allocated(o) == \E p \in 1..(at[o.client] - 1) : order[p] = o.server
AllocatedInv ==
    /\ \A n \in Names : tools[n] # NoTool => Allocated(tools[n])
    /\ \A c \in Clients, n \in Names :
          served[c][n] # NoTool => Allocated(served[c][n]) /\ pc[c] = "serving"

LEMMA KnownNext ==
    ASSUME TypeOK, KnownInv, [Next]_vars
    PROVE  KnownInv'
<1> USE DEF KnownInv
<1>1. ASSUME NEW u \in Updaters, NEW n \in Names, NEW d \in Texts,
             UpdateToolDescription(u, n, d)
      PROVE  KnownInv'
  <2>1. d # NoText
    BY ConstantsAssumption DEF Text
  <2>2. \A m \in Names : overrides[m] # NoText => overrides'[m] # NoText
    BY <1>1, <2>1 DEF UpdateToolDescription, SetOverride, TypeOK, OverrideMap
  <2>3. QED
    BY <1>1, <2>2 DEF UpdateToolDescription, clientVars, TypeOK
<1>2. ASSUME NEW c \in Clients, Connect(c) PROVE KnownInv'
  BY <1>2 DEF Connect, TypeOK, cacheVars
<1>3. CASE Restart
  BY <1>3 DEF Restart, RestartWith
<1>4. ASSUME UNCHANGED <<known, overrides>> PROVE KnownInv'
  BY <1>4
<1>5. QED
  BY <1>1, <1>2, <1>3, <1>4
     DEF Next, Discover, SkipServer, ListToolsFails, ListToolsReturns, MergeTools, MergeWith,
         ApplyOverrides, ApplyWith, RefreshCatalog, EmitCatalog, RegisterTools, Disconnect, Save,
         CopyOverrides, OpenFile, WriteFile, WriteFails, vars, cacheVars, clientVars

\* Positions only grow, so that an object once allocated stays so.
LEMMA AllocatedStays ==
    ASSUME TypeOK, [Next]_vars, ~Restart, NEW o \in Object, Allocated(o)
    PROVE  Allocated(o)'
<1>1. order' = order
  BY DEF Next, Connect, Discover, SkipServer, ListToolsFails, ListToolsReturns, MergeTools,
         MergeWith, ApplyOverrides, ApplyWith, RefreshCatalog, EmitCatalog, RegisterTools,
         Disconnect, Save, CopyOverrides, OpenFile, WriteFile, WriteFails,
         UpdateToolDescription, vars, poolVars
<1>2. at' = at \/ \E c \in Clients : NextServer(c)
  BY DEF Next, Connect, Discover, SkipServer, ListToolsFails, ListToolsReturns, MergeTools,
         MergeWith, ApplyOverrides, ApplyWith, RefreshCatalog, EmitCatalog, RegisterTools,
         Disconnect, Save, CopyOverrides, OpenFile, WriteFile, WriteFails,
         UpdateToolDescription, vars, clientVars
<1>3. \A c \in Clients : at[c] \in Nat /\ (at'[c] = at[c] \/ at'[c] = at[c] + 1)
  BY <1>2, PositionsFinite DEF NextServer, TypeOK
<1>4. o.client \in Clients
  BY DEF Object
<1>5. 1..(at[o.client] - 1) \subseteq 1..(at'[o.client] - 1)
  BY <1>3, <1>4
<1>6. QED
  BY <1>1, <1>5 DEF Allocated

\* What a server lists is allocated by the merge, not before.
LEMMA ListedIsNew ==
    ASSUME TypeOK, AskedConnected, NEW c \in Clients, MergeTools(c), NEW o \in Listed(c)
    PROVE  o \in Object /\ ~Allocated(o) /\ Allocated(o)'
<1>1. /\ at[c] \in Positions /\ at' = [at EXCEPT ![c] = @ + 1] /\ order' = order
  BY DEF AskedConnected, MergeTools, MergeWith, NextServer, poolVars
<1>2. o \in Object /\ o.client = c /\ o.server = order[at[c]]
  BY <1>1, ListedType DEF Asked
<1>3. at[c] \in Nat /\ at'[c] = at[c] + 1 /\ Cardinality(Servers) \in Nat
  BY <1>1, PositionsFinite DEF TypeOK
<1>4. \A p \in 1..(at[c] - 1) : order[p] # order[at[c]]
  BY <1>1, <1>3 DEF TypeOK, Orders, Positions
<1>5. at[c] \in 1..(at'[c] - 1)
  BY <1>1, <1>3 DEF Positions
<1>6. QED
  BY <1>1, <1>2, <1>4, <1>5 DEF Allocated

LEMMA AllocatedNext ==
    ASSUME TypeOK, AskedConnected, AllocatedInv, [Next]_vars
    PROVE  AllocatedInv'
<1> USE DEF AllocatedInv
<1> DEFINE Later(o) == \E p \in 1..(at'[o.client] - 1) : order'[p] = o.server
<1>1. \A n \in Names : /\ tools[n] # NoTool => tools[n] \in Object
                       /\ \A c \in Clients : served[c][n] # NoTool => served[c][n] \in Object
  BY DEF TypeOK, ToolMap
<1>2. CASE Restart
  BY <1>2 DEF Restart, RestartWith, NoTools
<1>3. CASE ~Restart
  <2>1. \A n \in Names : /\ tools[n] # NoTool => Later(tools[n])
                         /\ \A c \in Clients : served[c][n] # NoTool => Later(served[c][n])
    <3>1. \A o \in Object : Allocated(o) => Later(o)
      BY <1>3, AllocatedStays DEF Allocated
    <3>2. QED
      BY <1>1, <3>1
  <2>2. ASSUME NEW c \in Clients, MergeTools(c) PROVE AllocatedInv'
    <3>1. /\ at[c] \in Positions /\ pc[c] = "merge"
          /\ pc' = [pc EXCEPT ![c] = "scan"] /\ UNCHANGED served
      BY <2>2 DEF MergeTools, MergeWith, AskedConnected, Goto
    <3>2. \A n \in Names : tools'[n] \in Listed(c) \/ tools'[n] = tools[n]
      BY <2>2, <3>1, ListedType DEF MergeTools, MergeWith
    <3>3. \A o \in Listed(c) : Later(o)
      BY <2>2, ListedIsNew DEF Allocated
    <3>4. QED
      BY <2>1, <3>1, <3>2, <3>3 DEF Allocated, TypeOK
  <2>3. ASSUME NEW c \in Clients, RegisterTools(c) PROVE AllocatedInv'
    BY <2>1, <2>3 DEF RegisterTools, Goto, cacheVars, Allocated, TypeOK
  <2>4. ASSUME NEW c \in Clients, Disconnect(c) PROVE AllocatedInv'
    BY <2>1, <2>4 DEF Disconnect, Goto, cacheVars, NoTools, Allocated, TypeOK
  <2>5. ASSUME UNCHANGED <<tools, served>>,
               \A c \in Clients : pc[c] = "serving" => pc'[c] = "serving"
        PROVE  AllocatedInv'
    BY <2>1, <2>5 DEF Allocated
  <2>6. ASSUME NEW c \in Clients, Connect(c) \/ SkipServer(c) \/ ListToolsFails(c)
                 \/ ListToolsReturns(c) \/ ApplyOverrides(c) \/ RefreshCatalog(c) \/ EmitCatalog(c)
        PROVE  AllocatedInv'
    BY <2>5, <2>6
    DEF Connect, SkipServer, ListToolsFails, ListToolsReturns, ApplyOverrides, Scanned,
        Scanning, ApplyWith, RefreshCatalog, EmitCatalog, Goto, cacheVars, TypeOK
  <2>7. ASSUME UNCHANGED <<tools, served, pc>> PROVE AllocatedInv'
    BY <2>5, <2>7
  <2>8. QED
    BY <1>3, <2>2, <2>3, <2>4, <2>6, <2>7
       DEF Next, Discover, Save, CopyOverrides, OpenFile, WriteFile, WriteFails,
           UpdateToolDescription, vars, cacheVars, clientVars
<1>4. QED
  BY <1>2, <1>3

\* An object that shows an override never shows the upstream's text again.
LEMMA OverrideStays ==
    ASSUME TypeOK, AskedConnected, [Next]_vars, ~Restart,
           NEW o \in Object, Allocated(o), text[o] # UpstreamText
    PROVE  text'[o] # UpstreamText
<1>1. ASSUME NEW c \in Clients, MergeTools(c) PROVE text'[o] # UpstreamText
  BY <1>1, ListedIsNew DEF MergeTools, MergeWith
<1>2. ASSUME NEW c \in Clients, ApplyOverrides(c) PROVE text'[o] # UpstreamText
  BY <1>2, NamesOfObjects, ConstantsAssumption
     DEF ApplyOverrides, ApplyWith, Overridden, TypeOK, OverrideMap
<1>3. ASSUME NEW u \in Updaters, NEW n \in Names, NEW d \in Texts,
             UpdateToolDescription(u, n, d)
      PROVE  text'[o] # UpstreamText
  BY <1>3, ConstantsAssumption DEF UpdateToolDescription, TypeOK
<1>4. CASE UNCHANGED text
  BY <1>4
<1>5. QED
  BY <1>1, <1>2, <1>3, <1>4
     DEF Next, Connect, Discover, SkipServer, ListToolsFails, ListToolsReturns, RefreshCatalog,
         EmitCatalog, RegisterTools, Disconnect, Save, CopyOverrides, OpenFile, WriteFile,
         WriteFails, vars, cacheVars
-----------------------------------------------------------------------------
(* What the refresh of a catalog event shows.                                *)

\* What a connection has merged is cached.
MergedCached == \A c \in Clients : \A n \in catalog[c] : tools[n] # NoTool

LEMMA MergedNext ==
    ASSUME TypeOK, AskedConnected, MergedCached, [Next]_vars
    PROVE  MergedCached'
<1> USE DEF MergedCached
<1>1. CASE Restart
  BY <1>1 DEF Restart, RestartWith
<1>2. CASE ~Restart
  <2>1. \A n \in Names : tools[n] # NoTool => tools'[n] # NoTool
    BY <1>2, ToolsStay
  <2>2. \A d \in Clients : \A n \in catalog[d] : n \in Names
    BY DEF TypeOK
  <2>3. ASSUME NEW c \in Clients, MergeTools(c) PROVE MergedCached'
    <3>1. at[c] \in Positions /\ catalog' = [catalog EXCEPT ![c] = @ \cup Merged(c)]
      BY <2>3 DEF MergeTools, MergeWith, AskedConnected
    <3>2. \A n \in Merged(c) : n \in Names /\ tools'[n] # NoTool
      BY <2>3, <3>1, ListedType, ConstantsAssumption DEF MergeTools, MergeWith
    <3>3. QED
      BY <2>1, <2>2, <3>1, <3>2 DEF TypeOK
  <2>4. ASSUME NEW c \in Clients, RefreshCatalog(c) PROVE MergedCached'
    BY <2>1, <2>2, <2>4 DEF RefreshCatalog, TypeOK
  <2>5. ASSUME UNCHANGED <<tools, catalog>> PROVE MergedCached'
    BY <2>5
  <2>6. QED
    BY <1>2, <2>3, <2>4, <2>5
       DEF Next, Connect, Discover, SkipServer, ListToolsFails, ListToolsReturns, ApplyOverrides,
           ApplyWith, EmitCatalog, RegisterTools, Disconnect, Save, CopyOverrides, OpenFile,
           WriteFile, WriteFails, UpdateToolDescription, vars, cacheVars, clientVars
<1>3. QED
  BY <1>1, <1>2

LEMMA FlagOfEntry ==
    ASSUME NEW entry, NEW shown, NEW override,
           entry = [text |-> shown, overridden |-> override # NoText], entry.overridden
    PROVE  override # NoText
OBVIOUS

\* An entry that the refresh marks as overridden shows the cached tool, and that its
\* override unless the tool's own connection has still to patch it.
LEMMA RefreshedEntry ==
    ASSUME IInv, MergedCached, NEW c \in Clients, RefreshCatalog(c),
           NEW n \in Names, view'[c][n].overridden
    PROVE  /\ overrides[n] # NoText /\ tools[n] \in Object
           /\ view'[c][n].text = overrides[n] \/ pc[tools[n].client] \in Merging
<1>1. /\ n \in catalog[c]
      /\ view'[c][n] = [text |-> IF tools[n] = NoTool THEN UpstreamText ELSE text[tools[n]],
                        overridden |-> overrides[n] # NoText]
  BY DEF IInv, RefreshCatalog, EmptyCatalog, TypeOK
<1>2. tools[n] # NoTool
  BY <1>1 DEF MergedCached
<1>3. overrides[n] # NoText
  BY <1>1, FlagOfEntry
<1>4. tools[n] \in Object
  BY <1>2 DEF IInv, TypeOK, ToolMap
<1>5. QED
  BY <1>1, <1>2, <1>3, <1>4 DEF IInv, OverrideInForce

LEMMA OnlyRefreshEmits ==
    ASSUME TypeOK, [Next]_vars, NEW c \in Clients, pc[c] = "refresh", pc'[c] = "emit"
    PROVE  RefreshCatalog(c)
<1>1. ASSUME NEW d \in Clients, d # c, \E phase \in Phase : Goto(d, phase) PROVE pc'[c] = pc[c]
  BY <1>1 DEF Goto, TypeOK
<1>2. CASE \E d \in Clients : Connect(d) \/ Discover(d) \/ Disconnect(d)
  BY <1>1, <1>2
     DEF Connect, Discover, SkipServer, ListToolsFails, ListToolsReturns, MergeTools, MergeWith,
         ApplyOverrides, ApplyWith, EmitCatalog, RegisterTools, Disconnect, RefreshCatalog,
         Scanning, Scanned, Goto, Phase
<1>3. QED
  BY <1>2 DEF Next, Restart, RestartWith, Save, CopyOverrides, OpenFile, WriteFile, WriteFails,
              UpdateToolDescription, vars, clientVars

\* However connections and requests interleave, the refresh of an event takes the
\* override of each tool it marks, but for the tools another connection has still to
\* patch.
THEOREM RefreshShows == Spec => CatalogShowsOverrides
<1>1. Init => MergedCached
  BY DEF Init, MergedCached
<1>2. IInv => TypeOK /\ AskedConnected
  BY DEF IInv
<1>3. IInv /\ MergedCached /\ [Next]_vars =>
        [\A c \in Clients : pc[c] = "refresh" /\ pc'[c] = "emit" =>
           \A n \in Names : view'[c][n].overridden =>
              view'[c][n].text = overrides[n] \/ pc[tools[n].client] \in Merging]_vars
  BY <1>2, OnlyRefreshEmits, RefreshedEntry
<1>4. QED
  BY Inductive, <1>1, <1>2, <1>3, MergedNext, PTL DEF Spec, CatalogShowsOverrides

-----------------------------------------------------------------------------
(* Connections that discover one at a time.                                  *)

\* An event shows the override of every tool it marks as overridden.
Shows(event) == \A n \in Names : event[n].overridden => event[n].text # UpstreamText
EventShowsOverrides == Shows(published)

\* The event of a connection, and the one emitted last, show overrides.
CatalogInv ==
    /\ MergedCached
    /\ \A c \in Clients : Shows(view[c])
    /\ EventShowsOverrides

LEMMA CatalogNext ==
    ASSUME IInv, OneDiscovers, CatalogInv, [Next]_vars
    PROVE  CatalogInv'
<1> USE DEF CatalogInv, EventShowsOverrides, Shows
<1>0. TypeOK /\ MergedCached'
  BY MergedNext DEF IInv
<1>1. CASE Restart
  BY <1>0, <1>1 DEF Restart, RestartWith, EmptyCatalog
<1>2. ASSUME NEW c \in Clients, RefreshCatalog(c) PROVE CatalogInv'
  <2>1. \A d \in Clients : pc[d] \notin Merging
    BY <1>2 DEF RefreshCatalog, OneDiscovers, Discovering, Merging
  <2>2. ASSUME NEW n \in Names, view'[c][n].overridden PROVE view'[c][n].text # UpstreamText
    <3>1. overrides[n] # NoText /\ tools[n].client \in Clients
      BY <1>2, <2>2, RefreshedEntry DEF Object
    <3>2. view'[c][n].text = overrides[n]
      BY <1>2, <2>1, <2>2, <3>1, RefreshedEntry
    <3>3. QED
      BY <1>0, <3>1, <3>2, ConstantsAssumption DEF TypeOK, OverrideMap
  <2>3. UNCHANGED published /\ \A d \in Clients : d # c => view'[d] = view[d]
    BY <1>0, <1>2 DEF RefreshCatalog, TypeOK
  <2>4. QED
    BY <1>0, <2>2, <2>3
<1>3. ASSUME NEW c \in Clients, EmitCatalog(c) PROVE CatalogInv'
  BY <1>0, <1>3 DEF EmitCatalog, EmptyCatalog, TypeOK
<1>4. ASSUME UNCHANGED <<view, published>> PROVE CatalogInv'
  BY <1>0, <1>4
<1>5. QED
  BY <1>1, <1>2, <1>3, <1>4
     DEF Next, Connect, Discover, SkipServer, ListToolsFails, ListToolsReturns, MergeTools,
         MergeWith, ApplyOverrides, ApplyWith, RegisterTools, Disconnect, Save, CopyOverrides,
         OpenFile, WriteFile, WriteFails, UpdateToolDescription, vars, clientVars

\* What a client is served of a tool that was overridden before it connected.
ServedInv ==
    \A c \in Clients : \A n \in known[c] :
        served[c][n] # NoTool => text[served[c][n]] # UpstreamText

\* Only registering and the client's own start change what is served to it.
LEMMA ServedChange ==
    ASSUME [Next]_vars, ~Restart
    PROVE  \/ UNCHANGED <<served, known>>
           \/ \E c \in Clients : Connect(c) \/ RegisterTools(c) \/ Disconnect(c)
BY DEF Next, Discover, SkipServer, ListToolsFails, ListToolsReturns, MergeTools, MergeWith,
       ApplyOverrides, ApplyWith, RefreshCatalog, EmitCatalog, Save, CopyOverrides, OpenFile,
       WriteFile, WriteFails, UpdateToolDescription, vars, clientVars

LEMMA ServedAloneNext ==
    ASSUME IInv, KnownInv, AllocatedInv, OneDiscovers, ServedInv, [Next]_vars
    PROVE  ServedInv'
<1> USE DEF ServedInv
<1> TypeOK /\ AskedConnected
  BY DEF IInv
<1>1. CASE Restart
  BY <1>1 DEF Restart, RestartWith
<1>2. ASSUME NEW c \in Clients, Connect(c) PROVE ServedInv'
  <2>1. pc[c] = "idle" /\ UNCHANGED <<served, text>>
    BY <1>2 DEF Connect, cacheVars
  <2>2. \A n \in Names : served[c][n] = NoTool
    BY <2>1 DEF AllocatedInv
  <2>3. \A d \in Clients : d # c => known'[d] = known[d]
    BY <1>2 DEF Connect, TypeOK
  <2>4. known' \in [Clients -> SUBSET Names]
    BY <1>2 DEF Connect, TypeOK
  <2>5. QED
    BY <2>1, <2>2, <2>3, <2>4
<1>3. ASSUME NEW c \in Clients, RegisterTools(c) PROVE ServedInv'
  <2>1. /\ served' = [served EXCEPT ![c] = tools] /\ UNCHANGED <<known, text>>
        /\ pc[c] = "register"
    BY <1>3 DEF RegisterTools, cacheVars
  <2>2. \A d \in Clients : pc[d] \notin Merging
    BY <2>1 DEF OneDiscovers, Discovering, Merging
  <2>3. ASSUME NEW n \in known[c], tools[n] # NoTool PROVE text[tools[n]] # UpstreamText
    <3>1. n \in Names /\ overrides[n] # NoText
      BY DEF KnownInv, TypeOK
    <3>2. tools[n].client \in Clients
      BY <2>3, <3>1 DEF TypeOK, ToolMap, Object
    <3>3. text[tools[n]] = overrides[n]
      BY <2>2, <2>3, <3>1, <3>2 DEF IInv, OverrideInForce
    <3>4. QED
      BY <3>1, <3>3, ConstantsAssumption DEF TypeOK, OverrideMap
  <2>4. QED
    BY <2>1, <2>3 DEF TypeOK
<1>4. ASSUME NEW c \in Clients, Disconnect(c) PROVE ServedInv'
  BY <1>4 DEF Disconnect, NoTools, TypeOK, cacheVars
<1>5. CASE ~Restart /\ UNCHANGED <<served, known>>
  <2>1. \A c \in Clients, n \in Names :
           served[c][n] # NoTool => served[c][n] \in Object /\ Allocated(served[c][n])
    BY DEF AllocatedInv, TypeOK, ToolMap
  <2>2. \A o \in Object : Allocated(o) /\ text[o] # UpstreamText => text'[o] # UpstreamText
    BY <1>5, OverrideStays
  <2>3. QED
    BY <1>5, <2>1, <2>2 DEF TypeOK
<1>6. QED
  BY <1>1, <1>2, <1>3, <1>4, <1>5, ServedChange

LEMMA ShownInit == Init => KnownInv /\ AllocatedInv /\ CatalogInv /\ ServedInv
BY DEF Init, KnownInv, AllocatedInv, CatalogInv, MergedCached, EventShowsOverrides, Shows,
       ServedInv, NoTools, EmptyCatalog

LEMMA AloneAlways == Spec /\ []OneDiscovers => [](CatalogInv /\ ServedInv)
<1> DEFINE Inv == IInv /\ KnownInv /\ AllocatedInv /\ CatalogInv /\ ServedInv
<1>1. Init => Inv
  BY InvInit, ShownInit
<1>2. Inv /\ OneDiscovers /\ [Next]_vars => Inv'
  <2>1. IInv => TypeOK /\ AskedConnected
    BY DEF IInv
  <2>2. QED
    BY <2>1, InvNext, KnownNext, AllocatedNext, CatalogNext, ServedAloneNext
<1>3. QED
  BY <1>1, <1>2, PTL DEF Spec

\* As long as connections discover one at a time, a tool_catalog event that
\* marks a tool as overridden carries the override, for any number of clients,
\* servers, UI requests and restarts (applyOverrides runs before the refresh).
THEOREM CatalogShownAlone == Spec /\ []OneDiscovers => []EventShowsOverrides
<1>1. CatalogInv => EventShowsOverrides
  BY DEF CatalogInv
<1>2. QED
  BY AloneAlways, <1>1, PTL

\* The stdio transport has one connection (main.go): its catalog events always
\* carry the overrides they mark.
THEOREM CatalogShown ==
    ASSUME \A c, d \in Clients : c = d
    PROVE  Spec => []EventShowsOverrides
<1>1. OneDiscovers
  BY DEF OneDiscovers
<1>2. QED
  BY CatalogShownAlone, <1>1, PTL

\* As long as connections discover one at a time, every client is served the
\* override of every tool that was overridden before it connected: overrides
\* are applied on every reconnect (main.go:295-296).
THEOREM ServedShownAlone == Spec /\ []OneDiscovers => []ServedShowOverrides
<1>1. ServedInv => ServedShowOverrides
  BY DEF ServedInv, ServedShowOverrides
<1>2. QED
  BY AloneAlways, <1>1, PTL
=============================================================================
