------------------------------- MODULE Lookups -------------------------------
(***************************************************************************)
(* Lookups of the terminal client: the keys and commands that move between *)
(* screens and pages, the backend calls they block on, the refresh of the  *)
(* page shown every five seconds, and the local cache of visited entities  *)
(* (tui/cmd/tui/main.go, runtime.go, cache_lookup.go, cache_fallback.go,   *)
(* tui/internal/cache/entities.go, policy.go).                             *)
(*                                                                         *)
(* A handler runs to its end before the next message is handled, its       *)
(* backend calls included, so each is one step.  What is hard is the order *)
(* of handlers: the refresh runs over whatever page the user is on.        *)
(*                                                                         *)
(* There is one local store, always open, and one profile; the live feed   *)
(* itself is module LiveFeed.  The backend is external: a call answers     *)
(* with the entity's present data or fails.                                *)
(***************************************************************************)
EXTENDS LookupModel, FiniteSets

CONSTANTS
  CacheLimit,     \* DefaultEntityCacheLimit
  MaxMoves        \* bound on what the user does

ASSUME CacheLimitAssumption == CacheLimit \in Nat \ {0}
ASSUME MaxMovesAssumption == MaxMoves \in Nat

VARIABLES
  nav,            \* app.Model
  cache,          \* table entity_cache, the newest row first
  data,           \* the version of each account's data at the backend
  moves           \* how much the user has done

vars == <<nav, cache, data, moves>>

Rows == [entity : Cacheable, version : 0 .. MaxVersion, fresh : BOOLEAN]

VersionOf(entity) == IF entity \in Accounts THEN data[entity] ELSE 0

-----------------------------------------------------------------------------
(* The cache.                                                               *)

IsCached(rows, entity) == \E i \in DOMAIN rows : rows[i].entity = entity

IndexOf(rows, entity) == CHOOSE i \in DOMAIN rows : rows[i].entity = entity

\* GetEntityCache
CachedRow(rows, entity) == rows[IndexOf(rows, entity)]

\* EntityFresh
IsFresh(rows, entity) == IsCached(rows, entity) /\ CachedRow(rows, entity).fresh

Without(rows, entity) ==
  IF ~ IsCached(rows, entity) THEN rows
  ELSE [i \in 1 .. Len(rows) - 1 |-> rows[IF i < IndexOf(rows, entity) THEN i ELSE i + 1]]

\* PruneEntityCache
Pruned(rows) == SubSeq(rows, 1, IF Len(rows) < CacheLimit THEN Len(rows) ELSE CacheLimit)

\* Mutated form: the prune forgotten.
UpsertedUnpruned(rows, row) == <<row>> \o Without(rows, row.entity)

\* UpsertEntityCache: pruned first, and then one row more.
Upserted(rows, row) == <<row>> \o Without(Pruned(rows), row.entity)

-----------------------------------------------------------------------------
(* Handlers.  Each takes the model and the cache, as a record s, to the set *)
(* of what they may be after it, one for each answer of the backend.        *)

Now == [nav |-> nav, cache |-> cache]

Shown(s, page) == [s EXCEPT !.nav = UpdateLookup(@, page)]
Failed(s, entity) == [s EXCEPT !.nav = SetLookupError(@, entity)]

\* restoreLookupFromCache
Restored(s, entity, mark) ==
  Shown(s, PageOf("ready", entity, "none", CachedRow(s.cache, entity).version, mark))

Fetched(s, entity) == Shown(s, PageOf("ready", entity, "none", VersionOf(entity), ""))

\* afterLookupLoaded, persistVisitedEntity
Persisted(s, entity) ==
  [s EXCEPT !.cache =
     Upserted(@, [entity |-> entity, version |-> VersionOf(entity), fresh |-> TRUE])]

\* Mutated form of what a failed call leaves: a cached row without its mark.
FallsBackUnmarked(s, entity) ==
  IF IsCached(s.cache, entity) THEN Restored(s, entity, "") ELSE Failed(s, entity)

\* tryRestoreLookupFromCache after a failed call
FallenBack(s, entity) ==
  IF IsCached(s.cache, entity) THEN Restored(s, entity, "stale") ELSE Failed(s, entity)

\* performEntityLookup past the cache
Reloaded(s, entity) ==
  LET loading == [s EXCEPT !.nav = SetLookupLoading(@, entity)]
  IN  {Persisted(Fetched(loading, entity), entity), FallenBack(loading, entity)}

\* performEntityLookup, executeLookupCommand
LookedUp(s, entity) ==
  IF IsFresh(s.cache, entity) THEN {Restored(s, entity, "hit")} ELSE Reloaded(s, entity)

\* refreshCurrentScreen, refreshActiveLookup: only a ready page, and only of
\* an entity that is cached when visited.
Refreshed(s) ==
  IF /\ s.nav.screen = "lookup"
     /\ s.nav.lookup.state = "ready"
     /\ s.nav.lookup.entity \in Cacheable
  THEN Reloaded(s, s.nav.lookup.entity) ELSE {s}

\* openTransactionScope, `open account`: where the rows of the feed or of the
\* page lead.
Leads(n) ==
  {entity \in Transactions :
     \/ n.screen = "live_feed"
     \/ n.screen = "lookup" /\ n.lookup.state = "ready" /\ n.lookup.entity \in Accounts}
  \cup
  {entity \in Accounts : n.lookup.state = "ready" /\ n.lookup.entity \in Transactions}

\* `open tx <n>`, `open account`: the cache is neither read nor written.
RowOpened(s, entity) == {Fetched(s, entity), Failed(s, entity)}

\* activateSelection on the live feed; an empty feed leaves the captured
\* context only.
FeedRowOpened(s, entity) ==
  LET captured == [s EXCEPT !.nav.monitoring = TRUE]
      opened == [Fetched(captured, entity) EXCEPT !.nav.lookup.returns = TRUE]
  IN  {captured, Persisted(opened, entity), Failed(captured, entity)}

Operations == {detail \in Details : Parent[detail] \in Transactions}

\* resolveOperationSelection: whether the page has operations at hand.
HasOperations(page) ==
  page.state = "ready" /\ (page.entity \in Transactions \/ page.explorer = "operations")

\* resolveOperationSelection, resolveEventSelection,
\* resolveStorageEntrySelection: the details among the page's rows, whichever
\* screen is shown.
Resolved(page) ==
  {detail \in Details :
     /\ page.state = "ready"
     /\ \/ Parent[detail] = page.entity
        \/ detail \in Operations /\ page.entity \in Accounts /\ page.explorer = "operations"}

\* openOperationDetail, openEventDetail, openStorageEntryDetail
DetailOpened(s, detail) == Shown(s, PageOf("ready", detail, "none", 0, ""))

\* `lookup op <txhash>:<index>`: operations at hand go before those asked for.
OperationLookedUp(s, asked) ==
  {Failed(s, asked)} \cup
  {DetailOpened(s, detail) :
     detail \in IF HasOperations(s.nav.lookup) THEN Resolved(s.nav.lookup) \cap Operations
                ELSE {asked}}

\* openTransactionExplorerScope, openOperationExplorerScope and the like
Listable(n) ==
  IF n.screen # "lookup" \/ n.lookup.state # "ready" THEN {}
  ELSE (IF n.lookup.entity \in Accounts THEN {"transactions"} ELSE {}) \cup
       (IF n.lookup.entity \in Cacheable THEN {"operations"} ELSE {})

\* `open txs`, `open ops` and the like
ListOpened(s, explorer) ==
  {[s EXCEPT !.nav = OpenLookupExplorer(@, explorer)], Failed(s, NoEntity)}

\* `open ledgers`, `open accounts` and the like
ResultsOpened(s, list) ==
  {Shown(s, PageOf("ready", list, "results", 0, "")),
   Shown(s, PageOf("empty", list, "results", 0, "")),
   Failed(s, list)}

-----------------------------------------------------------------------------
\* NewModel; the local store is empty on the first run.
Init ==
  /\ nav = Fresh
  /\ cache = <<>>
  /\ data = [entity \in Accounts |-> 0]
  /\ moves = 0

Move ==
  /\ moves < MaxMoves
  /\ moves' = moves + 1
  /\ UNCHANGED data

\* One of the states a command may leave, as it is for the enter key
\* (activateSelection); the palette refreshes after it (submitCommandPalette).
Leave(states) ==
  /\ Move
  /\ \E s \in states : \E t \in {s} \cup Refreshed(s) : nav' = t.nav /\ cache' = t.cache

\* `lookup <kind> <id>`
Lookup == \E entity \in Cacheable : Leave(LookedUp(Now, entity))

\* `lookup op <txhash>:<index>`
LookupOperation(asked) == Leave(OperationLookedUp(Now, asked))

\* `open tx <n>`, `open account`
OpenRow == \E entity \in Leads(nav) : Leave(RowOpened(Now, entity))

\* `open op <n>`, `open event <n>`, `open storage <n>`, `open invocation <n>`
OpenDetail == \E detail \in Resolved(nav.lookup) : Leave({DetailOpened(Now, detail)})

\* `open txs`, `open ops`, `open holders`, `open events`, ...
OpenList == \E explorer \in Listable(nav) : Leave(ListOpened(Now, explorer))

\* `open ledgers`, `open accounts`, `open assets`, `open contracts`
OpenResults == \E list \in Lists : Leave(ResultsOpened(Now, list))

\* `open detail`
CloseList ==
  /\ nav.screen = "lookup" /\ nav.lookup.explorer # "none"
  /\ Leave({[Now EXCEPT !.nav = CloseLookupExplorer(@)]})

\* `open cache`: isWorkspaceCommand takes it for a command of the workspace,
\* which does not know it; executeOpenCacheCommand is not reached.
OpenCache == Leave({Now})

\* A command with nothing to work on, or not understood.
Misuse == Leave({Failed(Now, NoEntity)})

\* The enter key on the live feed.
OpenFeedRow ==
  /\ nav.screen = "live_feed"
  /\ Move
  /\ \E entity \in Transactions : \E s \in FeedRowOpened(Now, entity) :
       nav' = s.nav /\ cache' = s.cache

\* Keys h, l, u and s
GoTo(screen) == Move /\ nav' = Entered(nav, screen) /\ UNCHANGED cache

\* Keys b and f; `live return`
GoBack == Move /\ nav' = Back(nav) /\ UNCHANGED cache
GoForward == Move /\ nav' = Forward(nav) /\ UNCHANGED cache
LiveReturn == Move /\ nav' = ReturnToLiveMonitoring(nav) /\ UNCHANGED cache

\* liveFeedTickMsg, key r
Refresh ==
  /\ \E s \in Refreshed(Now) : nav' = s.nav /\ cache' = s.cache
  /\ UNCHANGED <<data, moves>>

\* A row of an account, asset or contract passes its age (EntityTTL).
Expire(i) ==
  /\ cache[i].entity \in Accounts
  /\ cache' = [cache EXCEPT ![i].fresh = FALSE]
  /\ UNCHANGED <<nav, data, moves>>

\* External: ledgers close.
Change(entity) ==
  /\ data[entity] < MaxVersion
  /\ data' = [data EXCEPT ![entity] = @ + 1]
  /\ UNCHANGED <<nav, cache, moves>>

\* The client is started again on the screen that was shown (RestoreScreen).
Restart == Move /\ nav' = Entered(Fresh, nav.screen) /\ UNCHANGED cache

Next ==
  \/ Lookup \/ OpenRow \/ OpenDetail \/ OpenList \/ OpenResults \/ CloseList
  \/ OpenCache \/ Misuse \/ OpenFeedRow
  \/ \E asked \in Operations : LookupOperation(asked)
  \/ \E screen \in Screens : GoTo(screen)
  \/ GoBack \/ GoForward \/ LiveReturn \/ Refresh \/ Restart
  \/ \E i \in DOMAIN cache : Expire(i)
  \/ \E entity \in Accounts : Change(entity)

Spec == Init /\ [][Next]_vars

-----------------------------------------------------------------------------
LookupsTypeOK ==
  /\ nav \in Navs
  /\ cache \in Seq(Rows)
  /\ data \in [Accounts -> 0 .. MaxVersion]
  /\ moves \in 0 .. MaxMoves

\* The two ways of b and f through the lookup screen hold pages that can be
\* shown, never one that failed or was loading, and both together no more
\* than the limit that only the way back is held to (pushLookupHistory,
\* Back, Forward).
RouteSound ==
  /\ \A i \in DOMAIN nav.route : nav.route[i].state = "ready"
  /\ \A i \in DOMAIN nav.routeAhead : nav.routeAhead[i].state = "ready"
  /\ Len(nav.route) + Len(nav.routeAhead) <= RouteLimit

\* f takes back what b did on the lookup screen, whatever commands, failures
\* and refreshes led to the page shown (Back, Forward).
ForwardUndoesBack ==
  nav.screen = "lookup" /\ nav.route # <<>> /\ nav.lookup.state = "ready"
    => Forward(Back(nav)) = nav

\* The local store keeps one row for an entity, of data that the backend did
\* have, and never more than one row above its limit, which is enforced
\* before and not after an insertion (UpsertEntityCache).
CacheSound ==
  /\ Len(cache) <= CacheLimit + 1
  /\ \A i, j \in DOMAIN cache : cache[i].entity = cache[j].entity => i = j
  /\ \A i \in DOMAIN cache : cache[i].version <= VersionOf(cache[i].entity)

\* A refresh runs behind the user's back: it leaves the screen, the page's
\* entity and the way back and forward alone (refreshActiveLookup).
RefreshKeepsPlace ==
  [][Refresh => /\ nav'.screen = nav.screen
                /\ nav'.lookup.entity = nav.lookup.entity
                /\ <<nav'.back, nav'.ahead>> = <<nav.back, nav.ahead>>
                /\ <<nav'.route, nav'.routeAhead>> = <<nav.route, nav.routeAhead>>]_vars

\* What a refresh shows is no older than what it replaces, or is marked as
\* stale; a failure is shown only if nothing is cached (performEntityLookup).
RefreshDegradesHonestly ==
  [][Refresh /\ nav.lookup.state = "ready" =>
       \/ nav'.lookup.state = "ready" /\ nav'.lookup.version >= nav.lookup.version
       \/ nav'.lookup.mark = "stale"
       \/ nav'.lookup.state = "error" /\ ~ IsCached(cache, nav.lookup.entity)]_vars

\* Pressing b again and again ends: every step back takes a page or a screen
\* off the way back, or the user to the live feed with no page left (Back).
BackEnds ==
  [][GoBack => \/ nav' = nav
               \/ Len(nav'.route) + Len(nav'.back) < Len(nav.route) + Len(nav.back)
               \/ nav'.screen = "live_feed" /\ nav'.lookup.state = "idle"]_vars

\* From a row, list or detail opened on a page, b leads back to that page,
\* also when the palette's refresh came in between (UpdateLookup,
\* OpenLookupExplorer, Back).
BackLeadsToOpener ==
  [][/\ OpenRow \/ OpenDetail \/ OpenList \/ OpenResults
     /\ nav.screen = "lookup" /\ nav.lookup.state = "ready"
     /\ nav'.lookup.state = "ready"
     => Back(nav').screen = "lookup" /\ SamePage(Back(nav').lookup, nav.lookup)]_vars
=============================================================================
