----------------------------- MODULE LookupModel -----------------------------
(***************************************************************************)
(* Screens, lookup pages and the way between them in the terminal client's *)
(* app.Model (tui/internal/app/model.go, monitoring.go, navigation.go), as *)
(* functions from one value of its state to the next.                      *)
(*                                                                         *)
(* There are two histories: that of the screens (history, forward) and,    *)
(* inside the lookup screen, that of the pages (lookupHistory,             *)
(* lookupForward).  A page is what it is about, the list opened on it and  *)
(* which version of the data it shows; cursor, decode mode and the tabs of *)
(* the contract workspace are left out.                                    *)
(***************************************************************************)
EXTENDS Integers, Sequences

CONSTANTS
  Transactions,   \* transactions: their data never changes
  Accounts,       \* accounts, assets and contracts: their data changes
  Details,        \* operations, events and storage entries
  Parent,         \* the transaction or account a detail belongs to
  Lists,          \* what `open ledgers`, `open accounts`, ... show
  NoEntity,       \* what an idle or misused lookup is about
  RouteLimit,     \* the bound 50 on lookupHistory
  MaxVersion      \* bound: the last version of an account's data

Cacheable == Transactions \cup Accounts
Entities == Cacheable \cup Details \cup Lists

ASSUME ParentAssumption == Parent \in [Details -> Cacheable]
ASSUME RouteLimitAssumption == RouteLimit \in Nat \ {0}
ASSUME MaxVersionAssumption == MaxVersion \in Nat
ASSUME NoEntityAssumption == NoEntity \notin Entities

\* Screen; settings is left out: every handler treats it as it treats home.
Screens == {"home", "live_feed", "lookup"}

\* LookupExplorerKind; holders, events, storage, invocations and timeline
\* behave as the first two.
Explorers == {"none", "transactions", "operations", "results"}

\* LookupSnapshot.  mark: Source.CacheState; returns: ReturnContext is set.
\* "loading" is no state between two handlers.
Pages ==
  [state : {"idle", "ready", "empty", "error"}, entity : Entities \cup {NoEntity},
   explorer : Explorers, version : 0 .. MaxVersion, mark : {"", "hit", "stale"},
   returns : BOOLEAN]

ReadyPages == {page \in Pages : page.state = "ready"}

\* current, history, forward, lookup, lookupHistory, lookupForward and
\* liveFeedMonitoring.Active.
Navs ==
  [screen : Screens, back : Seq(Screens), ahead : Seq(Screens), lookup : Pages,
   route : Seq(Pages), routeAhead : Seq(Pages), monitoring : BOOLEAN]

PageOf(state, entity, explorer, version, mark) ==
  [state |-> state, entity |-> entity, explorer |-> explorer, version |-> version,
   mark |-> mark, returns |-> FALSE]

IdlePage == PageOf("idle", NoEntity, "none", 0, "")
LoadingPage(entity) == PageOf("loading", entity, "none", 0, "")
ErrorPage(entity) == PageOf("error", entity, "none", 0, "")

\* NewModel
Fresh ==
  [screen |-> "home", back |-> <<>>, ahead |-> <<>>, lookup |-> IdlePage,
   route |-> <<>>, routeAhead |-> <<>>, monitoring |-> FALSE]

-----------------------------------------------------------------------------
LastOf(s) == s[Len(s)]
ButLast(s) == SubSeq(s, 1, Len(s) - 1)

\* Two pages that pushLookupHistory takes for one.
SamePage(p, q) == p.entity = q.entity /\ p.explorer = q.explorer

-----------------------------------------------------------------------------
(* Mutated forms.                                                           *)

\* The page is put on the route whatever its state.
RememberedAnyState(nav) ==
  [nav EXCEPT !.route = Append(@, nav.lookup), !.routeAhead = <<>>]

\* A page is told from the last one by its entity alone.
RememberedByEntity(nav) ==
  IF \/ nav.lookup.state # "ready"
     \/ nav.route # <<>> /\ LastOf(nav.route).entity = nav.lookup.entity
  THEN nav
  ELSE LET longer == Append(nav.route, nav.lookup)
       IN  [nav EXCEPT !.route = IF Len(longer) > RouteLimit THEN Tail(longer) ELSE longer,
                       !.routeAhead = <<>>]

\* A lookup is loaded with the page it replaces put on the route first.
LoadingRemembers(nav, entity) ==
  LET kept == IF nav.lookup.state = "ready"
              THEN [nav EXCEPT !.route = Append(@, nav.lookup)] ELSE nav
  IN  [kept EXCEPT !.screen = "lookup", !.lookup = LoadingPage(entity)]

\* The step back that reads the route without taking from it.
BackByPeeking(nav) ==
  IF nav.screen = "lookup" /\ nav.route # <<>>
  THEN [nav EXCEPT !.routeAhead = Append(@, nav.lookup), !.lookup = LastOf(nav.route)]
  ELSE IF nav.back = <<>> THEN nav
  ELSE [nav EXCEPT !.back = ButLast(@), !.ahead = Append(@, nav.screen),
                   !.screen = LastOf(nav.back)]

-----------------------------------------------------------------------------
\* pushLookupHistory
Remembered(nav) ==
  IF \/ nav.lookup.state # "ready"
     \/ nav.route # <<>> /\ SamePage(LastOf(nav.route), nav.lookup)
  THEN nav
  ELSE LET longer == Append(nav.route, nav.lookup)
       IN  [nav EXCEPT !.route = IF Len(longer) > RouteLimit THEN Tail(longer) ELSE longer,
                       !.routeAhead = <<>>]

\* SetScreen, pushHistory with the screen assigned after it
Entered(nav, screen) ==
  IF nav.screen = screen THEN nav
  ELSE [nav EXCEPT !.screen = screen, !.back = Append(@, nav.screen), !.ahead = <<>>]

\* UpdateLookupTransaction and the other kinds, OpenLookupResultExplorer
UpdateLookup(nav, page) == [Entered(Remembered(nav), "lookup") EXCEPT !.lookup = page]

\* SetLookupLoading: no history is written.
SetLookupLoading(nav, entity) ==
  [nav EXCEPT !.screen = "lookup", !.lookup = LoadingPage(entity)]

\* SetLookupError: the page that it replaces is not remembered.
SetLookupError(nav, entity) ==
  [Entered(nav, "lookup") EXCEPT !.lookup = ErrorPage(entity)]

\* OpenLookupTransactionExplorer and the other lists on a page
OpenLookupExplorer(nav, explorer) ==
  IF nav.lookup.state # "ready" THEN nav
  ELSE [Remembered(nav) EXCEPT !.screen = "lookup", !.lookup.explorer = explorer]

\* CloseLookupExplorer
CloseLookupExplorer(nav) ==
  IF nav.lookup.explorer = "none" THEN nav
  ELSE [Remembered(nav) EXCEPT !.lookup.explorer = "none"]

\* ReturnToLiveMonitoring; FALSE in the code is an unchanged state here.
ReturnToLiveMonitoring(nav) ==
  IF ~ nav.lookup.returns /\ ~ nav.monitoring THEN nav
  ELSE [nav EXCEPT !.screen = "live_feed", !.lookup = IdlePage, !.route = <<>>,
                   !.routeAhead = <<>>, !.monitoring = FALSE]

\* Back
Back(nav) ==
  CASE nav.screen = "lookup" /\ nav.route = <<>> /\ nav.lookup.returns ->
         ReturnToLiveMonitoring(nav)
    [] nav.screen = "lookup" /\ nav.route # <<>> ->
         [nav EXCEPT !.route = ButLast(@),
                     !.routeAhead = IF nav.lookup.state = "ready" THEN Append(@, nav.lookup) ELSE @,
                     !.lookup = LastOf(nav.route)]
    [] OTHER ->
         IF nav.back = <<>> THEN nav
         ELSE [nav EXCEPT !.back = ButLast(@), !.ahead = Append(@, nav.screen),
                          !.screen = LastOf(nav.back),
                          !.monitoring = @ /\ LastOf(nav.back) # "live_feed"]

\* Forward
Forward(nav) ==
  IF nav.screen = "lookup" /\ nav.routeAhead # <<>>
  THEN [nav EXCEPT !.routeAhead = ButLast(@),
                   !.route = IF nav.lookup.state = "ready" THEN Append(@, nav.lookup) ELSE @,
                   !.lookup = LastOf(nav.routeAhead)]
  ELSE IF nav.ahead = <<>> THEN nav
  ELSE [nav EXCEPT !.ahead = ButLast(@), !.back = Append(@, nav.screen),
                   !.screen = LastOf(nav.ahead)]
=============================================================================
