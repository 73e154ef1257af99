---------------------------- MODULE LookupsProofs ----------------------------
(***************************************************************************)
(* For every set of entities, bound on the route and size of the cache:    *)
(* types, the route through the lookup screen, the cache, and what b and f *)
(* do to each other; and that a refresh says where its page is from.  The  *)
(* first part proves it of the model's operations one by one, the second   *)
(* of the handlers built from them, the third of the steps, and the last   *)
(* adds what every page on the screen says of its source.                  *)
(***************************************************************************)
EXTENDS Lookups, SequenceTheorems, TLAPS

\* A page, or the loading one that a handler leaves before it ends.
WorkPages ==
  [state : {"idle", "ready", "empty", "error", "loading"}, entity : Entities \cup {NoEntity},
   explorer : Explorers, version : 0 .. MaxVersion, mark : {"", "hit", "stale"},
   returns : BOOLEAN]

\* The model inside a handler: routes of ready pages, together no longer than
\* the limit.
WorkNav(n) ==
  /\ n \in [screen : Screens, back : Seq(Screens), ahead : Seq(Screens), lookup : WorkPages,
            route : Seq(ReadyPages), routeAhead : Seq(ReadyPages), monitoring : BOOLEAN]
  /\ Len(n.route) + Len(n.routeAhead) <= RouteLimit

\* The model between handlers.
GoodNav(n) == WorkNav(n) /\ n.lookup \in Pages

\* One row for an entity, of data the backend did have; at most limit of them.
RowsOf(rows, limit) ==
  /\ rows \in Seq(Rows)
  /\ Len(rows) <= limit
  /\ \A i, j \in 1 .. Len(rows) : rows[i].entity = rows[j].entity => i = j
  /\ \A i \in 1 .. Len(rows) : rows[i].version <= VersionOf(rows[i].entity)

Data == data \in [Accounts -> 0 .. MaxVersion]

\* The inductive invariant.
LookupsInv ==
  /\ GoodNav(nav)
  /\ RowsOf(cache, CacheLimit + 1)
  /\ Data
  /\ moves \in 0 .. MaxMoves

-----------------------------------------------------------------------------
(* Pages and screens.                                                       *)

LEMMA PageFacts ==
  /\ \A page \in Pages : page \in WorkPages
  /\ \A page \in WorkPages : page.state = "ready" => page \in ReadyPages
  /\ \A page \in ReadyPages : page \in Pages /\ page \in WorkPages /\ page.state = "ready"
BY DEF Pages, WorkPages, ReadyPages

\* The last entry of a route, and the route without it.
LEMMA LastAndRest ==
  ASSUME NEW S, NEW s \in Seq(S), s # <<>>
  PROVE  /\ LastOf(s) \in S
         /\ ButLast(s) \in Seq(S)
         /\ Len(ButLast(s)) = Len(s) - 1
         /\ Append(ButLast(s), LastOf(s)) = s
<1>1. Len(s) \in Nat \ {0}
  BY EmptySeq
<1>2. s[Len(s)] \in S
  BY <1>1, ElementOfSeq
<1>3. \A i \in 1 .. Len(s) - 1 : s[i] \in S
  BY <1>1, ElementOfSeq
<1>4. /\ SubSeq(s, 1, Len(s) - 1) \in Seq(S)
      /\ Len(SubSeq(s, 1, Len(s) - 1)) = Len(s) - 1
      /\ \A i \in 1 .. Len(s) - 1 : SubSeq(s, 1, Len(s) - 1)[i] = s[i]
  <2> DEFINE m == Len(s) - 1
  <2>1. m \in Int /\ 1 \in Int /\ (\A i \in 1 .. m : s[i] \in S) /\ m >= 0
    BY <1>1, <1>3
  <2>2. /\ SubSeq(s, 1, m) \in Seq(S)
        /\ Len(SubSeq(s, 1, m)) = IF 1 <= m THEN m - 1 + 1 ELSE 0
        /\ \A i \in 1 .. m - 1 + 1 : SubSeq(s, 1, m)[i] = s[1 + i - 1]
    <3> HIDE DEF m
    <3>. QED  BY <2>1, SubSeqProperties
  <2>. QED
    <3> HIDE DEF m
    <3>1. m - 1 + 1 = m /\ \A i \in 1 .. m : 1 + i - 1 = i
      BY <2>1
    <3>2. Len(SubSeq(s, 1, m)) = m
      BY <2>1, <2>2
    <3>3. \A i \in 1 .. m : SubSeq(s, 1, m)[i] = s[i]
      BY <2>2, <3>1
    <3>. QED  BY <2>2, <3>2, <3>3 DEF m
<1>5. Append(SubSeq(s, 1, Len(s) - 1), s[Len(s)]) = s
  <2> DEFINE t == SubSeq(s, 1, Len(s) - 1)
  <2> HIDE DEF t
  <2>1. Append(t, s[Len(s)]) \in Seq(S) /\ Len(Append(t, s[Len(s)])) = Len(s)
    BY <1>1, <1>2, <1>4 DEF t
  <2>2. ASSUME NEW i \in 1 .. Len(s) PROVE Append(t, s[Len(s)])[i] = s[i]
    BY <1>1, <1>2, <1>4 DEF t
  <2>. QED  BY <2>1, <2>2, SeqEqual DEF t
<1>. QED  BY <1>2, <1>4, <1>5 DEF LastOf, ButLast

\* The route stays inside its limit when a page is put on it.
LEMMA RememberedGood ==
  ASSUME NEW n, WorkNav(n)
  PROVE  /\ WorkNav(Remembered(n))
         /\ Remembered(n).lookup = n.lookup /\ Remembered(n).screen = n.screen
         /\ n.lookup.state # "ready" => Remembered(n) = n
<1>1. CASE Remembered(n) = n
  BY <1>1
<1>2. CASE n.lookup.state = "ready" /\ Remembered(n) # n
  <2> DEFINE longer == Append(n.route, n.lookup)
  <2> DEFINE kept == IF Len(longer) > RouteLimit THEN Tail(longer) ELSE longer
  <2>1. n.lookup \in ReadyPages
    BY <1>2, PageFacts DEF WorkNav
  <2>2. longer \in Seq(ReadyPages) /\ longer # <<>> /\ Len(longer) = Len(n.route) + 1
    <3>1. n.route \in Seq(ReadyPages)
      BY DEF WorkNav
    <3>. QED  BY <2>1, <3>1
  <2>3. Len(n.route) \in Nat /\ Len(n.routeAhead) \in Nat /\ RouteLimit \in Nat
    BY LenProperties, RouteLimitAssumption DEF WorkNav
  <2>4. kept \in Seq(ReadyPages) /\ Len(kept) <= RouteLimit /\ Len(kept) \in Nat
    <3>1. Tail(longer) \in Seq(ReadyPages) /\ Len(Tail(longer)) = Len(longer) - 1
      BY <2>2, HeadTailProperties
    <3>2. Len(n.route) <= RouteLimit
      BY <2>3 DEF WorkNav
    <3> HIDE DEF longer
    <3>. QED  BY <2>2, <2>3, <3>1, <3>2
  <2>5. Remembered(n) = [n EXCEPT !.route = kept, !.routeAhead = <<>>]
    BY <1>2 DEF Remembered
  <2> HIDE DEF kept
  <2>6. Len(kept) + Len(<<>>) <= RouteLimit /\ <<>> \in Seq(ReadyPages)
    BY <2>4, <2>3, EmptySeq
  <2>. QED  BY <1>2, <2>4, <2>5, <2>6 DEF WorkNav
<1>. QED  BY <1>1, <1>2 DEF Remembered

LEMMA EnteredGood ==
  ASSUME NEW n, WorkNav(n), NEW screen \in Screens
  PROVE  /\ WorkNav(Entered(n, screen))
         /\ Entered(n, screen).lookup = n.lookup
         /\ Entered(n, screen).screen = screen
         /\ Entered(n, screen).route = n.route
         /\ Entered(n, screen).routeAhead = n.routeAhead
<1>1. CASE n.screen = screen
  BY <1>1 DEF Entered
<1>2. CASE n.screen # screen
  <2>1. Append(n.back, n.screen) \in Seq(Screens) /\ <<>> \in Seq(Screens)
    BY EmptySeq DEF WorkNav
  <2>. QED  BY <1>2, <2>1 DEF Entered, WorkNav
<1>. QED  BY <1>1, <1>2

LEMMA UpdateLookupGood ==
  ASSUME NEW n, WorkNav(n), NEW page \in Pages
  PROVE  GoodNav(UpdateLookup(n, page)) /\ UpdateLookup(n, page).lookup = page
<1>1. WorkNav(Entered(Remembered(n), "lookup"))
  BY RememberedGood, EnteredGood DEF Screens
<1>. QED  BY <1>1, PageFacts DEF UpdateLookup, WorkNav, GoodNav

LEMMA SetLookupGood ==
  ASSUME NEW n, WorkNav(n), NEW entity \in Entities \cup {NoEntity}
  PROVE  /\ WorkNav(SetLookupLoading(n, entity))
         /\ GoodNav(SetLookupError(n, entity))
<1>1. LoadingPage(entity) \in WorkPages /\ ErrorPage(entity) \in Pages /\ ErrorPage(entity) \in WorkPages
  BY MaxVersionAssumption DEF LoadingPage, ErrorPage, PageOf, Pages, WorkPages, Explorers
<1>2. WorkNav(Entered(n, "lookup"))
  BY EnteredGood DEF Screens
<1>. QED  BY <1>1, <1>2 DEF SetLookupLoading, SetLookupError, WorkNav, GoodNav, Screens

LEMMA ListsGood ==
  ASSUME NEW n, GoodNav(n), NEW explorer \in Explorers
  PROVE  GoodNav(OpenLookupExplorer(n, explorer)) /\ GoodNav(CloseLookupExplorer(n))
<1>1. WorkNav(Remembered(n)) /\ Remembered(n).lookup = n.lookup
  BY RememberedGood DEF GoodNav
<1>2. ASSUME NEW x \in Explorers
      PROVE  /\ [n.lookup EXCEPT !.explorer = x] \in Pages
             /\ [n.lookup EXCEPT !.explorer = x] \in WorkPages
  BY PageFacts DEF GoodNav, Pages
<1>3. GoodNav(OpenLookupExplorer(n, explorer))
  BY <1>1, <1>2 DEF OpenLookupExplorer, GoodNav, WorkNav, Screens
<1>4. GoodNav(CloseLookupExplorer(n))
  BY <1>1, <1>2 DEF CloseLookupExplorer, GoodNav, WorkNav, Explorers
<1>. QED  BY <1>3, <1>4

\* A start, with or without a screen to restore.
LEMMA FreshGood ==
  GoodNav(Fresh) /\ \A screen \in Screens : GoodNav(Entered(Fresh, screen))
<1>1. IdlePage \in Pages /\ IdlePage \in WorkPages
  BY MaxVersionAssumption DEF IdlePage, PageOf, Pages, WorkPages, Explorers
<1>2. Len(<<>>) + Len(<<>>) <= RouteLimit
  BY RouteLimitAssumption
<1>3. GoodNav(Fresh)
  BY <1>1, <1>2, EmptySeq DEF Fresh, GoodNav, WorkNav, Screens
<1>. QED  BY <1>3, EnteredGood DEF GoodNav

LEMMA ReturnGood ==
  ASSUME NEW n, GoodNav(n)
  PROVE  GoodNav(ReturnToLiveMonitoring(n))
<1>1. IdlePage \in Pages /\ IdlePage \in WorkPages
  BY MaxVersionAssumption DEF IdlePage, PageOf, Pages, WorkPages, Explorers
<1>2. Len(<<>>) + Len(<<>>) <= RouteLimit
  BY RouteLimitAssumption
<1>. QED  BY <1>1, <1>2, EmptySeq DEF ReturnToLiveMonitoring, GoodNav, WorkNav, Screens

LEMMA OneLess ==
  \A a, b \in Nat : (a - 1) + b < a + b /\ a + (b - 1) < a + b
OBVIOUS

\* A step back shortens the way back, or ends on the live feed.
LEMMA BackGood ==
  ASSUME NEW n, GoodNav(n)
  PROVE  /\ GoodNav(Back(n))
         /\ \/ Back(n) = n
            \/ Len(Back(n).route) + Len(Back(n).back) < Len(n.route) + Len(n.back)
            \/ Back(n).screen = "live_feed" /\ Back(n).lookup.state = "idle"
<1> DEFINE returning == n.screen = "lookup" /\ n.route = <<>> /\ n.lookup.returns
<1> DEFINE paging == n.screen = "lookup" /\ n.route # <<>>
<1>1. /\ n.lookup \in Pages /\ n.lookup \in WorkPages /\ n.screen \in Screens
      /\ n.route \in Seq(ReadyPages) /\ n.routeAhead \in Seq(ReadyPages)
      /\ n.back \in Seq(Screens) /\ n.ahead \in Seq(Screens)
      /\ Len(n.route) \in Nat /\ Len(n.routeAhead) \in Nat /\ Len(n.back) \in Nat
      /\ n.lookup.state = "ready" => n.lookup \in ReadyPages
  BY PageFacts, LenProperties DEF GoodNav, WorkNav
<1>6. Len(n.route) \in Nat /\ Len(n.back) \in Nat
  BY <1>1
<1>2. CASE returning
  <2>1. Back(n) = ReturnToLiveMonitoring(n)
    BY <1>2 DEF Back
  <2>2. ReturnToLiveMonitoring(n).screen = "live_feed"
        /\ ReturnToLiveMonitoring(n).lookup = IdlePage
    BY <1>2 DEF ReturnToLiveMonitoring, GoodNav, WorkNav
  <2>3. IdlePage.state = "idle"
    BY DEF IdlePage, PageOf
  <2>4. Back(n).screen = "live_feed" /\ Back(n).lookup.state = "idle"
    BY <2>1, <2>2, <2>3
  <2>5. GoodNav(Back(n))
    BY <2>1, ReturnGood
  <2> HIDE DEF returning, paging
  <2>. QED  BY <2>4, <2>5
<1>3. CASE paging
  <2> DEFINE ahead == IF n.lookup.state = "ready" THEN Append(n.routeAhead, n.lookup)
                      ELSE n.routeAhead
  <2>1. Back(n) = [n EXCEPT !.route = ButLast(n.route), !.routeAhead = ahead,
                            !.lookup = LastOf(n.route)]
    BY <1>3 DEF Back
  <2>2. /\ ButLast(n.route) \in Seq(ReadyPages) /\ LastOf(n.route) \in ReadyPages
        /\ Len(ButLast(n.route)) = Len(n.route) - 1
    BY <1>1, <1>3, LastAndRest
  <2>3. ahead \in Seq(ReadyPages) /\ Len(ahead) <= Len(n.routeAhead) + 1 /\ Len(ahead) \in Nat
    BY <1>1
  <2> HIDE DEF ahead
  <2>4. Len(ButLast(n.route)) + Len(ahead) <= RouteLimit
    BY <1>1, <2>2, <2>3, RouteLimitAssumption DEF GoodNav, WorkNav
  <2>5. LastOf(n.route) \in Pages /\ LastOf(n.route) \in WorkPages
    BY <2>2, PageFacts
  <2>6. GoodNav(Back(n))
    BY <2>1, <2>2, <2>3, <2>4, <2>5 DEF GoodNav, WorkNav
  <2>7. Back(n).route = ButLast(n.route) /\ Back(n).back = n.back
    BY <2>1 DEF GoodNav, WorkNav
  <2>8. Len(Back(n).route) = Len(n.route) - 1 /\ Len(Back(n).back) = Len(n.back)
    BY <2>2, <2>7
  <2>9. Len(Back(n).route) + Len(Back(n).back) < Len(n.route) + Len(n.back)
    BY <1>6, <2>8, OneLess
  <2>. QED  BY <2>6, <2>9
<1>4. CASE ~ returning /\ ~ paging /\ n.back = <<>>
  BY <1>4 DEF Back
<1>5. CASE ~ returning /\ ~ paging /\ n.back # <<>>
  <2>1. Back(n) = [n EXCEPT !.back = ButLast(n.back), !.ahead = Append(n.ahead, n.screen),
                            !.screen = LastOf(n.back),
                            !.monitoring = n.monitoring /\ LastOf(n.back) # "live_feed"]
    BY <1>5 DEF Back
  <2>2. /\ ButLast(n.back) \in Seq(Screens) /\ LastOf(n.back) \in Screens
        /\ Len(ButLast(n.back)) = Len(n.back) - 1
        /\ Append(n.ahead, n.screen) \in Seq(Screens)
    BY <1>1, <1>5, LastAndRest
  <2>3. GoodNav(Back(n)) /\ Back(n).route = n.route /\ Back(n).back = ButLast(n.back)
    BY <2>1, <2>2 DEF GoodNav, WorkNav
  <2>4. Len(Back(n).route) = Len(n.route) /\ Len(Back(n).back) = Len(n.back) - 1
    BY <2>2, <2>3
  <2>5. Len(Back(n).route) + Len(Back(n).back) < Len(n.route) + Len(n.back)
    BY <1>6, <2>4, OneLess
  <2>. QED  BY <2>3, <2>5
<1>. QED  BY <1>2, <1>3, <1>4, <1>5

LEMMA ForwardGood ==
  ASSUME NEW n, GoodNav(n)
  PROVE  GoodNav(Forward(n))
<1> DEFINE paging == n.screen = "lookup" /\ n.routeAhead # <<>>
<1>1. /\ n.lookup \in Pages /\ n.lookup \in WorkPages /\ n.screen \in Screens
      /\ n.route \in Seq(ReadyPages) /\ n.routeAhead \in Seq(ReadyPages)
      /\ n.back \in Seq(Screens) /\ n.ahead \in Seq(Screens)
      /\ Len(n.route) \in Nat /\ Len(n.routeAhead) \in Nat
      /\ n.lookup.state = "ready" => n.lookup \in ReadyPages
  BY PageFacts, LenProperties DEF GoodNav, WorkNav
<1>2. CASE paging
  <2> DEFINE route == IF n.lookup.state = "ready" THEN Append(n.route, n.lookup) ELSE n.route
  <2>1. Forward(n) = [n EXCEPT !.routeAhead = ButLast(n.routeAhead), !.route = route,
                               !.lookup = LastOf(n.routeAhead)]
    BY <1>2 DEF Forward
  <2>2. /\ ButLast(n.routeAhead) \in Seq(ReadyPages) /\ LastOf(n.routeAhead) \in ReadyPages
        /\ Len(ButLast(n.routeAhead)) = Len(n.routeAhead) - 1
    BY <1>1, <1>2, LastAndRest
  <2>3. route \in Seq(ReadyPages) /\ Len(route) <= Len(n.route) + 1 /\ Len(route) \in Nat
    BY <1>1
  <2> HIDE DEF route
  <2>4. Len(route) + Len(ButLast(n.routeAhead)) <= RouteLimit
    BY <1>1, <2>2, <2>3, RouteLimitAssumption DEF GoodNav, WorkNav
  <2>5. LastOf(n.routeAhead) \in Pages /\ LastOf(n.routeAhead) \in WorkPages
    BY <2>2, PageFacts
  <2>. QED  BY <2>1, <2>2, <2>3, <2>4, <2>5 DEF GoodNav, WorkNav
<1>3. CASE ~ paging /\ n.ahead = <<>>
  BY <1>3 DEF Forward
<1>4. CASE ~ paging /\ n.ahead # <<>>
  <2>1. Forward(n) = [n EXCEPT !.ahead = ButLast(n.ahead), !.back = Append(n.back, n.screen),
                               !.screen = LastOf(n.ahead)]
    BY <1>4 DEF Forward
  <2>2. /\ ButLast(n.ahead) \in Seq(Screens) /\ LastOf(n.ahead) \in Screens
        /\ Append(n.back, n.screen) \in Seq(Screens)
    BY <1>1, <1>4, LastAndRest
  <2>. QED  BY <2>1, <2>2 DEF GoodNav, WorkNav
<1>. QED  BY <1>2, <1>3, <1>4

\* On the lookup screen b and f are inverse to each other.
LEMMA ForwardAfterBack ==
  ASSUME NEW n, GoodNav(n), n.screen = "lookup", n.route # <<>>, n.lookup.state = "ready"
  PROVE  Forward(Back(n)) = n
<1> DEFINE ahead == Append(n.routeAhead, n.lookup)
<1> DEFINE b == [n EXCEPT !.route = ButLast(n.route), !.routeAhead = ahead,
                          !.lookup = LastOf(n.route)]
<1>1. /\ n.route \in Seq(ReadyPages) /\ n.routeAhead \in Seq(ReadyPages)
      /\ n.lookup \in ReadyPages
  BY PageFacts DEF GoodNav, WorkNav
<1>2. Back(n) = b
  BY DEF Back
<1>3. /\ ButLast(n.route) \in Seq(ReadyPages) /\ LastOf(n.route) \in ReadyPages
      /\ Append(ButLast(n.route), LastOf(n.route)) = n.route
  BY <1>1, LastAndRest
<1>4. ahead # <<>> /\ LastOf(ahead) = n.lookup /\ ButLast(ahead) = n.routeAhead
  <2>1. ahead \in Seq(ReadyPages) /\ Len(ahead) = Len(n.routeAhead) + 1
        /\ ahead[Len(n.routeAhead) + 1] = n.lookup
        /\ \A i \in 1 .. Len(n.routeAhead) : ahead[i] = n.routeAhead[i]
        /\ Len(n.routeAhead) \in Nat
    BY <1>1, LenProperties
  <2> HIDE DEF ahead
  <2>2. ahead # <<>> /\ LastOf(ahead) = n.lookup
    BY <2>1 DEF LastOf
  <2>3. /\ ButLast(ahead) \in Seq(ReadyPages) /\ Len(ButLast(ahead)) = Len(n.routeAhead)
        /\ Append(ButLast(ahead), LastOf(ahead)) = ahead
    BY <2>1, <2>2, LastAndRest
  <2>4. ASSUME NEW i \in 1 .. Len(n.routeAhead) PROVE ButLast(ahead)[i] = n.routeAhead[i]
    <3>1. Append(ButLast(ahead), LastOf(ahead))[i] = ButLast(ahead)[i]
      BY <2>1, <2>3
    <3>. QED  BY <2>1, <2>3, <3>1
  <2>. QED  BY <1>1, <2>2, <2>3, <2>4, SeqEqual
<1>5. /\ b.screen = "lookup" /\ b.routeAhead = ahead /\ b.route = ButLast(n.route)
      /\ b.lookup = LastOf(n.route) /\ b.lookup.state = "ready"
  BY <1>3, PageFacts DEF GoodNav, WorkNav
<1>6. Forward(b) = [b EXCEPT !.routeAhead = n.routeAhead, !.route = n.route, !.lookup = n.lookup]
  BY <1>3, <1>4, <1>5 DEF Forward
<1>7. [b EXCEPT !.routeAhead = n.routeAhead, !.route = n.route, !.lookup = n.lookup] = n
  BY DEF GoodNav, WorkNav
<1>. QED  BY <1>2, <1>6, <1>7

-----------------------------------------------------------------------------
(* The cache.                                                               *)

LEMMA CachedRowFacts ==
  ASSUME NEW rows, NEW limit, RowsOf(rows, limit), NEW entity, IsCached(rows, entity)
  PROVE  /\ IndexOf(rows, entity) \in 1 .. Len(rows)
         /\ rows[IndexOf(rows, entity)].entity = entity
         /\ CachedRow(rows, entity) \in Rows
<1>1. rows \in Seq(Rows) /\ DOMAIN rows = 1 .. Len(rows)
  BY DEF RowsOf
<1>2. \E i \in 1 .. Len(rows) : rows[i].entity = entity
  BY <1>1 DEF IsCached
<1>3. IndexOf(rows, entity) \in 1 .. Len(rows) /\ rows[IndexOf(rows, entity)].entity = entity
  BY <1>1, <1>2 DEF IndexOf
<1>4. CachedRow(rows, entity) \in Rows
  BY <1>1, <1>3, ElementOfSeq DEF CachedRow
<1>. QED  BY <1>3, <1>4

\* Without its row, an entity is not in the cache, and nothing else changes.
LEMMA WithoutGood ==
  ASSUME NEW rows, NEW limit \in Nat, RowsOf(rows, limit), NEW entity
  PROVE  /\ RowsOf(Without(rows, entity), limit)
         /\ \A i \in 1 .. Len(Without(rows, entity)) : Without(rows, entity)[i].entity # entity
<1>1. /\ rows \in Seq(Rows) /\ DOMAIN rows = 1 .. Len(rows) /\ Len(rows) \in Nat
      /\ Len(rows) <= limit
      /\ \A i, j \in 1 .. Len(rows) : rows[i].entity = rows[j].entity => i = j
      /\ \A i \in 1 .. Len(rows) : rows[i].version <= VersionOf(rows[i].entity)
  BY LenProperties DEF RowsOf
<1>2. CASE ~ IsCached(rows, entity)
  BY <1>1, <1>2 DEF Without, IsCached
<1>3. CASE IsCached(rows, entity)
  <2> DEFINE k == IndexOf(rows, entity)
  <2> DEFINE old(i) == IF i < k THEN i ELSE i + 1
  <2> DEFINE w == [i \in 1 .. Len(rows) - 1 |-> rows[old(i)]]
  <2>1. Without(rows, entity) = w
    BY <1>3 DEF Without
  <2>2. k \in 1 .. Len(rows) /\ rows[k].entity = entity
    BY <1>3, CachedRowFacts
  <2> HIDE DEF k
  <2>3. ASSUME NEW i \in 1 .. Len(rows) - 1
        PROVE  old(i) \in 1 .. Len(rows) /\ old(i) # k
    BY <1>1, <2>2
  <2>4. ASSUME NEW i \in 1 .. Len(rows) - 1, NEW j \in 1 .. Len(rows) - 1, old(i) = old(j)
        PROVE  i = j
    BY <1>1, <2>2, <2>4
  <2> HIDE DEF old
  <2>5. \A i \in 1 .. Len(rows) - 1 : w[i] = rows[old(i)] /\ w[i] \in Rows
    BY <1>1, <2>3, ElementOfSeq
  <2>6. w \in Seq(Rows) /\ Len(w) = Len(rows) - 1
    <3>1. Len(rows) - 1 \in Nat
      BY <1>1, <2>2
    <3>. QED  BY <3>1, <2>5, IsASeq
  <2> HIDE DEF w
  <2>7. Len(w) <= limit
    BY <1>1, <2>6
  <2>8. ASSUME NEW i \in 1 .. Len(w), NEW j \in 1 .. Len(w), w[i].entity = w[j].entity
        PROVE  i = j
    <3>1. i \in 1 .. Len(rows) - 1 /\ j \in 1 .. Len(rows) - 1
      BY <2>6
    <3>2. rows[old(i)].entity = rows[old(j)].entity
      BY <2>5, <2>8, <3>1
    <3>3. old(i) = old(j)
      BY <1>1, <2>3, <3>1, <3>2
    <3>. QED  BY <2>4, <3>1, <3>3
  <2>9. ASSUME NEW i \in 1 .. Len(w)
        PROVE  w[i].version <= VersionOf(w[i].entity) /\ w[i].entity # entity
    BY <1>1, <2>2, <2>3, <2>5, <2>6
  <2>. QED  BY <2>1, <2>6, <2>7, <2>8, <2>9 DEF RowsOf
<1>. QED  BY <1>2, <1>3

LEMMA PrunedGood ==
  ASSUME NEW rows, NEW limit \in Nat, RowsOf(rows, limit)
  PROVE  RowsOf(Pruned(rows), CacheLimit)
<1> DEFINE m == IF Len(rows) < CacheLimit THEN Len(rows) ELSE CacheLimit
<1>1. /\ rows \in Seq(Rows) /\ Len(rows) \in Nat
      /\ \A i, j \in 1 .. Len(rows) : rows[i].entity = rows[j].entity => i = j
      /\ \A i \in 1 .. Len(rows) : rows[i].version <= VersionOf(rows[i].entity)
  BY LenProperties DEF RowsOf
<1>2. m \in Nat /\ m <= Len(rows) /\ m <= CacheLimit
  BY <1>1, CacheLimitAssumption
<1>3. Pruned(rows) = SubSeq(rows, 1, m)
  BY DEF Pruned
<1> HIDE DEF m
<1>4. \A i \in 1 .. m : i \in 1 .. Len(rows) /\ rows[i] \in Rows
  BY <1>1, <1>2, ElementOfSeq
<1>5. /\ SubSeq(rows, 1, m) \in Seq(Rows) /\ Len(SubSeq(rows, 1, m)) = m
      /\ \A i \in 1 .. m : SubSeq(rows, 1, m)[i] = rows[i]
  <2>1. /\ SubSeq(rows, 1, m) \in Seq(Rows)
        /\ Len(SubSeq(rows, 1, m)) = IF 1 <= m THEN m - 1 + 1 ELSE 0
        /\ \A i \in 1 .. m - 1 + 1 : SubSeq(rows, 1, m)[i] = rows[1 + i - 1]
    BY <1>2, <1>4, SubSeqProperties
  <2>2. m - 1 + 1 = m /\ \A i \in 1 .. m : 1 + i - 1 = i
    BY <1>2
  <2>3. Len(SubSeq(rows, 1, m)) = m
    BY <1>2, <2>1
  <2>4. \A i \in 1 .. m : SubSeq(rows, 1, m)[i] = rows[i]
    BY <2>1, <2>2
  <2>. QED  BY <2>1, <2>3, <2>4
<1>. QED  BY <1>1, <1>2, <1>3, <1>4, <1>5 DEF RowsOf

\* A row more, and no more than one above the limit.
LEMMA UpsertedGood ==
  ASSUME NEW rows, RowsOf(rows, CacheLimit + 1), NEW row \in Rows,
         row.version <= VersionOf(row.entity)
  PROVE  RowsOf(Upserted(rows, row), CacheLimit + 1)
<1> DEFINE w == Without(Pruned(rows), row.entity)
<1> DEFINE up == <<row>> \o w
<1>1. CacheLimit \in Nat /\ CacheLimit + 1 \in Nat
  BY CacheLimitAssumption
<1>2. RowsOf(w, CacheLimit) /\ \A i \in 1 .. Len(w) : w[i].entity # row.entity
  BY <1>1, PrunedGood, WithoutGood
<1>3. Upserted(rows, row) = up
  BY DEF Upserted
<1> HIDE DEF w
<1>4. /\ w \in Seq(Rows) /\ Len(w) \in Nat /\ Len(w) <= CacheLimit
      /\ \A i, j \in 1 .. Len(w) : w[i].entity = w[j].entity => i = j
      /\ \A i \in 1 .. Len(w) : w[i].version <= VersionOf(w[i].entity)
  BY <1>2, LenProperties DEF RowsOf
<1>5. up \in Seq(Rows) /\ Len(up) = Len(w) + 1
  BY <1>4
<1>6. up[1] = row /\ \A i \in 2 .. Len(w) + 1 : up[i] = w[i - 1] /\ i - 1 \in 1 .. Len(w)
  BY <1>4
<1> HIDE DEF up
<1>7. \A i \in 1 .. Len(up) : i = 1 \/ i \in 2 .. Len(w) + 1
  BY <1>4, <1>5
<1>8. ASSUME NEW i \in 1 .. Len(up), NEW j \in 1 .. Len(up), up[i].entity = up[j].entity
      PROVE  i = j
  <2>1. CASE i = 1 /\ j = 1
    BY <2>1
  <2>2. CASE i = 1 /\ j \in 2 .. Len(w) + 1
    BY <1>2, <1>6, <1>8, <2>2
  <2>3. CASE i \in 2 .. Len(w) + 1 /\ j = 1
    BY <1>2, <1>6, <1>8, <2>3
  <2>4. CASE i \in 2 .. Len(w) + 1 /\ j \in 2 .. Len(w) + 1
    <3>1. w[i - 1].entity = w[j - 1].entity /\ i - 1 \in 1 .. Len(w) /\ j - 1 \in 1 .. Len(w)
      BY <1>6, <1>8, <2>4
    <3>2. i - 1 = j - 1
      BY <1>4, <3>1
    <3>. QED  BY <1>4, <2>4, <3>2
  <2>. QED  BY <1>7, <2>1, <2>2, <2>3, <2>4
<1>9. ASSUME NEW i \in 1 .. Len(up) PROVE up[i].version <= VersionOf(up[i].entity)
  BY <1>4, <1>6, <1>7
<1>10. Len(up) <= CacheLimit + 1
  BY <1>1, <1>4, <1>5
<1>. QED  BY <1>3, <1>5, <1>8, <1>9, <1>10 DEF RowsOf

-----------------------------------------------------------------------------
(* The handlers.                                                            *)

\* The model and the cache, between handlers and inside one.
WorkState(s) ==
  /\ s = [nav |-> s.nav, cache |-> s.cache]
  /\ WorkNav(s.nav)
  /\ RowsOf(s.cache, CacheLimit + 1)

GoodState(s) == WorkState(s) /\ s.nav.lookup \in Pages

LEMMA PageOfGood ==
  ASSUME NEW state \in {"idle", "ready", "empty", "error"},
         NEW entity \in Entities \cup {NoEntity}, NEW explorer \in Explorers,
         NEW version \in 0 .. MaxVersion, NEW mark \in {"", "hit", "stale"}
  PROVE  /\ PageOf(state, entity, explorer, version, mark) \in Pages
         /\ PageOf(state, entity, explorer, version, mark).entity = entity
BY DEF PageOf, Pages

LEMMA VersionOfGood ==
  ASSUME Data, NEW entity
  PROVE  VersionOf(entity) \in 0 .. MaxVersion
BY MaxVersionAssumption DEF Data, VersionOf

LEMMA ShownGood ==
  ASSUME NEW s, WorkState(s), NEW page \in Pages
  PROVE  GoodState(Shown(s, page)) /\ Shown(s, page).nav = UpdateLookup(s.nav, page)
<1>1. GoodNav(UpdateLookup(s.nav, page))
  BY UpdateLookupGood DEF WorkState
<1>2. Shown(s, page) = [nav |-> UpdateLookup(s.nav, page), cache |-> s.cache]
  BY DEF Shown, WorkState
<1>. QED  BY <1>1, <1>2 DEF WorkState, GoodState, GoodNav

LEMMA FailedGood ==
  ASSUME NEW s, WorkState(s), NEW entity \in Entities \cup {NoEntity}
  PROVE  GoodState(Failed(s, entity)) /\ Failed(s, entity).nav = SetLookupError(s.nav, entity)
<1>1. GoodNav(SetLookupError(s.nav, entity))
  BY SetLookupGood DEF WorkState
<1>2. Failed(s, entity) = [nav |-> SetLookupError(s.nav, entity), cache |-> s.cache]
  BY DEF Failed, WorkState
<1>. QED  BY <1>1, <1>2 DEF WorkState, GoodState, GoodNav

LEMMA RestoredGood ==
  ASSUME NEW s, WorkState(s), NEW entity \in Cacheable, IsCached(s.cache, entity),
         NEW mark \in {"hit", "stale"}
  PROVE  /\ GoodState(Restored(s, entity, mark))
         /\ \E page \in Pages : /\ page.entity = entity
                                /\ Restored(s, entity, mark).nav = UpdateLookup(s.nav, page)
<1>1. PICK version \in 0 .. MaxVersion : version = CachedRow(s.cache, entity).version
  BY CachedRowFacts DEF WorkState, Rows
<1> DEFINE page == PageOf("ready", entity, "none", version, mark)
<1>2. "none" \in Explorers /\ entity \in Entities \cup {NoEntity} /\ mark \in {"", "hit", "stale"}
  BY DEF Entities, Explorers
<1>3. page \in Pages /\ page.entity = entity
  BY <1>2 DEF PageOf, Pages
<1>4. Restored(s, entity, mark) = Shown(s, page)
  BY <1>1 DEF Restored
<1> HIDE DEF page
<1>. QED  BY <1>3, <1>4, ShownGood

LEMMA FetchedGood ==
  ASSUME NEW s, WorkState(s), Data, NEW entity \in Entities
  PROVE  /\ GoodState(Fetched(s, entity))
         /\ \E page \in Pages : /\ page.entity = entity
                                /\ Fetched(s, entity).nav = UpdateLookup(s.nav, page)
<1> DEFINE page == PageOf("ready", entity, "none", VersionOf(entity), "")
<1>1. page \in Pages /\ page.entity = entity
  BY VersionOfGood, PageOfGood DEF Explorers
<1>2. Fetched(s, entity) = Shown(s, page)
  BY DEF Fetched
<1> HIDE DEF page
<1>. QED  BY <1>1, <1>2, ShownGood

LEMMA PersistedGood ==
  ASSUME NEW s, GoodState(s), Data, NEW entity \in Cacheable
  PROVE  GoodState(Persisted(s, entity)) /\ Persisted(s, entity).nav = s.nav
<1> DEFINE row == [entity |-> entity, version |-> VersionOf(entity), fresh |-> TRUE]
<1>1. row \in Rows /\ row.version <= VersionOf(row.entity)
  <2>1. VersionOf(entity) \in 0 .. MaxVersion
    BY VersionOfGood
  <2>. QED  BY <2>1, MaxVersionAssumption DEF Rows
<1> HIDE DEF row
<1>2. RowsOf(Upserted(s.cache, row), CacheLimit + 1)
  BY <1>1, UpsertedGood DEF GoodState, WorkState
<1>3. Persisted(s, entity) = [nav |-> s.nav, cache |-> Upserted(s.cache, row)]
  BY DEF Persisted, GoodState, WorkState, row
<1>. QED  BY <1>2, <1>3 DEF GoodState, WorkState

LEMMA ReloadedGood ==
  ASSUME NEW s, WorkState(s), Data, NEW entity \in Cacheable, NEW t \in Reloaded(s, entity)
  PROVE  /\ GoodState(t)
         /\ \/ t.nav = SetLookupError(SetLookupLoading(s.nav, entity), entity)
            \/ \E page \in Pages : /\ page.entity = entity
                                   /\ t.nav = UpdateLookup(SetLookupLoading(s.nav, entity), page)
<1> DEFINE loading == [s EXCEPT !.nav = SetLookupLoading(s.nav, entity)]
<1>1. loading = [nav |-> SetLookupLoading(s.nav, entity), cache |-> s.cache]
  BY DEF WorkState
<1>2. WorkState(loading) /\ loading.nav = SetLookupLoading(s.nav, entity)
  BY <1>1, SetLookupGood DEF WorkState, Entities
<1>3. t = Persisted(Fetched(loading, entity), entity) \/ t = FallenBack(loading, entity)
  BY DEF Reloaded
<1> HIDE DEF loading
<1>4. CASE t = Persisted(Fetched(loading, entity), entity)
  BY <1>2, <1>4, FetchedGood, PersistedGood DEF Entities
<1>5. CASE t = FallenBack(loading, entity) /\ IsCached(loading.cache, entity)
  <2>1. t = Restored(loading, entity, "stale")
    BY <1>5 DEF FallenBack
  <2>. QED  BY <1>2, <1>5, <2>1, RestoredGood
<1>6. CASE t = FallenBack(loading, entity) /\ ~ IsCached(loading.cache, entity)
  <2>1. t = Failed(loading, entity)
    BY <1>6 DEF FallenBack
  <2>. QED  BY <1>2, <2>1, FailedGood DEF Entities
<1>. QED  BY <1>3, <1>4, <1>5, <1>6

LEMMA LookedUpGood ==
  ASSUME NEW s, GoodState(s), Data, NEW entity \in Cacheable, NEW t \in LookedUp(s, entity)
  PROVE  GoodState(t)
<1>1. CASE IsFresh(s.cache, entity)
  <2>1. t = Restored(s, entity, "hit") /\ IsCached(s.cache, entity)
    BY <1>1 DEF LookedUp, IsFresh
  <2>. QED  BY <2>1, RestoredGood DEF GoodState
<1>2. CASE ~ IsFresh(s.cache, entity)
  BY <1>2, ReloadedGood DEF LookedUp, GoodState
<1>. QED  BY <1>1, <1>2

LEMMA RefreshedGood ==
  ASSUME NEW s, GoodState(s), Data, NEW t \in Refreshed(s)
  PROVE  GoodState(t)
BY ReloadedGood DEF Refreshed, GoodState

LEMMA RowOpenedGood ==
  ASSUME NEW s, GoodState(s), Data, NEW entity \in Entities, NEW t \in RowOpened(s, entity)
  PROVE  GoodState(t)
BY FetchedGood, FailedGood DEF RowOpened, GoodState

LEMMA FeedRowOpenedGood ==
  ASSUME NEW s, GoodState(s), Data, NEW entity \in Transactions,
         NEW t \in FeedRowOpened(s, entity)
  PROVE  GoodState(t)
<1> DEFINE captured == [s EXCEPT !.nav.monitoring = TRUE]
<1> DEFINE fetched == Fetched(captured, entity)
<1> DEFINE opened == [fetched EXCEPT !.nav.lookup.returns = TRUE]
<1>1. entity \in Cacheable /\ entity \in Entities
  BY DEF Cacheable, Entities
<1>2. GoodState(captured)
  <2>1. captured = [nav |-> [s.nav EXCEPT !.monitoring = TRUE], cache |-> s.cache]
    <3>1. captured = [s EXCEPT !.nav = [s.nav EXCEPT !.monitoring = TRUE]]
      OBVIOUS
    <3> DEFINE r == [s.nav EXCEPT !.monitoring = TRUE]
    <3> HIDE DEF r, captured
    <3>2. [s EXCEPT !.nav = r] = [nav |-> r, cache |-> s.cache]
      BY DEF GoodState, WorkState
    <3>. QED  BY <3>1, <3>2 DEF r
  <2> HIDE DEF captured
  <2>2. WorkNav([s.nav EXCEPT !.monitoring = TRUE])
        /\ [s.nav EXCEPT !.monitoring = TRUE].lookup = s.nav.lookup
    BY DEF GoodState, WorkState, WorkNav
  <2>. QED  BY <2>1, <2>2 DEF GoodState, WorkState
<1>3. t \in {captured, Persisted(opened, entity), Failed(captured, entity)}
  BY DEF FeedRowOpened
<1> HIDE DEF captured
<1>4. GoodState(fetched)
  BY <1>1, <1>2, FetchedGood DEF GoodState
<1> HIDE DEF fetched
<1>5. GoodState(opened)
  <2> DEFINE page == [fetched.nav.lookup EXCEPT !.returns = TRUE]
  <2>1. opened = [nav |-> [fetched.nav EXCEPT !.lookup = page], cache |-> fetched.cache]
    <3>1. opened = [fetched EXCEPT !.nav = [fetched.nav EXCEPT !.lookup = page]]
      BY DEF opened
    <3> DEFINE r == [fetched.nav EXCEPT !.lookup = page]
    <3> HIDE DEF r, page, opened
    <3>2. [fetched EXCEPT !.nav = r] = [nav |-> r, cache |-> fetched.cache]
      BY <1>4 DEF GoodState, WorkState
    <3>. QED  BY <3>1, <3>2 DEF r
  <2>2. page \in Pages /\ page \in WorkPages
    BY <1>4, PageFacts DEF GoodState, Pages
  <2> HIDE DEF page, opened
  <2>3. WorkNav([fetched.nav EXCEPT !.lookup = page])
        /\ [fetched.nav EXCEPT !.lookup = page].lookup = page
    BY <1>4, <2>2 DEF GoodState, WorkState, WorkNav
  <2>. QED  BY <1>4, <2>1, <2>2, <2>3 DEF GoodState, WorkState
<1> HIDE DEF opened
<1>. QED  BY <1>1, <1>2, <1>3, <1>5, FailedGood, PersistedGood DEF GoodState

LEMMA DetailOpenedGood ==
  ASSUME NEW s, GoodState(s), NEW detail \in Details
  PROVE  GoodState(DetailOpened(s, detail))
<1>1. 0 \in 0 .. MaxVersion /\ "none" \in Explorers /\ detail \in Entities \cup {NoEntity}
  BY MaxVersionAssumption DEF Entities, Explorers
<1>2. PageOf("ready", detail, "none", 0, "") \in Pages
  BY <1>1, PageOfGood
<1>. QED  BY <1>2, ShownGood DEF DetailOpened, GoodState

LEMMA OperationLookedUpGood ==
  ASSUME NEW s, GoodState(s), NEW asked \in Details, NEW t \in OperationLookedUp(s, asked)
  PROVE  GoodState(t)
<1>1. t = Failed(s, asked) \/ \E detail \in Details : t = DetailOpened(s, detail)
  BY DEF OperationLookedUp, Operations
<1>. QED  BY <1>1, FailedGood, DetailOpenedGood DEF GoodState, Entities

LEMMA ListOpenedGood ==
  ASSUME NEW s, GoodState(s), NEW explorer \in Explorers, NEW t \in ListOpened(s, explorer)
  PROVE  GoodState(t)
<1> DEFINE listed == [s EXCEPT !.nav = OpenLookupExplorer(s.nav, explorer)]
<1>1. listed = [nav |-> OpenLookupExplorer(s.nav, explorer), cache |-> s.cache]
  BY DEF GoodState, WorkState
<1>2. GoodNav(OpenLookupExplorer(s.nav, explorer))
  BY ListsGood DEF GoodState, WorkState, GoodNav
<1>3. GoodState(listed)
  BY <1>1, <1>2 DEF GoodState, WorkState, GoodNav
<1>4. t = listed \/ t = Failed(s, NoEntity)
  BY DEF ListOpened
<1>. QED  BY <1>3, <1>4, FailedGood DEF GoodState

LEMMA ListClosedGood ==
  ASSUME NEW s, GoodState(s)
  PROVE  GoodState([s EXCEPT !.nav = CloseLookupExplorer(s.nav)])
<1>1. [s EXCEPT !.nav = CloseLookupExplorer(s.nav)]
        = [nav |-> CloseLookupExplorer(s.nav), cache |-> s.cache]
  BY DEF GoodState, WorkState
<1>2. GoodNav(CloseLookupExplorer(s.nav))
  BY ListsGood DEF GoodState, WorkState, GoodNav, Explorers
<1>. QED  BY <1>1, <1>2 DEF GoodState, WorkState, GoodNav

LEMMA ResultsOpenedGood ==
  ASSUME NEW s, GoodState(s), NEW list \in Lists, NEW t \in ResultsOpened(s, list)
  PROVE  GoodState(t)
<1>1. 0 \in 0 .. MaxVersion /\ "results" \in Explorers /\ list \in Entities \cup {NoEntity}
  BY MaxVersionAssumption DEF Entities, Explorers
<1>2. PageOf("ready", list, "results", 0, "") \in Pages
      /\ PageOf("empty", list, "results", 0, "") \in Pages
  BY <1>1, PageOfGood
<1>. QED  BY <1>1, <1>2, ShownGood, FailedGood DEF ResultsOpened, GoodState, Entities

-----------------------------------------------------------------------------
(* The steps.                                                               *)

LEMMA InvIsGoodState ==
  /\ LookupsInv => GoodState(Now) /\ Data
  /\ \A s : GoodState(s) => GoodNav(s.nav) /\ RowsOf(s.cache, CacheLimit + 1)
BY DEF LookupsInv, GoodState, WorkState, GoodNav, Now

\* A step that leaves the backend's data alone and ends in a good state.
LEMMA StepGood ==
  ASSUME LookupsInv, UNCHANGED data, moves' \in 0 .. MaxMoves,
         GoodNav(nav'), RowsOf(cache', CacheLimit + 1)
  PROVE  LookupsInv'
<1>1. \A entity : VersionOf(entity)' = VersionOf(entity)
  BY DEF VersionOf
<1>2. GoodNav(nav)'
  BY DEF GoodNav, WorkNav
<1>3. RowsOf(cache, CacheLimit + 1)'
  BY <1>1 DEF RowsOf
<1>4. Data'
  BY DEF LookupsInv, Data
<1>. QED  BY <1>2, <1>3, <1>4 DEF LookupsInv

LEMMA MoveGood ==
  ASSUME LookupsInv, Move
  PROVE  UNCHANGED data /\ moves' \in 0 .. MaxMoves
BY MaxMovesAssumption DEF LookupsInv, Move

LEMMA LeaveGood ==
  ASSUME LookupsInv, NEW states, \A s \in states : GoodState(s), Leave(states)
  PROVE  LookupsInv'
<1>1. UNCHANGED data /\ moves' \in 0 .. MaxMoves
  BY MoveGood DEF Leave
<1>2. PICK s \in states : \E t \in {s} \cup Refreshed(s) : nav' = t.nav /\ cache' = t.cache
  BY DEF Leave
<1>3. PICK t \in {s} \cup Refreshed(s) : nav' = t.nav /\ cache' = t.cache
  BY <1>2
<1>4. GoodState(t)
  BY InvIsGoodState, RefreshedGood
<1>. QED  BY <1>1, <1>3, <1>4, InvIsGoodState, StepGood

LEMMA NavStepGood ==
  ASSUME LookupsInv, Move, GoodNav(nav'), UNCHANGED cache
  PROVE  LookupsInv'
BY MoveGood, StepGood DEF LookupsInv

LEMMA InitGood == Init => LookupsInv
<1>1. SUFFICES ASSUME Init PROVE LookupsInv
  OBVIOUS
<1>2. GoodNav(nav)
  BY <1>1, FreshGood DEF Init
<1>3. RowsOf(cache, CacheLimit + 1)
  BY <1>1, EmptySeq, CacheLimitAssumption DEF Init, RowsOf
<1>4. Data /\ moves \in 0 .. MaxMoves
  BY <1>1, MaxVersionAssumption, MaxMovesAssumption DEF Init, Data
<1>. QED  BY <1>2, <1>3, <1>4 DEF LookupsInv

LEMMA ExpireGood ==
  ASSUME LookupsInv, NEW i \in DOMAIN cache, Expire(i)
  PROVE  LookupsInv'
<1>1. /\ cache \in Seq(Rows) /\ DOMAIN cache = 1 .. Len(cache) /\ Len(cache) \in Nat
      /\ \A j \in 1 .. Len(cache) : cache[j] \in Rows
  BY LenProperties, ElementOfSeq DEF LookupsInv, RowsOf
<1> DEFINE stale == [cache[i] EXCEPT !.fresh = FALSE]
<1>2. cache' = [cache EXCEPT ![i] = stale]
  BY DEF Expire
<1>3. stale \in Rows /\ stale.entity = cache[i].entity /\ stale.version = cache[i].version
  BY <1>1 DEF Rows
<1> HIDE DEF stale
<1>4. cache' \in Seq(Rows) /\ Len(cache') = Len(cache)
  BY <1>1, <1>2, <1>3, ExceptSeq
<1>5. \A j \in 1 .. Len(cache) :
        cache'[j].entity = cache[j].entity /\ cache'[j].version = cache[j].version
  BY <1>1, <1>2, <1>3
<1>6. RowsOf(cache', CacheLimit + 1)
  BY <1>4, <1>5 DEF LookupsInv, RowsOf
<1>. QED  BY <1>6, StepGood DEF Expire, LookupsInv

LEMMA ChangeGood ==
  ASSUME LookupsInv, NEW entity \in Accounts, Change(entity)
  PROVE  LookupsInv'
<1>1. Data /\ Data'
  BY MaxVersionAssumption DEF LookupsInv, Data, Change
<1>2. \A e : VersionOf(e) \in Int /\ VersionOf(e)' \in Int /\ VersionOf(e) <= VersionOf(e)'
  BY <1>1, MaxVersionAssumption DEF Data, Change, VersionOf
<1>3. RowsOf(cache, CacheLimit + 1)'
  <2>1. PICK rows : rows = cache
    OBVIOUS
  <2>2. cache' = rows
    BY <2>1 DEF Change
  <2>3. RowsOf(rows, CacheLimit + 1)
    BY <2>1 DEF LookupsInv
  <2>4. ASSUME NEW i \in 1 .. Len(rows)
        PROVE  rows[i].version <= VersionOf(rows[i].entity)'
    <3>1. rows[i].version <= VersionOf(rows[i].entity)
      BY <2>3 DEF RowsOf
    <3>2. rows[i] \in Rows
      BY <2>3, ElementOfSeq DEF RowsOf
    <3>3. rows[i].version \in Int
      BY <3>2, MaxVersionAssumption DEF Rows
    <3>. QED  BY <1>2, <3>1, <3>3
  <2>. QED  BY <2>2, <2>3, <2>4 DEF RowsOf
<1>. QED  BY <1>1, <1>3 DEF LookupsInv, Change, GoodNav, WorkNav

LEMMA NextGood == LookupsInv /\ [Next]_vars => LookupsInv'
<1> SUFFICES ASSUME LookupsInv, [Next]_vars PROVE LookupsInv'
  OBVIOUS
<1> USE InvIsGoodState
<1>1. CASE UNCHANGED vars
  BY <1>1 DEF vars, LookupsInv, GoodNav, WorkNav, RowsOf, VersionOf, Data
<1>2. CASE Lookup
  BY <1>2, LookedUpGood, LeaveGood DEF Lookup
<1>3. CASE OpenRow
  <2>1. PICK entity \in Leads(nav) : Leave(RowOpened(Now, entity))
    BY <1>3 DEF OpenRow
  <2>2. entity \in Entities
    BY DEF Leads, Entities, Cacheable
  <2>. QED  BY <2>1, <2>2, RowOpenedGood, LeaveGood
<1>4. CASE OpenDetail
  <2>1. PICK detail \in Resolved(nav.lookup) : Leave({DetailOpened(Now, detail)})
    BY <1>4 DEF OpenDetail
  <2>2. detail \in Details
    BY DEF Resolved
  <2>. QED  BY <2>1, <2>2, DetailOpenedGood, LeaveGood
<1>5. CASE OpenList
  <2>1. PICK explorer \in Listable(nav) : Leave(ListOpened(Now, explorer))
    BY <1>5 DEF OpenList
  <2>2. explorer \in Explorers
    BY DEF Listable, Explorers
  <2>. QED  BY <2>1, <2>2, ListOpenedGood, LeaveGood
<1>6. CASE OpenResults
  BY <1>6, ResultsOpenedGood, LeaveGood DEF OpenResults
<1>7. CASE CloseList
  <2>1. Leave({[Now EXCEPT !.nav = CloseLookupExplorer(Now.nav)]})
    BY <1>7 DEF CloseList
  <2>. QED  BY <2>1, ListClosedGood, LeaveGood
<1>8. CASE OpenCache
  <2>1. GoodState(Now)
    BY DEF GoodState
  <2>. QED  BY <1>8, <2>1, LeaveGood DEF OpenCache
<1>9. CASE Misuse
  <2>1. GoodState(Failed(Now, NoEntity))
    BY FailedGood DEF GoodState
  <2>. QED  BY <1>9, <2>1, LeaveGood DEF Misuse
<1>10. CASE OpenFeedRow
  <2>1. PICK entity \in Transactions :
          Move /\ \E s \in FeedRowOpened(Now, entity) : nav' = s.nav /\ cache' = s.cache
    BY <1>10 DEF OpenFeedRow
  <2>2. PICK s \in FeedRowOpened(Now, entity) : nav' = s.nav /\ cache' = s.cache
    BY <2>1
  <2>3. GoodState(s)
    BY FeedRowOpenedGood
  <2>. QED  BY <2>1, <2>2, <2>3, MoveGood, StepGood
<1>11. ASSUME NEW asked \in Operations, LookupOperation(asked) PROVE LookupsInv'
  <2>1. asked \in Details
    BY DEF Operations
  <2>. QED  BY <1>11, <2>1, OperationLookedUpGood, LeaveGood DEF LookupOperation
<1>12. ASSUME NEW screen \in Screens, GoTo(screen) PROVE LookupsInv'
  <2>1. GoodNav(Entered(nav, screen))
    BY EnteredGood DEF LookupsInv, GoodNav
  <2>. QED  BY <1>12, <2>1, NavStepGood DEF GoTo
<1>13. CASE GoBack
  BY <1>13, BackGood, NavStepGood DEF GoBack, LookupsInv
<1>14. CASE GoForward
  BY <1>14, ForwardGood, NavStepGood DEF GoForward, LookupsInv
<1>15. CASE LiveReturn
  BY <1>15, ReturnGood, NavStepGood DEF LiveReturn, LookupsInv
<1>16. CASE Refresh
  <2>1. PICK s \in Refreshed(Now) : nav' = s.nav /\ cache' = s.cache
    BY <1>16 DEF Refresh
  <2>2. GoodState(s)
    BY RefreshedGood
  <2>3. UNCHANGED data /\ moves' \in 0 .. MaxMoves
    BY <1>16 DEF Refresh, LookupsInv
  <2>. QED  BY <2>1, <2>2, <2>3, StepGood
<1>17. CASE Restart
  <2>1. nav.screen \in Screens
    BY DEF LookupsInv, GoodNav, WorkNav
  <2>. QED  BY <1>17, <2>1, FreshGood, NavStepGood DEF Restart
<1>18. ASSUME NEW i \in DOMAIN cache, Expire(i) PROVE LookupsInv'
  BY <1>18, ExpireGood
<1>19. ASSUME NEW entity \in Accounts, Change(entity) PROVE LookupsInv'
  BY <1>19, ChangeGood
<1>. QED  BY <1>1, <1>2, <1>3, <1>4, <1>5, <1>6, <1>7, <1>8, <1>9, <1>10, <1>11, <1>12, <1>13,
             <1>14, <1>15, <1>16, <1>17, <1>18, <1>19 DEF Next

\* The invariant holds of every state of the client.
THEOREM LookupsInvariant == Spec => []LookupsInv
BY InitGood, NextGood, PTL DEF Spec

-----------------------------------------------------------------------------
(* What follows from the invariant.                                         *)

\* The model's fields, the rows of the cache and the backend's data keep
\* their types through every command, refresh, failure and restart.
THEOREM LookupsTypeCorrect == Spec => []LookupsTypeOK
<1>1. LookupsInv => LookupsTypeOK
  <2>1. \A s : s \in Seq(ReadyPages) => s \in Seq(Pages)
    <3>1. ReadyPages \subseteq Pages
      BY DEF ReadyPages
    <3>. QED  BY <3>1, ElementOfSeq, LenProperties, IsASeq
  <2>. QED  BY <2>1 DEF LookupsInv, LookupsTypeOK, GoodNav, WorkNav, RowsOf, Data, Navs
<1>. QED  BY <1>1, LookupsInvariant, PTL

\* However the user moves, both ways through the lookup screen hold ready
\* pages and together stay within the limit of one
\* (pushLookupHistory, Back, Forward).
THEOREM RouteBounded == Spec => []RouteSound
<1>1. LookupsInv => RouteSound
  <2> SUFFICES ASSUME LookupsInv PROVE RouteSound
    OBVIOUS
  <2>1. /\ nav.route \in Seq(ReadyPages) /\ nav.routeAhead \in Seq(ReadyPages)
        /\ Len(nav.route) + Len(nav.routeAhead) <= RouteLimit
    BY DEF LookupsInv, GoodNav, WorkNav
  <2>2. \A s \in Seq(ReadyPages) : \A i \in DOMAIN s : s[i].state = "ready"
    BY ElementOfSeq, PageFacts
  <2>. QED  BY <2>1, <2>2 DEF RouteSound
<1>. QED  BY <1>1, LookupsInvariant, PTL

\* The local store never holds two rows for an entity, data that the backend
\* did not have, or more than one row above its limit (UpsertEntityCache,
\* PruneEntityCache).
THEOREM CacheBounded == Spec => []CacheSound
<1>1. LookupsInv => CacheSound
  <2> SUFFICES ASSUME LookupsInv PROVE CacheSound
    OBVIOUS
  <2>1. DOMAIN cache = 1 .. Len(cache)
    BY DEF LookupsInv, RowsOf
  <2>. QED  BY <2>1 DEF LookupsInv, RowsOf, CacheSound
<1>. QED  BY <1>1, LookupsInvariant, PTL

\* f takes back what b did on the lookup screen, from every page that can be
\* remembered (Back, Forward).
THEOREM ForwardInverse == Spec => []ForwardUndoesBack
<1>1. LookupsInv => ForwardUndoesBack
  BY ForwardAfterBack DEF LookupsInv, ForwardUndoesBack
<1>. QED  BY <1>1, LookupsInvariant, PTL

\* A step back always brings its end nearer: the way back grows shorter, or
\* the user is on the live feed with no page left (Back).
THEOREM BackTerminates == Spec => BackEnds
<1>1. LookupsInv /\ [Next]_vars =>
        [GoBack => \/ nav' = nav
                   \/ Len(nav'.route) + Len(nav'.back) < Len(nav.route) + Len(nav.back)
                   \/ nav'.screen = "live_feed" /\ nav'.lookup.state = "idle"]_vars
  BY BackGood DEF LookupsInv, GoBack
<1>. QED  BY <1>1, LookupsInvariant, PTL DEF Spec, BackEnds

-----------------------------------------------------------------------------
(* Where the user is after a refresh, and where b leads after a step.       *)

\* A refresh moves nothing but the page's content.
LEMMA RefreshedPlace ==
  ASSUME NEW s, GoodState(s), Data, NEW t \in Refreshed(s)
  PROVE  /\ t.nav.screen = s.nav.screen
         /\ t.nav.lookup.entity = s.nav.lookup.entity
         /\ <<t.nav.back, t.nav.ahead>> = <<s.nav.back, s.nav.ahead>>
         /\ <<t.nav.route, t.nav.routeAhead>> = <<s.nav.route, s.nav.routeAhead>>
         /\ s.nav.lookup.state = "error" => t = s
<1> DEFINE entity == s.nav.lookup.entity
<1> DEFINE loading == SetLookupLoading(s.nav, entity)
<1>1. CASE t = s
  BY <1>1
<1>2. CASE /\ s.nav.screen = "lookup" /\ s.nav.lookup.state = "ready"
           /\ entity \in Cacheable /\ t \in Reloaded(s, entity)
  <2>1. WorkNav(s.nav) /\ WorkState(s)
    BY DEF GoodState, WorkState
  <2>2. /\ loading.screen = "lookup" /\ loading.lookup.state = "loading"
        /\ <<loading.back, loading.ahead>> = <<s.nav.back, s.nav.ahead>>
        /\ <<loading.route, loading.routeAhead>> = <<s.nav.route, s.nav.routeAhead>>
        /\ loading = [s.nav EXCEPT !.screen = "lookup", !.lookup = LoadingPage(entity)]
    BY <2>1 DEF SetLookupLoading, LoadingPage, PageOf, WorkNav
  <2>3. \/ t.nav = SetLookupError(loading, entity)
        \/ \E page \in Pages : page.entity = entity /\ t.nav = UpdateLookup(loading, page)
    BY <1>2, <2>1, ReloadedGood
  <2>4. \A page : UpdateLookup(loading, page) = [loading EXCEPT !.lookup = page]
    BY <2>2 DEF UpdateLookup, Remembered, Entered
  <2>5. SetLookupError(loading, entity) = [loading EXCEPT !.lookup = ErrorPage(entity)]
    BY <2>2 DEF SetLookupError, Entered
  <2>6. ErrorPage(entity).entity = entity
    BY DEF ErrorPage, PageOf
  <2>7. PICK page : page.entity = entity /\ t.nav = [loading EXCEPT !.lookup = page]
    BY <2>3, <2>4, <2>5, <2>6
  <2>8. /\ t.nav.screen = loading.screen /\ t.nav.lookup = page
        /\ <<t.nav.back, t.nav.ahead>> = <<loading.back, loading.ahead>>
        /\ <<t.nav.route, t.nav.routeAhead>> = <<loading.route, loading.routeAhead>>
    BY <2>1, <2>2, <2>7 DEF WorkNav
  <2>. QED  BY <1>2, <2>2, <2>7, <2>8
<1>3. \/ t = s
      \/ /\ s.nav.screen = "lookup" /\ s.nav.lookup.state = "ready"
         /\ entity \in Cacheable /\ t \in Reloaded(s, entity)
  BY DEF Refreshed
<1>. QED  BY <1>1, <1>2, <1>3

\* A ready page that is remembered is the last one of the route, or is the
\* same page as the last one.
LEMMA RememberedLast ==
  ASSUME NEW n, WorkNav(n), n.lookup.state = "ready"
  PROVE  /\ Remembered(n).route # <<>>
         /\ SamePage(LastOf(Remembered(n).route), n.lookup)
<1> DEFINE longer == Append(n.route, n.lookup)
<1>1. n.route \in Seq(ReadyPages) /\ n.lookup \in ReadyPages /\ Len(n.route) \in Nat
  BY PageFacts, LenProperties DEF WorkNav
<1>2. CASE n.route # <<>> /\ SamePage(LastOf(n.route), n.lookup)
  BY <1>2 DEF Remembered
<1>3. CASE ~ (n.route # <<>> /\ SamePage(LastOf(n.route), n.lookup))
  <2>1. /\ longer \in Seq(ReadyPages) /\ longer # <<>> /\ Len(longer) = Len(n.route) + 1
        /\ longer[Len(longer)] = n.lookup
    BY <1>1
  <2>2. Remembered(n) = [n EXCEPT !.route = IF Len(longer) > RouteLimit THEN Tail(longer) ELSE longer,
                                  !.routeAhead = <<>>]
    BY <1>3 DEF Remembered
  <2> HIDE DEF longer
  <2>3. CASE Len(longer) > RouteLimit
    <3>1. /\ Tail(longer) \in Seq(ReadyPages) /\ Len(Tail(longer)) = Len(longer) - 1
          /\ \A i \in 1 .. Len(longer) - 1 : Tail(longer)[i] = longer[i + 1]
      BY <2>1, HeadTailProperties
    <3>2. Len(longer) - 1 \in 1 .. Len(longer) - 1 /\ Len(longer) - 1 + 1 = Len(longer)
      BY <1>1, <2>1, <2>3, RouteLimitAssumption
    <3>3. Tail(longer) # <<>> /\ LastOf(Tail(longer)) = n.lookup
      BY <2>1, <3>1, <3>2 DEF LastOf
    <3>4. Remembered(n).route = Tail(longer)
      BY <2>2, <2>3 DEF WorkNav
    <3>. QED  BY <3>3, <3>4 DEF SamePage
  <2>4. CASE ~ (Len(longer) > RouteLimit)
    <3>1. Remembered(n).route = longer
      BY <2>2, <2>4 DEF WorkNav
    <3>. QED  BY <2>1, <3>1 DEF SamePage, LastOf
  <2>. QED  BY <2>3, <2>4
<1>. QED  BY <1>2, <1>3

\* The next b leads to this page, or to one that is the same.
ReturnsTo(n, page) ==
  n.screen = "lookup" /\ n.route # <<>> /\ SamePage(LastOf(n.route), page)

LEMMA BackOnRoute ==
  ASSUME NEW n, GoodNav(n), NEW page, ReturnsTo(n, page)
  PROVE  Back(n).screen = "lookup" /\ SamePage(Back(n).lookup, page)
<1>1. Back(n) = [n EXCEPT !.route = ButLast(n.route),
                          !.routeAhead = IF n.lookup.state = "ready"
                                         THEN Append(n.routeAhead, n.lookup) ELSE n.routeAhead,
                          !.lookup = LastOf(n.route)]
  BY DEF Back, ReturnsTo
<1>2. Back(n).screen = n.screen /\ Back(n).lookup = LastOf(n.route)
  BY <1>1 DEF GoodNav, WorkNav
<1>. QED  BY <1>2 DEF ReturnsTo

LEMMA ShownReturns ==
  ASSUME NEW s, GoodState(s), s.nav.lookup.state = "ready", NEW page \in Pages
  PROVE  ReturnsTo(Shown(s, page).nav, s.nav.lookup)
<1>1. WorkNav(s.nav) /\ Shown(s, page).nav = UpdateLookup(s.nav, page)
  BY ShownGood DEF GoodState, WorkState
<1> DEFINE entered == Entered(Remembered(s.nav), "lookup")
<1>2. WorkNav(entered) /\ entered.screen = "lookup" /\ entered.route = Remembered(s.nav).route
  BY <1>1, RememberedGood, EnteredGood DEF Screens
<1>3. UpdateLookup(s.nav, page) = [entered EXCEPT !.lookup = page]
  BY DEF UpdateLookup
<1> HIDE DEF entered
<1>4. /\ UpdateLookup(s.nav, page).screen = "lookup"
      /\ UpdateLookup(s.nav, page).route = Remembered(s.nav).route
  BY <1>2, <1>3 DEF WorkNav
<1>. QED  BY <1>1, <1>4, RememberedLast DEF ReturnsTo

LEMMA ListReturns ==
  ASSUME NEW n, GoodNav(n), n.lookup.state = "ready", NEW explorer
  PROVE  ReturnsTo(OpenLookupExplorer(n, explorer), n.lookup)
<1>1. WorkNav(n) /\ WorkNav(Remembered(n))
  BY RememberedGood DEF GoodNav
<1>2. OpenLookupExplorer(n, explorer)
        = [Remembered(n) EXCEPT !.screen = "lookup", !.lookup.explorer = explorer]
  BY DEF OpenLookupExplorer
<1>3. /\ OpenLookupExplorer(n, explorer).screen = "lookup"
      /\ OpenLookupExplorer(n, explorer).route = Remembered(n).route
  BY <1>1, <1>2 DEF WorkNav
<1>. QED  BY <1>1, <1>3, RememberedLast DEF ReturnsTo

LEMMA FailedShowsError ==
  ASSUME NEW s, GoodState(s), NEW entity \in Entities \cup {NoEntity}
  PROVE  Failed(s, entity).nav.lookup.state = "error"
<1>1. Failed(s, entity).nav = [Entered(s.nav, "lookup") EXCEPT !.lookup = ErrorPage(entity)]
  BY FailedGood DEF GoodState, SetLookupError
<1>2. WorkNav(Entered(s.nav, "lookup"))
  BY EnteredGood DEF GoodState, WorkState, Screens
<1>3. Failed(s, entity).nav.lookup = ErrorPage(entity)
  BY <1>1, <1>2 DEF WorkNav
<1>4. ErrorPage(entity).state = "error"
  BY DEF ErrorPage, PageOf
<1>. QED  BY <1>3, <1>4

\* If a command failed or put the page on the route, so did the step, with
\* the palette's refresh or without it.
LEMMA LeaveReturns ==
  ASSUME LookupsInv, NEW states, Leave(states), nav'.lookup.state = "ready",
         \A s \in states : /\ GoodState(s)
                           /\ s.nav.lookup.state = "error" \/ ReturnsTo(s.nav, nav.lookup)
  PROVE  Back(nav').screen = "lookup" /\ SamePage(Back(nav').lookup, nav.lookup)
<1>1. PICK s \in states : \E t \in {s} \cup Refreshed(s) : nav' = t.nav /\ cache' = t.cache
  BY DEF Leave
<1>2. PICK t \in {s} \cup Refreshed(s) : nav' = t.nav
  BY <1>1
<1>3. GoodState(s) /\ GoodState(t) /\ GoodNav(t.nav)
  BY <1>2, InvIsGoodState, RefreshedGood
<1>4. /\ t.nav.screen = s.nav.screen /\ t.nav.route = s.nav.route
      /\ s.nav.lookup.state = "error" => t = s
  BY <1>2, <1>3, InvIsGoodState, RefreshedPlace
<1>5. ReturnsTo(s.nav, nav.lookup)
  BY <1>2, <1>4
<1>6. ReturnsTo(t.nav, nav.lookup)
  BY <1>4, <1>5 DEF ReturnsTo
<1>. QED  BY <1>2, <1>3, <1>6, BackOnRoute

-----------------------------------------------------------------------------
(* Theorems about steps.                                                    *)

\* A refresh, failed or not, leaves the screen, the page's entity and both
\* histories alone (refreshActiveLookup, performEntityLookup).
THEOREM RefreshInPlace == Spec => RefreshKeepsPlace
<1>1. ASSUME LookupsInv, Refresh
      PROVE  /\ nav'.screen = nav.screen
             /\ nav'.lookup.entity = nav.lookup.entity
             /\ <<nav'.back, nav'.ahead>> = <<nav.back, nav.ahead>>
             /\ <<nav'.route, nav'.routeAhead>> = <<nav.route, nav.routeAhead>>
  <2>1. PICK t \in Refreshed(Now) : nav' = t.nav
    BY <1>1 DEF Refresh
  <2>2. Now.nav = nav
    BY DEF Now
  <2>. QED  BY <1>1, <2>1, <2>2, InvIsGoodState, RefreshedPlace
<1>. QED  BY <1>1, LookupsInvariant, PTL DEF Spec, RefreshKeepsPlace

\* From whatever is opened on a page, b leads back to that page, also when
\* the route is full and the oldest page is dropped (pushLookupHistory, Back).
THEOREM BackReturnsToOpener == Spec => BackLeadsToOpener
<1>1. ASSUME LookupsInv, OpenRow \/ OpenDetail \/ OpenList \/ OpenResults,
             nav.screen = "lookup", nav.lookup.state = "ready", nav'.lookup.state = "ready"
      PROVE  Back(nav').screen = "lookup" /\ SamePage(Back(nav').lookup, nav.lookup)
  <2>1. GoodState(Now) /\ Data /\ Now.nav = nav /\ NoEntity \in Entities \cup {NoEntity}
    BY <1>1, InvIsGoodState DEF Now
  <2>2. \A page \in Pages : GoodState(Shown(Now, page)) /\ ReturnsTo(Shown(Now, page).nav, nav.lookup)
    BY <1>1, <2>1, ShownGood, ShownReturns DEF GoodState
  <2>3. \A entity \in Entities \cup {NoEntity} :
          GoodState(Failed(Now, entity)) /\ Failed(Now, entity).nav.lookup.state = "error"
    BY <2>1, FailedGood, FailedShowsError DEF GoodState
  <2>4. CASE OpenRow
    <3>1. PICK entity \in Leads(nav) : Leave(RowOpened(Now, entity))
      BY <2>4 DEF OpenRow
    <3>2. entity \in Entities
      BY DEF Leads, Entities, Cacheable
    <3> DEFINE page == PageOf("ready", entity, "none", VersionOf(entity), "")
    <3>3. page \in Pages
      BY <2>1, <3>2, VersionOfGood, PageOfGood DEF Explorers
    <3>4. RowOpened(Now, entity) = {Shown(Now, page), Failed(Now, entity)}
      BY DEF RowOpened, Fetched
    <3> HIDE DEF page
    <3>. QED  BY <1>1, <2>2, <2>3, <3>1, <3>2, <3>3, <3>4, LeaveReturns
  <2>5. CASE OpenDetail
    <3>1. PICK detail \in Resolved(nav.lookup) : Leave({DetailOpened(Now, detail)})
      BY <2>5 DEF OpenDetail
    <3>2. "none" \in Explorers /\ detail \in Entities \cup {NoEntity} /\ 0 \in 0 .. MaxVersion
      BY MaxVersionAssumption DEF Resolved, Entities, Explorers
    <3>3. PageOf("ready", detail, "none", 0, "") \in Pages
      BY <3>2, PageOfGood
    <3>. QED  BY <1>1, <2>2, <3>1, <3>3, LeaveReturns DEF DetailOpened
  <2>6. CASE OpenList
    <3>1. PICK explorer \in Listable(nav) : Leave(ListOpened(Now, explorer))
      BY <2>6 DEF OpenList
    <3>2. explorer \in Explorers
      BY DEF Listable, Explorers
    <3> DEFINE listed == [Now EXCEPT !.nav = OpenLookupExplorer(Now.nav, explorer)]
    <3>3. ListOpened(Now, explorer) = {listed, Failed(Now, NoEntity)}
      BY DEF ListOpened
    <3>4. GoodState(listed)
      BY <2>1, <3>2, <3>3, ListOpenedGood
    <3>5. listed.nav = OpenLookupExplorer(nav, explorer)
      BY DEF Now
    <3> HIDE DEF listed
    <3>6. ReturnsTo(listed.nav, nav.lookup)
      BY <1>1, <3>5, ListReturns DEF LookupsInv
    <3>. QED  BY <1>1, <2>1, <2>3, <3>1, <3>3, <3>4, <3>6, LeaveReturns
  <2>7. CASE OpenResults
    <3>1. PICK list \in Lists : Leave(ResultsOpened(Now, list))
      BY <2>7 DEF OpenResults
    <3>2. "results" \in Explorers /\ list \in Entities \cup {NoEntity} /\ 0 \in 0 .. MaxVersion
      BY MaxVersionAssumption DEF Entities, Explorers
    <3>3. /\ PageOf("ready", list, "results", 0, "") \in Pages
          /\ PageOf("empty", list, "results", 0, "") \in Pages
      BY <3>2, PageOfGood
    <3>. QED  BY <1>1, <2>2, <2>3, <3>1, <3>2, <3>3, LeaveReturns DEF ResultsOpened
  <2>. QED  BY <1>1, <2>4, <2>5, <2>6, <2>7
<1>. QED  BY <1>1, LookupsInvariant, PTL DEF Spec, BackLeadsToOpener

-----------------------------------------------------------------------------
(* No page the user may see or come back to shows data that is newer than   *)
(* what the backend has now; what a refresh fetches is therefore no older.  *)

HonestPages ==
  {page \in WorkPages : page.entity \in Cacheable => page.version <= VersionOf(page.entity)}

\* The page shown and those on both ways are honest.
Honest(n) ==
  /\ n.lookup \in HonestPages
  /\ n.route \in Seq(HonestPages)
  /\ n.routeAhead \in Seq(HonestPages)

LEMMA PageOfHonest ==
  ASSUME NEW state, NEW entity, NEW explorer, NEW version \in 0 .. MaxVersion, NEW mark,
         PageOf(state, entity, explorer, version, mark) \in WorkPages,
         entity \in Cacheable => version <= VersionOf(entity)
  PROVE  PageOf(state, entity, explorer, version, mark) \in HonestPages
BY DEF PageOf, HonestPages

LEMMA EmptyPagesHonest ==
  ASSUME Data, NEW entity \in Entities \cup {NoEntity}
  PROVE  /\ IdlePage \in HonestPages
         /\ LoadingPage(entity) \in HonestPages
         /\ ErrorPage(entity) \in HonestPages
<1>1. 0 \in 0 .. MaxVersion /\ "none" \in Explorers /\ NoEntity \in Entities \cup {NoEntity}
  BY MaxVersionAssumption DEF Explorers
<1>2. \A e : 0 <= VersionOf(e)
  BY VersionOfGood, MaxVersionAssumption
<1>3. /\ PageOf("idle", NoEntity, "none", 0, "") \in WorkPages
      /\ PageOf("loading", entity, "none", 0, "") \in WorkPages
      /\ PageOf("error", entity, "none", 0, "") \in WorkPages
  BY <1>1 DEF PageOf, WorkPages
<1>4. ASSUME NEW e, NEW state, PageOf(state, e, "none", 0, "") \in WorkPages
      PROVE  PageOf(state, e, "none", 0, "") \in HonestPages
  <2>1. 0 <= VersionOf(e)
    BY <1>2
  <2>2. PageOf(state, e, "none", 0, "").version = 0 /\ PageOf(state, e, "none", 0, "").entity = e
    BY DEF PageOf
  <2>. QED  BY <1>4, <2>1, <2>2 DEF HonestPages
<1>5. IdlePage \in HonestPages
  BY <1>3, <1>4 DEF IdlePage
<1>6. LoadingPage(entity) \in HonestPages
  BY <1>3, <1>4 DEF LoadingPage
<1>7. ErrorPage(entity) \in HonestPages
  BY <1>3, <1>4 DEF ErrorPage
<1>. QED  BY <1>5, <1>6, <1>7

LEMMA RememberedHonest ==
  ASSUME NEW n, WorkNav(n), Honest(n)
  PROVE  Honest(Remembered(n))
<1>1. CASE Remembered(n) = n
  BY <1>1
<1>2. CASE Remembered(n) # n
  <2> DEFINE longer == Append(n.route, n.lookup)
  <2> DEFINE kept == IF Len(longer) > RouteLimit THEN Tail(longer) ELSE longer
  <2>1. longer \in Seq(HonestPages) /\ longer # <<>>
    <3>1. n.route \in Seq(HonestPages) /\ n.lookup \in HonestPages
      BY DEF Honest
    <3>. QED  BY <3>1
  <2>2. kept \in Seq(HonestPages)
    <3>1. Tail(longer) \in Seq(HonestPages)
      BY <2>1, HeadTailProperties
    <3> HIDE DEF longer
    <3>. QED  BY <2>1, <3>1
  <2>3. Remembered(n) = [n EXCEPT !.route = kept, !.routeAhead = <<>>]
    BY <1>2 DEF Remembered
  <2> HIDE DEF kept
  <2>4. /\ Remembered(n).lookup = n.lookup
        /\ Remembered(n).route = kept
        /\ Remembered(n).routeAhead = <<>>
    BY <2>3 DEF WorkNav
  <2>. QED  BY <2>2, <2>4, EmptySeq DEF Honest
<1>. QED  BY <1>1, <1>2

LEMMA EnteredHonest ==
  ASSUME NEW n, WorkNav(n), Honest(n), NEW screen \in Screens
  PROVE  Honest(Entered(n, screen))
BY EnteredGood DEF Honest

LEMMA UpdateLookupHonest ==
  ASSUME NEW n, WorkNav(n), Honest(n), NEW page \in HonestPages
  PROVE  Honest(UpdateLookup(n, page))
<1> DEFINE entered == Entered(Remembered(n), "lookup")
<1>1. WorkNav(entered) /\ Honest(entered)
  BY RememberedGood, RememberedHonest, EnteredGood, EnteredHonest DEF Screens
<1>2. UpdateLookup(n, page) = [entered EXCEPT !.lookup = page]
  BY DEF UpdateLookup
<1> HIDE DEF entered
<1>3. /\ UpdateLookup(n, page).lookup = page
      /\ UpdateLookup(n, page).route = entered.route
      /\ UpdateLookup(n, page).routeAhead = entered.routeAhead
  BY <1>1, <1>2 DEF WorkNav
<1>. QED  BY <1>1, <1>3 DEF Honest

LEMMA SetLookupHonest ==
  ASSUME NEW n, WorkNav(n), Honest(n), Data, NEW entity \in Entities \cup {NoEntity}
  PROVE  /\ Honest(SetLookupLoading(n, entity))
         /\ Honest(SetLookupError(n, entity))
<1>1. LoadingPage(entity) \in HonestPages /\ ErrorPage(entity) \in HonestPages
  BY EmptyPagesHonest
<1>2. WorkNav(Entered(n, "lookup")) /\ Honest(Entered(n, "lookup"))
  BY EnteredGood, EnteredHonest DEF Screens
<1>3. /\ SetLookupLoading(n, entity).lookup = LoadingPage(entity)
      /\ SetLookupLoading(n, entity).route = n.route
      /\ SetLookupLoading(n, entity).routeAhead = n.routeAhead
  BY DEF SetLookupLoading, WorkNav
<1>4. /\ SetLookupError(n, entity).lookup = ErrorPage(entity)
      /\ SetLookupError(n, entity).route = Entered(n, "lookup").route
      /\ SetLookupError(n, entity).routeAhead = Entered(n, "lookup").routeAhead
  BY <1>2 DEF SetLookupError, WorkNav
<1>. QED  BY <1>1, <1>2, <1>3, <1>4 DEF Honest

LEMMA ListsHonest ==
  ASSUME NEW n, WorkNav(n), Honest(n), NEW explorer \in Explorers
  PROVE  Honest(OpenLookupExplorer(n, explorer)) /\ Honest(CloseLookupExplorer(n))
<1>1. WorkNav(Remembered(n)) /\ Honest(Remembered(n)) /\ Remembered(n).lookup = n.lookup
  BY RememberedGood, RememberedHonest
<1>2. ASSUME NEW x \in Explorers
      PROVE  [n.lookup EXCEPT !.explorer = x] \in HonestPages
  <2> DEFINE page == [n.lookup EXCEPT !.explorer = x]
  <2>1. /\ n.lookup \in WorkPages
        /\ n.lookup.entity \in Cacheable => n.lookup.version <= VersionOf(n.lookup.entity)
    BY DEF Honest, HonestPages
  <2>2. page \in WorkPages
    BY <2>1 DEF WorkPages
  <2>3. page.entity = n.lookup.entity /\ page.version = n.lookup.version
    BY <2>1 DEF WorkPages
  <2> HIDE DEF page
  <2>4. page \in HonestPages
    BY <2>1, <2>2, <2>3 DEF HonestPages
  <2>. QED  BY <2>4 DEF page
<1>3. "none" \in Explorers
  BY DEF Explorers
<1>4. ASSUME n.lookup.state = "ready" PROVE Honest(OpenLookupExplorer(n, explorer))
  <2>1. OpenLookupExplorer(n, explorer)
          = [Remembered(n) EXCEPT !.screen = "lookup", !.lookup.explorer = explorer]
    BY <1>4 DEF OpenLookupExplorer
  <2>2. /\ OpenLookupExplorer(n, explorer).lookup = [n.lookup EXCEPT !.explorer = explorer]
        /\ OpenLookupExplorer(n, explorer).route = Remembered(n).route
        /\ OpenLookupExplorer(n, explorer).routeAhead = Remembered(n).routeAhead
    BY <1>1, <2>1 DEF WorkNav
  <2>. QED  BY <1>1, <1>2, <2>2 DEF Honest
<1>5. ASSUME n.lookup.explorer # "none" PROVE Honest(CloseLookupExplorer(n))
  <2>1. CloseLookupExplorer(n) = [Remembered(n) EXCEPT !.lookup.explorer = "none"]
    BY <1>5 DEF CloseLookupExplorer
  <2>2. /\ CloseLookupExplorer(n).lookup = [n.lookup EXCEPT !.explorer = "none"]
        /\ CloseLookupExplorer(n).route = Remembered(n).route
        /\ CloseLookupExplorer(n).routeAhead = Remembered(n).routeAhead
    BY <1>1, <2>1 DEF WorkNav
  <2>. QED  BY <1>1, <1>2, <1>3, <2>2 DEF Honest
<1>. QED  BY <1>4, <1>5 DEF OpenLookupExplorer, CloseLookupExplorer

LEMMA FreshHonest ==
  ASSUME Data
  PROVE  Honest(Fresh) /\ \A screen \in Screens : Honest(Entered(Fresh, screen))
<1>1. IdlePage \in HonestPages
  BY EmptyPagesHonest
<1>2. Honest(Fresh)
  BY <1>1, EmptySeq DEF Fresh, Honest
<1>. QED  BY <1>2, FreshGood, EnteredHonest DEF GoodNav

LEMMA ReturnHonest ==
  ASSUME NEW n, WorkNav(n), Honest(n), Data
  PROVE  Honest(ReturnToLiveMonitoring(n))
<1>1. IdlePage \in HonestPages
  BY EmptyPagesHonest
<1>. QED  BY <1>1, EmptySeq DEF ReturnToLiveMonitoring, Honest, WorkNav

\* b and f show a page of a route, and put none on one but the page shown.
LEMMA BackHonest ==
  ASSUME NEW n, WorkNav(n), Honest(n), Data
  PROVE  Honest(Back(n))
<1> DEFINE returning == n.screen = "lookup" /\ n.route = <<>> /\ n.lookup.returns
<1> DEFINE paging == n.screen = "lookup" /\ n.route # <<>>
<1>1. CASE returning
  BY <1>1, ReturnHonest DEF Back
<1>2. CASE paging
  <2> DEFINE ahead == IF n.lookup.state = "ready" THEN Append(n.routeAhead, n.lookup)
                      ELSE n.routeAhead
  <2>1. Back(n) = [n EXCEPT !.route = ButLast(n.route), !.routeAhead = ahead,
                            !.lookup = LastOf(n.route)]
    BY <1>2 DEF Back
  <2>2. ButLast(n.route) \in Seq(HonestPages) /\ LastOf(n.route) \in HonestPages
    BY <1>2, LastAndRest DEF Honest
  <2>3. ahead \in Seq(HonestPages)
    BY DEF Honest
  <2> HIDE DEF ahead
  <2>4. /\ Back(n).route = ButLast(n.route) /\ Back(n).routeAhead = ahead
        /\ Back(n).lookup = LastOf(n.route)
    BY <2>1 DEF WorkNav
  <2>. QED  BY <2>2, <2>3, <2>4 DEF Honest
<1>3. CASE ~ returning /\ ~ paging
  <2>1. /\ Back(n).route = n.route /\ Back(n).routeAhead = n.routeAhead
        /\ Back(n).lookup = n.lookup
    BY <1>3 DEF Back, WorkNav
  <2>. QED  BY <2>1 DEF Honest
<1>. QED  BY <1>1, <1>2, <1>3

LEMMA ForwardHonest ==
  ASSUME NEW n, WorkNav(n), Honest(n)
  PROVE  Honest(Forward(n))
<1> DEFINE paging == n.screen = "lookup" /\ n.routeAhead # <<>>
<1>1. CASE paging
  <2> DEFINE route == IF n.lookup.state = "ready" THEN Append(n.route, n.lookup) ELSE n.route
  <2>1. Forward(n) = [n EXCEPT !.routeAhead = ButLast(n.routeAhead), !.route = route,
                               !.lookup = LastOf(n.routeAhead)]
    BY <1>1 DEF Forward
  <2>2. ButLast(n.routeAhead) \in Seq(HonestPages) /\ LastOf(n.routeAhead) \in HonestPages
    BY <1>1, LastAndRest DEF Honest
  <2>3. route \in Seq(HonestPages)
    BY DEF Honest
  <2> HIDE DEF route
  <2>4. /\ Forward(n).route = route /\ Forward(n).routeAhead = ButLast(n.routeAhead)
        /\ Forward(n).lookup = LastOf(n.routeAhead)
    BY <2>1 DEF WorkNav
  <2>. QED  BY <2>2, <2>3, <2>4 DEF Honest
<1>2. CASE ~ paging
  <2>1. /\ Forward(n).route = n.route /\ Forward(n).routeAhead = n.routeAhead
        /\ Forward(n).lookup = n.lookup
    BY <1>2 DEF Forward, WorkNav
  <2>. QED  BY <2>1 DEF Honest
<1>. QED  BY <1>1, <1>2

-----------------------------------------------------------------------------
(* The handlers show honest pages.                                          *)

HonestState(s) == GoodState(s) /\ Honest(s.nav)

LEMMA ShownHonest ==
  ASSUME NEW s, WorkState(s), Honest(s.nav), NEW page \in Pages, page \in HonestPages
  PROVE  HonestState(Shown(s, page)) /\ Shown(s, page).nav.lookup = page
<1>1. GoodState(Shown(s, page)) /\ Shown(s, page).nav = UpdateLookup(s.nav, page)
  BY ShownGood
<1>2. WorkNav(s.nav)
  BY DEF WorkState
<1>. QED  BY <1>1, <1>2, UpdateLookupGood, UpdateLookupHonest DEF HonestState

LEMMA FailedHonest ==
  ASSUME NEW s, WorkState(s), Honest(s.nav), Data, NEW entity \in Entities \cup {NoEntity}
  PROVE  HonestState(Failed(s, entity)) /\ Failed(s, entity).nav.lookup.state = "error"
<1>1. GoodState(Failed(s, entity)) /\ Failed(s, entity).nav = SetLookupError(s.nav, entity)
  BY FailedGood
<1>2. WorkNav(s.nav) /\ WorkNav(Entered(s.nav, "lookup"))
  BY EnteredGood DEF WorkState, Screens
<1>3. SetLookupError(s.nav, entity).lookup = ErrorPage(entity)
  BY <1>2 DEF SetLookupError, WorkNav
<1>4. ErrorPage(entity).state = "error"
  BY DEF ErrorPage, PageOf
<1>. QED  BY <1>1, <1>2, <1>3, <1>4, SetLookupHonest DEF HonestState

\* What is in the cache was at the backend once.
LEMMA RestoredHonest ==
  ASSUME NEW s, WorkState(s), Honest(s.nav), NEW entity \in Cacheable, IsCached(s.cache, entity),
         NEW mark \in {"hit", "stale"}
  PROVE  /\ HonestState(Restored(s, entity, mark))
         /\ Restored(s, entity, mark).nav.lookup.mark = mark
<1> DEFINE k == IndexOf(s.cache, entity)
<1>1. RowsOf(s.cache, CacheLimit + 1)
  BY DEF WorkState
<1>2. /\ k \in 1 .. Len(s.cache) /\ s.cache[k].entity = entity
      /\ CachedRow(s.cache, entity) \in Rows
  BY <1>1, CachedRowFacts
<1>3. CachedRow(s.cache, entity) = s.cache[k]
  BY DEF CachedRow
<1>4. s.cache[k].version <= VersionOf(entity)
  BY <1>1, <1>2 DEF RowsOf
<1> HIDE DEF k
<1>5. PICK version \in 0 .. MaxVersion :
        version = CachedRow(s.cache, entity).version /\ version <= VersionOf(entity)
  BY <1>2, <1>3, <1>4 DEF Rows
<1> DEFINE page == PageOf("ready", entity, "none", version, mark)
<1>6. "none" \in Explorers /\ entity \in Entities \cup {NoEntity} /\ mark \in {"", "hit", "stale"}
  BY DEF Entities, Explorers
<1>7. page \in Pages /\ page.mark = mark /\ page.entity = entity /\ page.version = version
  BY <1>6 DEF PageOf, Pages
<1>8. Restored(s, entity, mark) = Shown(s, page)
  BY <1>5 DEF Restored
<1> HIDE DEF page
<1>9. page \in HonestPages
  BY <1>5, <1>7, PageFacts DEF HonestPages
<1>. QED  BY <1>7, <1>8, <1>9, ShownHonest

LEMMA FetchedHonest ==
  ASSUME NEW s, WorkState(s), Honest(s.nav), Data, NEW entity \in Entities
  PROVE  /\ HonestState(Fetched(s, entity))
         /\ Fetched(s, entity).nav.lookup.state = "ready"
         /\ Fetched(s, entity).nav.lookup.version = VersionOf(entity)
<1>1. VersionOf(entity) \in 0 .. MaxVersion
  BY VersionOfGood
<1> DEFINE page == PageOf("ready", entity, "none", VersionOf(entity), "")
<1>2. page \in Pages
  BY <1>1, PageOfGood DEF Explorers
<1>3. page.state = "ready" /\ page.entity = entity /\ page.version = VersionOf(entity)
  BY DEF PageOf
<1>4. Fetched(s, entity) = Shown(s, page)
  BY DEF Fetched
<1> HIDE DEF page
<1>5. page.version <= VersionOf(page.entity)
  BY <1>1, <1>3, MaxVersionAssumption
<1>6. page \in HonestPages
  BY <1>2, <1>5, PageFacts DEF HonestPages
<1>. QED  BY <1>2, <1>3, <1>4, <1>6, ShownHonest

LEMMA PersistedHonest ==
  ASSUME NEW s, HonestState(s), Data, NEW entity \in Cacheable
  PROVE  HonestState(Persisted(s, entity)) /\ Persisted(s, entity).nav = s.nav
BY PersistedGood DEF HonestState

\* What a reload shows is what the backend has now, a page marked as stale,
\* or an error with nothing in the cache.
LEMMA ReloadedHonest ==
  ASSUME NEW s, WorkState(s), Honest(s.nav), Data, NEW entity \in Cacheable,
         NEW t \in Reloaded(s, entity)
  PROVE  /\ HonestState(t)
         /\ \/ t.nav.lookup.state = "ready" /\ t.nav.lookup.version = VersionOf(entity)
            \/ t.nav.lookup.mark = "stale"
            \/ t.nav.lookup.state = "error" /\ ~ IsCached(s.cache, entity)
<1> DEFINE loading == [s EXCEPT !.nav = SetLookupLoading(s.nav, entity)]
<1>1. loading = [nav |-> SetLookupLoading(s.nav, entity), cache |-> s.cache]
  BY DEF WorkState
<1>2. entity \in Entities /\ entity \in Entities \cup {NoEntity} /\ WorkNav(s.nav)
  BY DEF Entities, WorkState
<1>3. WorkState(loading) /\ Honest(loading.nav) /\ loading.cache = s.cache
  BY <1>1, <1>2, SetLookupGood, SetLookupHonest DEF WorkState
<1>4. t = Persisted(Fetched(loading, entity), entity) \/ t = FallenBack(loading, entity)
  BY DEF Reloaded
<1> HIDE DEF loading
<1>5. CASE t = Persisted(Fetched(loading, entity), entity)
  BY <1>2, <1>3, <1>5, FetchedHonest, PersistedHonest
<1>6. CASE t = FallenBack(loading, entity) /\ IsCached(loading.cache, entity)
  <2>1. t = Restored(loading, entity, "stale")
    BY <1>6 DEF FallenBack
  <2>. QED  BY <1>3, <1>6, <2>1, RestoredHonest
<1>7. CASE t = FallenBack(loading, entity) /\ ~ IsCached(loading.cache, entity)
  <2>1. t = Failed(loading, entity)
    BY <1>7 DEF FallenBack
  <2>. QED  BY <1>2, <1>3, <1>7, <2>1, FailedHonest
<1>. QED  BY <1>4, <1>5, <1>6, <1>7

LEMMA LookedUpHonest ==
  ASSUME NEW s, HonestState(s), Data, NEW entity \in Cacheable, NEW t \in LookedUp(s, entity)
  PROVE  HonestState(t)
<1>1. WorkState(s) /\ Honest(s.nav)
  BY DEF HonestState, GoodState
<1>2. CASE IsFresh(s.cache, entity)
  <2>1. t = Restored(s, entity, "hit") /\ IsCached(s.cache, entity)
    BY <1>2 DEF LookedUp, IsFresh
  <2>. QED  BY <1>1, <2>1, RestoredHonest
<1>3. CASE ~ IsFresh(s.cache, entity)
  BY <1>1, <1>3, ReloadedHonest DEF LookedUp
<1>. QED  BY <1>2, <1>3

LEMMA RefreshedHonest ==
  ASSUME NEW s, HonestState(s), Data, NEW t \in Refreshed(s)
  PROVE  HonestState(t)
BY ReloadedHonest DEF Refreshed, HonestState, GoodState

LEMMA RowOpenedHonest ==
  ASSUME NEW s, HonestState(s), Data, NEW entity \in Entities, NEW t \in RowOpened(s, entity)
  PROVE  HonestState(t)
BY FetchedHonest, FailedHonest DEF RowOpened, HonestState, GoodState

LEMMA FeedRowOpenedHonest ==
  ASSUME NEW s, HonestState(s), Data, NEW entity \in Transactions,
         NEW t \in FeedRowOpened(s, entity)
  PROVE  HonestState(t)
<1> DEFINE captured == [s EXCEPT !.nav.monitoring = TRUE]
<1> DEFINE fetched == Fetched(captured, entity)
<1> DEFINE opened == [fetched EXCEPT !.nav.lookup.returns = TRUE]
<1>1. entity \in Cacheable /\ entity \in Entities
  BY DEF Cacheable, Entities
<1>2. GoodState(t) /\ GoodState(captured)
  BY FeedRowOpenedGood DEF HonestState, FeedRowOpened
<1>3. Honest(captured.nav)
  BY DEF HonestState, GoodState, WorkState, WorkNav, Honest
<1>4. t \in {captured, Persisted(opened, entity), Failed(captured, entity)}
  BY DEF FeedRowOpened
<1> HIDE DEF captured
<1>5. HonestState(fetched)
  BY <1>1, <1>2, <1>3, FetchedHonest DEF GoodState
<1> HIDE DEF fetched
<1>6. Persisted(opened, entity).nav = opened.nav
  BY DEF Persisted
<1>7. Honest(opened.nav)
  <2>1. fetched.nav.lookup \in HonestPages /\ WorkNav(fetched.nav) /\ Honest(fetched.nav)
    BY <1>5 DEF HonestState, GoodState, WorkState, Honest
  <2> DEFINE page == [fetched.nav.lookup EXCEPT !.returns = TRUE]
  <2>2. /\ opened.nav.lookup = page
        /\ opened.nav.route = fetched.nav.route
        /\ opened.nav.routeAhead = fetched.nav.routeAhead
    BY <1>5 DEF HonestState, GoodState, WorkState, WorkNav
  <2>3. /\ page \in WorkPages /\ page.entity = fetched.nav.lookup.entity
        /\ page.version = fetched.nav.lookup.version
    BY <2>1 DEF HonestPages, WorkPages
  <2> HIDE DEF page, opened
  <2>4. page \in HonestPages
    BY <2>1, <2>3 DEF HonestPages
  <2>. QED  BY <2>1, <2>2, <2>4 DEF Honest
<1> HIDE DEF opened
<1>8. Honest(Failed(captured, entity).nav)
  BY <1>1, <1>2, <1>3, FailedHonest DEF GoodState, HonestState
<1>. QED  BY <1>2, <1>3, <1>4, <1>6, <1>7, <1>8 DEF HonestState

\* Details and lists have no versions.
LEMMA VersionlessHonest ==
  ASSUME Data, NEW entity \in Entities, NEW state \in {"ready", "empty"}, NEW explorer \in Explorers
  PROVE  /\ PageOf(state, entity, explorer, 0, "") \in Pages
         /\ PageOf(state, entity, explorer, 0, "") \in HonestPages
<1>1. PageOf(state, entity, explorer, 0, "") \in Pages
  <2>1. 0 \in 0 .. MaxVersion /\ entity \in Entities \cup {NoEntity}
    BY MaxVersionAssumption
  <2>. QED  BY <2>1, PageOfGood
<1>2. PageOf(state, entity, explorer, 0, "").version = 0
  BY DEF PageOf
<1>3. \A e : 0 <= VersionOf(e)
  BY VersionOfGood, MaxVersionAssumption
<1>. QED  BY <1>1, <1>2, <1>3, PageFacts DEF HonestPages

LEMMA DetailOpenedHonest ==
  ASSUME NEW s, HonestState(s), Data, NEW detail \in Details
  PROVE  HonestState(DetailOpened(s, detail))
<1>1. detail \in Entities /\ "none" \in Explorers
  BY DEF Entities, Explorers
<1>. QED  BY <1>1, VersionlessHonest, ShownHonest DEF DetailOpened, HonestState, GoodState

LEMMA OperationLookedUpHonest ==
  ASSUME NEW s, HonestState(s), Data, NEW asked \in Details, NEW t \in OperationLookedUp(s, asked)
  PROVE  HonestState(t)
<1>1. t = Failed(s, asked) \/ \E detail \in Details : t = DetailOpened(s, detail)
  BY DEF OperationLookedUp, Operations
<1>2. WorkState(s) /\ Honest(s.nav) /\ asked \in Entities \cup {NoEntity}
  BY DEF HonestState, GoodState, Entities
<1>. QED  BY <1>1, <1>2, FailedHonest, DetailOpenedHonest

LEMMA ListOpenedHonest ==
  ASSUME NEW s, HonestState(s), Data, NEW explorer \in Explorers, NEW t \in ListOpened(s, explorer)
  PROVE  HonestState(t)
<1> DEFINE listed == [s EXCEPT !.nav = OpenLookupExplorer(s.nav, explorer)]
<1>1. WorkState(s) /\ WorkNav(s.nav) /\ Honest(s.nav) /\ GoodState(s)
  BY DEF HonestState, GoodState, WorkState
<1>2. listed.nav = OpenLookupExplorer(s.nav, explorer) /\ GoodState(t)
  BY <1>1, ListOpenedGood DEF WorkState
<1>3. Honest(listed.nav)
  BY <1>1, <1>2, ListsHonest
<1>4. t = listed \/ t = Failed(s, NoEntity)
  BY DEF ListOpened
<1> HIDE DEF listed
<1>. QED  BY <1>1, <1>2, <1>3, <1>4, FailedHonest DEF HonestState

LEMMA ListClosedHonest ==
  ASSUME NEW s, HonestState(s)
  PROVE  HonestState([s EXCEPT !.nav = CloseLookupExplorer(s.nav)])
<1> DEFINE closed == [s EXCEPT !.nav = CloseLookupExplorer(s.nav)]
<1>1. WorkState(s) /\ WorkNav(s.nav) /\ Honest(s.nav) /\ GoodState(s) /\ "none" \in Explorers
  BY DEF HonestState, GoodState, WorkState, Explorers
<1>2. closed.nav = CloseLookupExplorer(s.nav) /\ GoodState(closed)
  BY <1>1, ListClosedGood DEF WorkState
<1> HIDE DEF closed
<1>3. HonestState(closed)
  BY <1>1, <1>2, ListsHonest DEF HonestState
<1>. QED  BY <1>3 DEF closed

LEMMA ResultsOpenedHonest ==
  ASSUME NEW s, HonestState(s), Data, NEW list \in Lists, NEW t \in ResultsOpened(s, list)
  PROVE  HonestState(t)
<1>1. list \in Entities /\ list \in Entities \cup {NoEntity} /\ "results" \in Explorers
  BY DEF Entities, Explorers
<1>2. WorkState(s) /\ Honest(s.nav)
  BY DEF HonestState, GoodState
<1>. QED  BY <1>1, <1>2, VersionlessHonest, ShownHonest, FailedHonest DEF ResultsOpened

\* The invariant, with honest pages.
HonestInv == LookupsInv /\ Honest(nav)

\* A step that leaves the backend's data alone keeps pages honest.
LEMMA StepHonest ==
  ASSUME UNCHANGED data, Honest(nav')
  PROVE  Honest(nav)'
<1>1. \A entity : VersionOf(entity)' = VersionOf(entity)
  BY DEF VersionOf
<1>2. HonestPages' = HonestPages
  BY <1>1 DEF HonestPages
<1>. QED  BY <1>2 DEF Honest

LEMMA LeaveHonest ==
  ASSUME HonestInv, NEW states, \A s \in states : HonestState(s), Leave(states)
  PROVE  Honest(nav)'
<1>1. UNCHANGED data /\ Data
  BY MoveGood DEF Leave, HonestInv, LookupsInv
<1>2. PICK s \in states : \E t \in {s} \cup Refreshed(s) : nav' = t.nav /\ cache' = t.cache
  BY DEF Leave
<1>3. PICK t \in {s} \cup Refreshed(s) : nav' = t.nav
  BY <1>2
<1>4. HonestState(t)
  BY <1>1, RefreshedHonest
<1>. QED  BY <1>1, <1>3, <1>4, StepHonest DEF HonestState

LEMMA NavStepHonest ==
  ASSUME HonestInv, Move, Honest(nav')
  PROVE  Honest(nav)'
BY MoveGood, StepHonest DEF HonestInv

\* The backend's data only grows.
LEMMA ChangeHonest ==
  ASSUME HonestInv, NEW entity \in Accounts, Change(entity)
  PROVE  Honest(nav)'
<1>1. Data /\ Data' /\ nav' = nav
  BY ChangeGood DEF HonestInv, LookupsInv, Change
<1>2. \A e : VersionOf(e) \in Int /\ VersionOf(e)' \in Int /\ VersionOf(e) <= VersionOf(e)'
  BY <1>1, MaxVersionAssumption DEF Data, Change, VersionOf
<1>3. ASSUME NEW page \in HonestPages PROVE page \in HonestPages'
  <2>1. page \in WorkPages /\ page.version \in Int
    <3>1. page \in WorkPages
      BY DEF HonestPages
    <3>2. page.version \in 0 .. MaxVersion
      BY <3>1 DEF WorkPages
    <3>. QED  BY <3>1, <3>2, MaxVersionAssumption
  <2>2. page.entity \in Cacheable => page.version <= VersionOf(page.entity)'
    BY <1>2, <2>1 DEF HonestPages
  <2>. QED  BY <2>1, <2>2 DEF HonestPages
<1>4. ASSUME NEW s \in Seq(HonestPages) PROVE s \in Seq(HonestPages')
  <2> DEFINE pages == HonestPages'
  <2>1. \A i \in 1 .. Len(s) : s[i] \in pages
    BY <1>3, ElementOfSeq
  <2> HIDE DEF pages
  <2>2. s \in Seq(pages)
    BY <2>1, IsASeq, LenProperties
  <2>. QED  BY <2>2 DEF pages
<1>. QED  BY <1>1, <1>3, <1>4 DEF HonestInv, Honest

LEMMA NextHonest == HonestInv /\ [Next]_vars => Honest(nav)'
<1> SUFFICES ASSUME HonestInv, [Next]_vars PROVE Honest(nav)'
  OBVIOUS
<1>0. /\ HonestState(Now) /\ Data /\ Now.nav = nav /\ WorkNav(nav) /\ Honest(nav)
      /\ WorkState(Now) /\ Honest(Now.nav)
  BY InvIsGoodState DEF HonestInv, HonestState, LookupsInv, GoodNav, GoodState, Now
<1>1. CASE UNCHANGED vars
  BY <1>0, <1>1, StepHonest DEF vars
<1>2. CASE Lookup
  BY <1>0, <1>2, LookedUpHonest, LeaveHonest DEF Lookup
<1>3. CASE OpenRow
  <2>1. PICK entity \in Leads(nav) : Leave(RowOpened(Now, entity))
    BY <1>3 DEF OpenRow
  <2>2. entity \in Entities
    BY DEF Leads, Entities, Cacheable
  <2>. QED  BY <1>0, <2>1, <2>2, RowOpenedHonest, LeaveHonest
<1>4. CASE OpenDetail
  <2>1. PICK detail \in Resolved(nav.lookup) : Leave({DetailOpened(Now, detail)})
    BY <1>4 DEF OpenDetail
  <2>2. detail \in Details
    BY DEF Resolved
  <2>. QED  BY <1>0, <2>1, <2>2, DetailOpenedHonest, LeaveHonest
<1>5. CASE OpenList
  <2>1. PICK explorer \in Listable(nav) : Leave(ListOpened(Now, explorer))
    BY <1>5 DEF OpenList
  <2>2. explorer \in Explorers
    BY DEF Listable, Explorers
  <2>. QED  BY <1>0, <2>1, <2>2, ListOpenedHonest, LeaveHonest
<1>6. CASE OpenResults
  BY <1>0, <1>6, ResultsOpenedHonest, LeaveHonest DEF OpenResults
<1>7. CASE CloseList
  <2>1. Leave({[Now EXCEPT !.nav = CloseLookupExplorer(Now.nav)]})
    BY <1>7 DEF CloseList
  <2>. QED  BY <1>0, <2>1, ListClosedHonest, LeaveHonest
<1>8. CASE OpenCache
  BY <1>0, <1>8, LeaveHonest DEF OpenCache
<1>9. CASE Misuse
  <2>1. HonestState(Failed(Now, NoEntity))
    BY <1>0, FailedHonest
  <2>. QED  BY <1>9, <2>1, LeaveHonest DEF Misuse
<1>10. CASE OpenFeedRow
  <2>1. PICK entity \in Transactions :
          Move /\ \E s \in FeedRowOpened(Now, entity) : nav' = s.nav /\ cache' = s.cache
    BY <1>10 DEF OpenFeedRow
  <2>2. PICK s \in FeedRowOpened(Now, entity) : nav' = s.nav
    BY <2>1
  <2>3. HonestState(s)
    BY <1>0, FeedRowOpenedHonest
  <2>. QED  BY <2>1, <2>2, <2>3, NavStepHonest DEF HonestState
<1>11. ASSUME NEW asked \in Operations, LookupOperation(asked) PROVE Honest(nav)'
  <2>1. asked \in Details
    BY DEF Operations
  <2>. QED  BY <1>0, <1>11, <2>1, OperationLookedUpHonest, LeaveHonest DEF LookupOperation
<1>12. ASSUME NEW screen \in Screens, GoTo(screen) PROVE Honest(nav)'
  BY <1>0, <1>12, EnteredHonest, NavStepHonest DEF GoTo
<1>13. CASE GoBack
  BY <1>0, <1>13, BackHonest, NavStepHonest DEF GoBack
<1>14. CASE GoForward
  BY <1>0, <1>14, ForwardHonest, NavStepHonest DEF GoForward
<1>15. CASE LiveReturn
  BY <1>0, <1>15, ReturnHonest, NavStepHonest DEF LiveReturn
<1>16. CASE Refresh
  <2>1. PICK s \in Refreshed(Now) : nav' = s.nav
    BY <1>16 DEF Refresh
  <2>2. HonestState(s)
    BY <1>0, RefreshedHonest
  <2>. QED  BY <1>16, <2>1, <2>2, StepHonest DEF Refresh, HonestState
<1>17. CASE Restart
  <2>1. nav.screen \in Screens
    BY <1>0 DEF WorkNav
  <2>. QED  BY <1>0, <1>17, <2>1, FreshHonest, NavStepHonest DEF Restart
<1>18. ASSUME NEW i \in DOMAIN cache, Expire(i) PROVE Honest(nav)'
  BY <1>0, <1>18, StepHonest DEF Expire
<1>19. ASSUME NEW entity \in Accounts, Change(entity) PROVE Honest(nav)'
  BY <1>19, ChangeHonest
<1>. QED  BY <1>1, <1>2, <1>3, <1>4, <1>5, <1>6, <1>7, <1>8, <1>9, <1>10, <1>11, <1>12, <1>13,
             <1>14, <1>15, <1>16, <1>17, <1>18, <1>19 DEF Next

\* Whatever is on the screen when a refresh runs, what it shows is no older,
\* is marked as stale, or is an error because nothing was cached: no page is
\* ever ahead of the backend (performEntityLookup, tryRestoreLookupFromCache).
THEOREM RefreshIsHonest == Spec => RefreshDegradesHonestly
<1>1. Init => HonestInv
  <2> SUFFICES ASSUME Init PROVE HonestInv
    OBVIOUS
  <2>1. LookupsInv /\ Data
    BY InitGood DEF LookupsInv
  <2>. QED  BY <2>1, FreshHonest DEF HonestInv, Init
<1>2. HonestInv /\ [Next]_vars => HonestInv'
  BY NextGood, NextHonest DEF HonestInv
<1>3. ASSUME HonestInv, Refresh, nav.lookup.state = "ready"
      PROVE  \/ nav'.lookup.state = "ready" /\ nav'.lookup.version >= nav.lookup.version
             \/ nav'.lookup.mark = "stale"
             \/ nav'.lookup.state = "error" /\ ~ IsCached(cache, nav.lookup.entity)
  <2>1. PICK t \in Refreshed(Now) : nav' = t.nav
    BY <1>3 DEF Refresh
  <2>2. /\ WorkState(Now) /\ Honest(Now.nav) /\ Data
        /\ Now.nav = nav /\ Now.cache = cache
    BY <1>3, InvIsGoodState DEF HonestInv, LookupsInv, GoodState, Now
  <2>3. nav.lookup.version \in Int /\ nav.lookup \in HonestPages
    <3>1. nav.lookup \in WorkPages /\ nav.lookup \in HonestPages
      BY <2>2 DEF Honest, HonestPages
    <3>2. nav.lookup.version \in 0 .. MaxVersion
      BY <3>1 DEF WorkPages
    <3>. QED  BY <3>1, <3>2, MaxVersionAssumption
  <2>4. CASE t = Now
    BY <1>3, <2>1, <2>2, <2>3, <2>4
  <2>5. CASE nav.lookup.entity \in Cacheable /\ t \in Reloaded(Now, nav.lookup.entity)
    <3>1. nav.lookup.version <= VersionOf(nav.lookup.entity)
      BY <2>3, <2>5 DEF HonestPages
    <3>2. VersionOf(nav.lookup.entity) \in Int
      BY <2>2, VersionOfGood, MaxVersionAssumption
    <3>3. \/ t.nav.lookup.state = "ready" /\ t.nav.lookup.version = VersionOf(nav.lookup.entity)
          \/ t.nav.lookup.mark = "stale"
          \/ t.nav.lookup.state = "error" /\ ~ IsCached(cache, nav.lookup.entity)
      BY <2>2, <2>5, ReloadedHonest
    <3>. QED  BY <2>1, <2>3, <3>1, <3>2, <3>3
  <2>. QED  BY <2>1, <2>2, <2>4, <2>5 DEF Refreshed
<1>. QED  BY <1>1, <1>2, <1>3, PTL DEF Spec, RefreshDegradesHonestly
=============================================================================
