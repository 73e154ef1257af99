---------------------------- MODULE LiveFeedProofs ----------------------------
(***************************************************************************)
(* For every number of transactions, scrollback, buffer size and length of *)
(* a poll's answer: the rows are what filter and replay window select, a   *)
(* paused feed is still, the list never goes back, and what came through   *)
(* while the feed was watched is kept.                                     *)
(*                                                                         *)
(* The first half proves it of the model's operations, one lemma for each; *)
(* the second half follows the handlers that call them.                    *)
(***************************************************************************)
EXTENDS LiveFeed, FiniteSetTheorems, TLAPS

\* The states of a feed, without the bounds of its two row numbers.
Feeds ==
  [paused : BOOLEAN, filter : Filters, replay : Nat, all : SUBSET Txs,
   view : SUBSET Txs, mode : Modes, last : Nat, index : Nat]

\* What every operation keeps true of a feed: the rows are right, and the replay
\* window starts where it says, at a row that is there.
WellKept(f) ==
  /\ f \in Feeds
  /\ f.view = Window(f) \/ f.view = {}
  /\ f.replay = ReplayStart(f)

\* g has what f has.
Still(f, g) == g.all = f.all /\ g.last = f.last

\* g has what f has, or that merged with transactions that came in.
TakesIn(f, g) == g.all = f.all \/ \E txs \in SUBSET Txs : g.all = Merged(f, txs)

\* A context that was captured from a well kept feed.
GoodContext(c) ==
  /\ c.filter \in Filters /\ c.paused \in BOOLEAN /\ c.replay \in Nat /\ c.row \in Nat
  /\ ~ c.paused => c.replay = 0

\* Messages about ledgers the indexer has finished are under way; the header may
\* show a later one, that another server has.
LInv ==
  /\ WellKept(feed)
  /\ tip \in Txs
  /\ feed.last <= MaxTx
  /\ sent \in 0 .. 2 * tip
  /\ wire \in Seq(1 .. sent)
  /\ updates \in Seq(1 .. sent)
  /\ selected \in Nat
  /\ \A c \in monitoring : GoodContext(c)

-----------------------------------------------------------------------------
(* Lists.                                                                   *)

\* Lists are finite, so rows have numbers.
LEMMA ListFacts ==
  ASSUME NEW list \in SUBSET Txs
  PROVE  /\ Cardinality(list) \in Nat
         /\ list # {} => Cardinality(list) > 0
         /\ \A tx : Position(tx, list) \in Nat
<1>1. ASSUME NEW S \in SUBSET Txs PROVE IsFiniteSet(S)
  <2>1. IsFiniteSet(Txs)
    <3>1. 1 \in Int /\ MaxTx \in Int
      BY MaxTxAssumption
    <3>. QED  BY <3>1, FS_Interval DEF Txs
  <2>. QED  BY <2>1, FS_Subset
<1>2. Cardinality(list) \in Nat /\ (list # {} => Cardinality(list) > 0)
  BY <1>1, FS_CardinalityType, FS_EmptySet
<1>3. ASSUME NEW tx PROVE Position(tx, list) \in Nat
  BY <1>1, FS_CardinalityType DEF Position
<1>. QED  BY <1>2, <1>3

\* Taking a message off a queue.
LEMMA HeadTailFacts ==
  ASSUME NEW S, NEW queue \in Seq(S), queue # << >>
  PROVE  Head(queue) \in S /\ Tail(queue) \in Seq(S)
OBVIOUS

\* Clamping a row number twice is clamping it once.
LEMMA ClampIndexFacts ==
  ASSUME NEW list \in SUBSET Txs, NEW i \in Int
  PROVE  /\ ClampIndex(i, list) \in Nat
         /\ ClampIndex(ClampIndex(i, list), list) = ClampIndex(i, list)
         /\ i = 0 => ClampIndex(i, list) = 0
BY ListFacts DEF ClampIndex

\* The rows a feed selects depend on four of its parts.
LEMMA WindowDepends ==
  ASSUME NEW f, NEW g, g.all = f.all, g.filter = f.filter, g.paused = f.paused,
         g.paused => g.replay = f.replay
  PROVE  Window(g) = Window(f)
BY DEF Window, ReplayStart, Filtered

\* applyLiveFeedView shows the window, and keeps what decides it.
LEMMA ApplyViewFacts ==
  ASSUME NEW f \in Feeds
  PROVE  /\ ApplyView(f) \in Feeds
         /\ ApplyView(f).view = Window(ApplyView(f))
         /\ ApplyView(f).paused = f.paused
         /\ ~ f.paused => ApplyView(f).replay = f.replay
         /\ f.paused => ApplyView(f).replay = ReplayStart(ApplyView(f))
         /\ Still(f, ApplyView(f))
<1>1. Filtered(f) \in SUBSET Txs /\ Window(f) \in SUBSET Txs
  BY DEF Feeds, Filtered, Window
<1>2. ReplayStart(f) \in Nat
  BY <1>1, ClampIndexFacts DEF ReplayStart, Feeds
<1>3. FollowSelection(f, Window(f)) \in Nat
  <2>1. Position(Row(f.view, f.index), Window(f)) \in Nat
    BY <1>1, ListFacts
  <2>2. ClampIndex(f.index, Window(f)) \in Nat
    BY <1>1, ClampIndexFacts DEF Feeds
  <2>. QED  BY <2>1, <2>2 DEF FollowSelection
<1>. DEFINE g == ApplyView(f)
<1>4. /\ g \in Feeds
      /\ g.all = f.all /\ g.filter = f.filter /\ g.paused = f.paused /\ g.last = f.last
      /\ g.view = Window(f)
      /\ g.replay = IF f.paused THEN ReplayStart(f) ELSE f.replay
  BY <1>1, <1>2, <1>3 DEF ApplyView, Feeds
<1>5. Window(g) = Window(f) /\ ReplayStart(g) = ReplayStart(f)
  <2>1. Filtered(g) = Filtered(f)
    BY <1>4 DEF Filtered
  <2>2. ReplayStart(g) = ReplayStart(f)
    <3>1. CASE f.paused
      BY <3>1, <1>1, <1>4, <2>1, ClampIndexFacts DEF ReplayStart, Feeds
    <3>2. CASE ~ f.paused
      BY <3>2, <1>4 DEF ReplayStart
    <3>. QED  BY <3>1, <3>2
  <2>. QED  BY <2>1, <2>2 DEF Window
<1>. HIDE DEF g
<1>. QED  BY <1>4, <1>5 DEF Still, g

-----------------------------------------------------------------------------
(* The operations of the model.                                             *)

\* A change of what decides the rows, followed by applyLiveFeedView.
LEMMA ViewApplied ==
  ASSUME NEW f \in Feeds, ~ f.paused => f.replay = 0
  PROVE  WellKept(ApplyView(f)) /\ Still(f, ApplyView(f)) /\ ApplyView(f).paused = f.paused
<1>1. ~ f.paused => ApplyView(f).replay = ReplayStart(ApplyView(f))
  BY ApplyViewFacts DEF ReplayStart
<1>. QED  BY <1>1, ApplyViewFacts DEF WellKept

\* A change of nothing that decides the rows, which stay or are taken away.
LEMMA RowsLeft ==
  ASSUME NEW f, WellKept(f), NEW g \in Feeds,
         g.all = f.all, g.filter = f.filter, g.paused = f.paused, g.replay = f.replay,
         g.view = f.view \/ g.view = {}
  PROVE  WellKept(g)
<1>1. Window(g) = Window(f) /\ ReplayStart(g) = ReplayStart(f)
  BY WindowDepends DEF ReplayStart, Filtered
<1>. QED  BY <1>1 DEF WellKept

\* The source mode decides nothing.
LEMMA ModeFacts ==
  ASSUME NEW f, WellKept(f), NEW mode \in Modes
  PROVE  LET g == [f EXCEPT !.mode = mode]
         IN  WellKept(g) /\ Still(f, g) /\ g.paused = f.paused
<1>. DEFINE g == [f EXCEPT !.mode = mode]
<1>1. /\ g \in Feeds /\ g.all = f.all /\ g.filter = f.filter /\ g.paused = f.paused
      /\ g.replay = f.replay /\ g.view = f.view /\ g.last = f.last
  BY DEF WellKept, Feeds
<1>2. WellKept(g)
  BY <1>1, RowsLeft
<1>. QED  BY <1>1, <1>2 DEF Still

\* applyLiveFeedView after a change of what is kept, or of the header, on a feed
\* that is not paused; then the source mode is set.
LEMMA TakenIn ==
  ASSUME NEW f, WellKept(f), ~ f.paused, NEW g \in Feeds, ~ g.paused, g.replay = f.replay,
         NEW mode \in Modes
  PROVE  LET h == [ApplyView(g) EXCEPT !.mode = mode]
         IN  WellKept(h) /\ Still(g, h)
<1>1. g.replay = 0
  BY DEF WellKept, ReplayStart
<1>2. WellKept(ApplyView(g)) /\ Still(g, ApplyView(g))
  BY <1>1, ViewApplied
<1>. QED  BY <1>2, ModeFacts DEF Still

\* A message moves the header to its ledger if that is newer, or leaves it.
LEMMA StreamedFacts ==
  ASSUME NEW f, WellKept(f), ~ f.paused, NEW ledger \in Txs
  PROVE  /\ WellKept(LedgerStreamed(f, ledger))
         /\ LedgerStreamed(f, ledger).last = LastAfter(f, ledger)
         /\ LedgerStreamed(f, ledger).all = f.all
         /\ WellKept(TransactionsStreamed(f, {ledger}))
         /\ TransactionsStreamed(f, {ledger}).last = f.last
         /\ TransactionsStreamed(f, {ledger}).all =
              IF ledger \in f.all THEN f.all ELSE Merged(f, {ledger})
<1>1. "stream" \in Modes
  BY DEF Modes
<1>2. /\ WellKept(LedgerStreamed(f, ledger))
      /\ LedgerStreamed(f, ledger).last = LastAfter(f, ledger)
      /\ LedgerStreamed(f, ledger).all = f.all
  <2>. DEFINE g == [f EXCEPT !.last = LastAfter(f, ledger)]
  <2>1. /\ g \in Feeds /\ ~ g.paused /\ g.replay = f.replay
        /\ g.last = LastAfter(f, ledger) /\ g.all = f.all
    BY DEF WellKept, Feeds, LastAfter, Txs
  <2>. QED  BY <1>1, <2>1, TakenIn DEF LedgerStreamed, Still
<1>3. /\ WellKept(TransactionsStreamed(f, {ledger}))
      /\ TransactionsStreamed(f, {ledger}).last = f.last
      /\ TransactionsStreamed(f, {ledger}).all =
           IF ledger \in f.all THEN f.all ELSE Merged(f, {ledger})
  <2>. DEFINE g == [f EXCEPT !.all = Merged(f, {ledger})]
  <2>1. /\ g \in Feeds /\ ~ g.paused /\ g.replay = f.replay
        /\ g.last = f.last /\ g.all = Merged(f, {ledger})
    BY DEF WellKept, Feeds, Merged, Newest
  <2>. QED  BY <1>1, <2>1, TakenIn DEF TransactionsStreamed, Still
<1>. QED  BY <1>2, <1>3

\* A poll moves the header to the ledger in its answer, one that fails leaves it.
LEMMA RefreshedFacts ==
  ASSUME NEW f, WellKept(f), ~ f.paused, NEW ledger \in Nat, NEW txs \in SUBSET Txs
  PROVE  /\ WellKept(Refreshed(f, ledger, txs))
         /\ Refreshed(f, ledger, txs).last = ledger
         /\ TakesIn(f, Refreshed(f, ledger, txs))
         /\ WellKept(RefreshFailed(f))
         /\ Still(f, RefreshFailed(f))
<1>1. ASSUME MergesPolls(f)
      PROVE  /\ WellKept(Refreshed(f, ledger, txs)) /\ Refreshed(f, ledger, txs).last = ledger
             /\ Refreshed(f, ledger, txs).all = Merged(f, txs)
  <2>. DEFINE g == [f EXCEPT !.last = ledger, !.all = Merged(f, txs)]
  <2>1. /\ g \in Feeds /\ ~ g.paused /\ g.replay = f.replay
        /\ g.last = ledger /\ g.all = Merged(f, txs)
    BY DEF WellKept, Feeds, Merged, Newest
  <2>2. "poll" \in Modes
    BY DEF Modes
  <2>. QED  BY <1>1, <2>1, <2>2, TakenIn DEF Refreshed, Still
<1>2. ASSUME ~ MergesPolls(f)
      PROVE  /\ WellKept(Refreshed(f, ledger, txs)) /\ Refreshed(f, ledger, txs).last = ledger
             /\ Refreshed(f, ledger, txs).all = f.all
  <2>. DEFINE g == [f EXCEPT !.last = ledger]
  <2>1. /\ g \in Feeds /\ g.all = f.all /\ g.filter = f.filter /\ g.paused = f.paused
        /\ g.replay = f.replay /\ g.view = f.view /\ g.last = ledger
    BY DEF WellKept, Feeds
  <2>. QED  BY <1>2, <2>1, RowsLeft DEF Refreshed
<1>3. WellKept(RefreshFailed(f)) /\ Still(f, RefreshFailed(f))
  <2>. DEFINE g == RefreshFailed(f)
  <2>1. /\ g \in Feeds /\ g.all = f.all /\ g.filter = f.filter /\ g.paused = f.paused
        /\ g.replay = f.replay /\ g.view = {} /\ g.last = f.last
    BY DEF WellKept, Feeds, RefreshFailed
  <2>. QED  BY <2>1, RowsLeft DEF Still
<1>4. TakesIn(f, Refreshed(f, ledger, txs))
  BY <1>1, <1>2 DEF TakesIn
<1>. QED  BY <1>1, <1>2, <1>3, <1>4

\* What the user does to a feed changes neither what is kept nor the header.
LEMMA UserFacts ==
  ASSUME NEW f, WellKept(f), NEW paused \in BOOLEAN, NEW filter \in Filters, NEW delta \in Int
  PROVE  /\ WellKept(SetPaused(f, paused)) /\ Still(f, SetPaused(f, paused))
         /\ WellKept(SetFilter(f, filter)) /\ Still(f, SetFilter(f, filter))
         /\ WellKept(ShiftReplay(f, delta)) /\ Still(f, ShiftReplay(f, delta))
         /\ WellKept(ApplyWatch(f, filter, paused)) /\ Still(f, ApplyWatch(f, filter, paused))
<1>1. WellKept(SetPaused(f, paused)) /\ Still(f, SetPaused(f, paused))
  <2>. DEFINE g == [f EXCEPT !.paused = paused, !.replay = ReplayAfterPause(f, paused)]
  <2>1. /\ g \in Feeds /\ g.all = f.all /\ g.filter = f.filter /\ g.paused = paused
        /\ g.replay = (IF paused THEN f.replay ELSE 0) /\ g.view = f.view /\ g.last = f.last
    BY DEF WellKept, Feeds, ReplayAfterPause
  <2>2. CASE ~ paused
    <3>1. WellKept(ApplyView(g)) /\ Still(g, ApplyView(g))
      BY <2>1, <2>2, ViewApplied
    <3>. QED  BY <2>1, <2>2, <3>1 DEF SetPaused, Still
  <2>3. CASE paused
    <3>1. Window(g) = Window(f) /\ ReplayStart(g) = ReplayStart(f)
      <4>1. CASE f.paused
        <5>1. Window(g) = Window(f)
          BY <2>1, <2>3, <4>1, WindowDepends
        <5>2. Filtered(g) = Filtered(f)
          BY <2>1 DEF Filtered
        <5>3. g.replay = f.replay /\ g.paused = f.paused
          BY <2>1, <2>3, <4>1
        <5>. HIDE DEF g
        <5>. QED  BY <5>1, <5>2, <5>3 DEF ReplayStart
      <4>2. CASE ~ f.paused
        <5>1. Filtered(f) \in SUBSET Txs /\ Filtered(g) = Filtered(f)
          BY <2>1 DEF Filtered, WellKept, Feeds
        <5>2. f.replay = 0 /\ g.replay = 0
          BY <2>1, <2>3, <4>2 DEF WellKept, ReplayStart
        <5>3. ClampIndex(0, Filtered(f)) = 0
          BY <5>1, ClampIndexFacts
        <5>4. ReplayStart(g) = ReplayStart(f)
          BY <2>1, <2>3, <4>2, <5>1, <5>2, <5>3 DEF ReplayStart
        <5>. QED  BY <5>1, <5>4 DEF Window
      <4>. QED  BY <4>1, <4>2
    <3>2. WellKept(g)
      BY <2>1, <2>3, <3>1 DEF WellKept
    <3>. QED  BY <2>1, <2>3, <3>2 DEF SetPaused, Still
  <2>. QED  BY <2>2, <2>3
<1>2. WellKept(SetFilter(f, filter)) /\ Still(f, SetFilter(f, filter))
  <2>. DEFINE g == [f EXCEPT !.filter = filter, !.replay = 0]
  <2>1. g \in Feeds /\ g.replay = 0 /\ Still(f, g)
    BY DEF WellKept, Feeds, Still
  <2>2. WellKept(ApplyView(g)) /\ Still(g, ApplyView(g))
    BY <2>1, ViewApplied
  <2>. QED  BY <2>1, <2>2 DEF SetFilter, Still
<1>3. WellKept(ShiftReplay(f, delta)) /\ Still(f, ShiftReplay(f, delta))
  <2>1. CASE f.paused /\ ReplayShifted(f, delta) # f.replay
    <3>. DEFINE g == [f EXCEPT !.replay = ReplayShifted(f, delta)]
    <3>1. Filtered(f) \in SUBSET Txs /\ f.replay + delta \in Int
      BY DEF Filtered, WellKept, Feeds
    <3>2. ReplayShifted(f, delta) \in Nat
      BY <3>1, ClampIndexFacts DEF ReplayShifted
    <3>3. g \in Feeds /\ g.paused /\ Still(f, g)
      BY <2>1, <3>2 DEF WellKept, Feeds, Still
    <3>4. WellKept(ApplyView(g)) /\ Still(g, ApplyView(g))
      BY <3>3, ViewApplied
    <3>. QED  BY <2>1, <3>3, <3>4 DEF ShiftReplay, Still
  <2>2. CASE ~ (f.paused /\ ReplayShifted(f, delta) # f.replay)
    BY <2>2 DEF ShiftReplay, Still
  <2>. QED  BY <2>1, <2>2
<1>4. WellKept(ApplyWatch(f, filter, paused)) /\ Still(f, ApplyWatch(f, filter, paused))
  <2>. DEFINE g == [f EXCEPT !.filter = filter, !.paused = paused, !.replay = 0]
  <2>1. g \in Feeds /\ g.replay = 0 /\ Still(f, g)
    BY DEF WellKept, Feeds, Still
  <2>2. WellKept(ApplyView(g)) /\ Still(g, ApplyView(g))
    BY <2>1, ViewApplied
  <2>. QED  BY <2>1, <2>2 DEF ApplyWatch, Still
<1>. QED  BY <1>1, <1>2, <1>3, <1>4

\* A context is good when it is captured, and putting a good one back changes
\* neither what is kept nor the header.
LEMMA ContextFacts ==
  ASSUME NEW f, WellKept(f)
  PROVE  /\ \A row \in Nat : GoodContext(Captured(f, row))
         /\ \A c : GoodContext(c) => WellKept(ContextRestored(f, c)) /\ Still(f, ContextRestored(f, c))
<1>1. ASSUME NEW row \in Nat PROVE GoodContext(Captured(f, row))
  BY DEF Captured, GoodContext, WellKept, Feeds, ReplayStart
<1>2. ASSUME NEW c, GoodContext(c)
      PROVE  WellKept(ContextRestored(f, c)) /\ Still(f, ContextRestored(f, c))
  <2>. DEFINE g == [f EXCEPT !.filter = c.filter, !.paused = c.paused, !.replay = c.replay]
  <2>1. g \in Feeds /\ Still(f, g) /\ (~ g.paused => g.replay = 0)
    BY <1>2 DEF GoodContext, WellKept, Feeds, Still
  <2>2. WellKept(ApplyView(g)) /\ Still(g, ApplyView(g))
    BY <2>1, ViewApplied
  <2>3. RowOf(c, ApplyView(g).view) \in Nat
    <3>1. ApplyView(g).view \in SUBSET Txs /\ c.row \in Int
      BY <1>2, <2>2 DEF WellKept, Feeds, GoodContext
    <3>. QED  BY <3>1, ListFacts, ClampIndexFacts DEF RowOf
  <2>. DEFINE h == [ApplyView(g) EXCEPT !.index = RowOf(c, ApplyView(g).view)]
  <2>4. /\ h \in Feeds /\ h.all = ApplyView(g).all /\ h.filter = ApplyView(g).filter
        /\ h.paused = ApplyView(g).paused /\ h.replay = ApplyView(g).replay
        /\ h.view = ApplyView(g).view /\ h.last = ApplyView(g).last
    BY <2>2, <2>3 DEF WellKept, Feeds
  <2>5. WellKept(h)
    BY <2>2, <2>4, RowsLeft
  <2>. QED  BY <2>1, <2>2, <2>4, <2>5 DEF ContextRestored, Still
<1>. QED  BY <1>1, <1>2

-----------------------------------------------------------------------------
(* The handlers.                                                            *)

\* What a step may do to the feed: it keeps it well, takes something in or
\* nothing, moves the header to a ledger there is, and back only in a feed that
\* is not paused afterwards, and leaves alone what a paused feed holds.
GoodStep(f, g) ==
  /\ WellKept(g)
  /\ TakesIn(f, g)
  /\ g.last <= MaxTx
  /\ f.last <= g.last \/ ~ g.paused
  /\ f.paused /\ g.paused => Still(f, g)

\* The servers answer with ledgers and transactions there are.
LEMMA SummaryFacts ==
  ASSUME tip \in Txs, NEW summary \in Summaries
  PROVE  summary.ledger \in Txs /\ summary.ledger \in Nat /\ summary.txs \in SUBSET Txs
<1>1. Txs \subseteq Nat /\ MaxTx \in Nat
  BY MaxTxAssumption DEF Txs
<1>2. \A n \in Txs : Newest(1 .. n, Recent) \in SUBSET Txs
  BY <1>1 DEF Newest, Txs
<1>3. ASSUME NEW m \in Txs, NEW n \in Txs PROVE {tx \in m .. n : tx < m + Recent} \in SUBSET Txs
  BY <1>1, RecentAssumption DEF Txs
<1>4. CASE summary = IndexerSummary
  BY <1>1, <1>2, <1>4 DEF IndexerSummary
<1>5. CASE summary \in NetworkSummaries
  <2>1. PICK at \in Txs \X Txs :
          summary \in {HorizonSummary(at[1], at[2]), RpcSummary(at[1], at[2])}
    BY <1>5 DEF NetworkSummaries
  <2>2. at[1] \in Txs /\ at[2] \in Txs
    BY <2>1
  <2>3. CASE summary = HorizonSummary(at[1], at[2])
    BY <1>1, <1>2, <2>2, <2>3 DEF HorizonSummary
  <2>4. CASE summary = RpcSummary(at[1], at[2])
    BY <1>1, <1>3, <2>2, <2>4 DEF RpcSummary
  <2>. QED  BY <2>1, <2>3, <2>4
<1>. QED  BY <1>4, <1>5 DEF Summaries

\* Who answers a poll changes neither the filter nor whether the feed is paused.
LEMMA PollKeepsFilter ==
  ASSUME NEW h \in Feeds, tip \in Txs, NEW summary \in Summaries
  PROVE  /\ PollAnswered(h, summary).filter = h.filter
         /\ PollAnswered(h, summary).paused = h.paused
<1>1. ASSUME NEW k \in Feeds
      PROVE  LET g == [ApplyView(k) EXCEPT !.mode = "poll"]
             IN  g.filter = k.filter /\ g.paused = k.paused
  BY DEF ApplyView, Feeds
<1>. DEFINE k == [h EXCEPT !.last = summary.ledger, !.all = Merged(h, summary.txs)]
<1>2. k \in Feeds /\ k.filter = h.filter /\ k.paused = h.paused
  BY SummaryFacts DEF Feeds, Merged, Newest
<1>3. /\ [h EXCEPT !.last = summary.ledger].filter = h.filter
      /\ [h EXCEPT !.last = summary.ledger].paused = h.paused
  BY DEF Feeds
<1>. HIDE DEF k
<1>. QED  BY <1>1, <1>2, <1>3 DEF PollAnswered, Refreshed, k

\* What a poll makes of a feed that is not paused.
LEMMA PolledIs ==
  ASSUME NEW f, NEW g \in RefreshLiveScreen(f), ~ f.paused
  PROVE  g = f \/ g = RefreshFailed(f) \/ \E summary \in Summaries : g = PollAnswered(f, summary)
BY DEF RefreshLiveScreen

\* A poll of the live screen, if it is not paused.
LEMMA RefreshStep ==
  ASSUME NEW f, WellKept(f), tip \in Txs, f.last <= MaxTx, NEW g \in RefreshLiveScreen(f)
  PROVE  /\ WellKept(g) /\ TakesIn(f, g) /\ g.last <= MaxTx
         /\ (f.paused => g = f) /\ (~ f.paused => ~ g.paused)
<1>1. f.last \in Nat /\ f \in Feeds
  BY DEF WellKept, Feeds
<1>2. CASE f.paused
  BY <1>1, <1>2 DEF RefreshLiveScreen, TakesIn
<1>3. CASE ~ f.paused
  <2>1. CASE g = f
    BY <1>1, <1>3, <2>1 DEF TakesIn
  <2>2. CASE g = RefreshFailed(f)
    <3>1. WellKept(g) /\ Still(f, g)
      BY <1>3, <2>2, RefreshedFacts, 0 \in Nat, {} \in SUBSET Txs
    <3>2. ~ g.paused
      BY <1>1, <1>3, <2>2 DEF RefreshFailed, Feeds
    <3>. QED  BY <1>1, <1>3, <3>1, <3>2 DEF Still, TakesIn
  <2>3. CASE \E summary \in Summaries : g = PollAnswered(f, summary)
    <3>1. PICK summary \in Summaries : g = PollAnswered(f, summary)
      BY <2>3
    <3>2. summary.ledger \in Txs /\ summary.ledger \in Nat /\ summary.txs \in SUBSET Txs
      BY <3>1, SummaryFacts
    <3>3. WellKept(g) /\ TakesIn(f, g) /\ g.last = summary.ledger
      BY <1>3, <3>1, <3>2, RefreshedFacts DEF PollAnswered
    <3>4. ~ g.paused
      BY <1>1, <1>3, <3>1, PollKeepsFilter
    <3>. QED  BY <1>3, <3>2, <3>3, <3>4, MaxTxAssumption DEF Txs
  <2>. QED  BY <1>3, <2>1, <2>2, <2>3, PolledIs
<1>. QED  BY <1>2, <1>3

\* The user's change of a feed, followed by a poll or not.
LEMMA ChangeStep ==
  ASSUME NEW f, WellKept(f), tip \in Txs, f.last <= MaxTx,
         NEW h, WellKept(h), Still(f, h), NEW g \in RefreshLiveScreen(h) \cup {h}
  PROVE  GoodStep(f, g)
<1>1. h.last <= MaxTx /\ h.last = f.last /\ h.all = f.all /\ f.last \in Nat
  BY DEF Still, WellKept, Feeds
<1>2. CASE g = h
  BY <1>1, <1>2 DEF GoodStep, TakesIn, Still
<1>3. CASE g \in RefreshLiveScreen(h)
  <2>1. /\ WellKept(g) /\ TakesIn(h, g) /\ g.last <= MaxTx
        /\ (h.paused => g = h) /\ (~ h.paused => ~ g.paused)
    BY <1>1, <1>3, RefreshStep
  <2>2. TakesIn(f, g)
    BY <1>1, <2>1 DEF TakesIn, Merged
  <2>3. CASE h.paused
    BY <1>1, <2>1, <2>2, <2>3 DEF GoodStep, Still
  <2>4. CASE ~ h.paused
    BY <2>1, <2>2, <2>4 DEF GoodStep
  <2>. QED  BY <2>3, <2>4
<1>. QED  BY <1>2, <1>3

\* A step of the runtime.
LEMMA RuntimeStep ==
  ASSUME LInv, Runtime
  PROVE  /\ GoodStep(feed, feed') /\ tip' = tip /\ sent' = sent /\ wire' = wire
         /\ updates' \in Seq(1 .. sent)
         /\ feed.last <= feed'.last \/ (screen' = "live_feed" /\ UNCHANGED streamVars)
<1>1. CASE HandleUpdate
  <2>1. /\ tip' = tip /\ sent' = sent /\ wire' = wire /\ updates # << >>
        /\ updates' = Tail(updates) /\ Head(updates) \in 1 .. sent
    BY <1>1 DEF HandleUpdate, LInv
  <2>2. updates' \in Seq(1 .. sent)
    BY <2>1 DEF LInv
  <2>3. LedgerOf(Head(updates)) \in Txs /\ LedgerOf(Head(updates)) <= tip
    <3>1. tip \in Nat /\ tip <= MaxTx /\ MaxTx \in Nat /\ sent \in Nat /\ sent <= 2 * tip
      BY MaxTxAssumption DEF LInv, Txs
    <3>. QED  BY <2>1, <3>1 DEF LedgerOf, Txs
  <2>4. CASE screen = "live_feed" /\ ~ feed.paused
    <3>1. feed' = Streamed(Head(updates))
      BY <1>1, <2>4 DEF HandleUpdate
    <3>2. /\ WellKept(feed') /\ TakesIn(feed, feed')
          /\ feed'.last = feed.last \/ feed'.last = LastAfter(feed, LedgerOf(Head(updates)))
      <4>. DEFINE ledger == LedgerOf(Head(updates))
      <4>1. {ledger} \in SUBSET Txs
        BY <2>3
      <4>2. CASE IsTransaction(Head(updates))
        <5>1. feed' = TransactionsStreamed(feed, {ledger})
          BY <3>1, <4>2 DEF Streamed
        <5>2. TakesIn(feed, feed')
          BY <5>1, <4>1, <2>3, <2>4, StreamedFacts DEF LInv, TakesIn
        <5>. QED  BY <5>1, <5>2, <2>3, <2>4, StreamedFacts DEF LInv
      <4>3. CASE ~ IsTransaction(Head(updates))
        BY <3>1, <4>3, <2>3, <2>4, StreamedFacts DEF Streamed, LInv, TakesIn
      <4>. QED  BY <4>2, <4>3
    <3>3. feed.last <= feed'.last /\ feed'.last <= MaxTx
      BY <2>3, <3>2 DEF LastAfter, LInv, WellKept, Feeds, Txs
    <3>. QED  BY <2>1, <2>2, <2>4, <3>2, <3>3 DEF GoodStep
  <2>5. CASE ~ (screen = "live_feed" /\ ~ feed.paused)
    <3>1. feed' = feed
      BY <1>1, <2>5 DEF HandleUpdate
    <3>. QED  BY <2>1, <2>2, <3>1 DEF GoodStep, TakesIn, Still, LInv, WellKept, Feeds
  <2>. QED  BY <2>4, <2>5
<1>2. CASE HandleError
  <2>1. feed' = StreamFailed(feed) /\ UNCHANGED <<tip, sent, wire, updates>>
    BY <1>2 DEF HandleError
  <2>2. "poll" \in Modes /\ "degraded" \in Modes
    BY DEF Modes
  <2>3. WellKept(feed') /\ Still(feed, feed')
    BY <2>1, <2>2, ModeFacts DEF LInv, StreamFailed
  <2>. QED  BY <2>1, <2>3 DEF GoodStep, TakesIn, Still, LInv, WellKept, Feeds
<1>3. CASE Tick
  <2>1. feed' \in RefreshLiveScreen(feed) /\ UNCHANGED <<tip, sent, wire, updates>>
    BY <1>3 DEF Tick, streamVars
  <2>2. GoodStep(feed, feed')
    BY <2>1, ChangeStep DEF LInv, Still
  <2>3. screen' = "live_feed" /\ UNCHANGED streamVars
    BY <1>3 DEF Tick
  <2>. QED  BY <2>1, <2>2, <2>3 DEF LInv
<1>. QED  BY <1>1, <1>2, <1>3 DEF Runtime

\* A key or a command.
LEMMA UserStep ==
  ASSUME LInv, User
  PROVE  GoodStep(feed, feed') /\ UNCHANGED streamVars
<1>0. 1 \in Int /\ TRUE \in BOOLEAN
  OBVIOUS
<1>1. WellKept(feed) /\ tip \in Txs /\ feed.last <= MaxTx /\ Still(feed, feed)
  BY DEF LInv, Still
<1>2. ASSUME NEW h \in WatchEffects(feed) PROVE WellKept(h) /\ Still(feed, h)
  BY <1>1, UserFacts, PresetsAssumption, <1>0 DEF WatchEffects
<1>3. ASSUME NEW h \in CommandEffects(feed) PROVE WellKept(h) /\ Still(feed, h)
  <2>1. "all" \in Filters /\ TRUE \in BOOLEAN /\ 0 \in Int
    BY DEF Filters
  <2>2. CASE \E paused \in BOOLEAN : h = SetPaused(feed, paused)
    BY <1>1, <2>1, <2>2, UserFacts
  <2>3. CASE \E filter \in Filters : h = SetFilter(feed, filter)
    BY <1>1, <2>1, <2>3, UserFacts
  <2>. QED  BY <1>3, <2>2, <2>3 DEF CommandEffects
<1>4. CASE FeedKey
  <2>1. feed' \in KeyEffects(feed) /\ UNCHANGED streamVars
    BY <1>4 DEF FeedKey
  <2>2. CASE feed' \in RefreshLiveScreen(feed)
    BY <1>1, <2>1, <2>2, ChangeStep
  <2>3. CASE feed' \notin RefreshLiveScreen(feed)
    <3>1. (~ feed.paused) \in BOOLEAN /\ NextFilter(feed.filter) \in Filters /\ 1 \in Int /\ -1 \in Int
      BY DEF NextFilter, Filters
    <3>2. WellKept(feed') /\ Still(feed, feed')
      BY <1>1, <2>1, <2>3, <3>1, UserFacts DEF KeyEffects
    <3>. QED  BY <1>1, <2>1, <3>2, ChangeStep
  <2>. QED  BY <2>2, <2>3
<1>5. CASE MoveKey \/ LeaveKey \/ OpenRow
  <2>1. feed' = feed /\ UNCHANGED streamVars
    BY <1>5 DEF MoveKey, LineKey, MoveTo, LeaveKey, OpenRow
  <2>. QED  BY <1>1, <2>1, ChangeStep
<1>6. CASE LiveKey
  <2>1. feed' \in {feed} \cup WatchEffects(feed) /\ UNCHANGED streamVars
    BY <1>6 DEF LiveKey, Watched
  <2>. QED  BY <1>1, <1>2, <2>1, ChangeStep
<1>7. ASSUME NEW h, WellKept(h), Still(feed, h), AfterLiveCommand(h)
      PROVE  GoodStep(feed, feed')
  <2>1. PICK k \in {h} \cup WatchEffects(h) : feed' \in RefreshLiveScreen(k)
    BY <1>7 DEF AfterLiveCommand, Watched
  <2>2. WellKept(k) /\ Still(feed, k)
    <3>1. CASE k = h
      BY <1>7, <3>1
    <3>2. CASE k \in WatchEffects(h)
      <4>1. WellKept(k) /\ Still(h, k)
        BY <1>7, <3>2, UserFacts, PresetsAssumption, <1>0 DEF WatchEffects
      <4>. QED  BY <1>7, <4>1 DEF Still
    <3>. QED  BY <2>1, <3>1, <3>2
  <2>. QED  BY <1>1, <2>1, <2>2, ChangeStep
<1>8. CASE LiveScreenCommand
  <2>1. PICK h \in {feed} \cup {SetFilter(feed, filter) : filter \in Filters} : AfterLiveCommand(h)
    BY <1>8 DEF LiveScreenCommand
  <2>2. WellKept(h) /\ Still(feed, h)
    BY <1>1, <2>1, UserFacts, <1>0
  <2>. QED  BY <1>7, <1>8, <2>1, <2>2 DEF LiveScreenCommand
<1>9. WellKept(Returned(feed)) /\ Still(feed, Returned(feed))
  BY <1>1, ContextFacts DEF Returned, LInv
<1>10. CASE Back
  <2>1. feed' \in {Returned(feed)} \cup RefreshLiveScreen(Returned(feed)) /\ UNCHANGED streamVars
    BY <1>10 DEF Back
  <2>. QED  BY <1>1, <1>9, <2>1, ChangeStep
<1>11. CASE ReturnCommand
  BY <1>7, <1>9, <1>11 DEF ReturnCommand
<1>12. CASE LiveCommand
  <2>1. PICK h \in CommandEffects(feed) :
          IF screen = "live_feed" THEN AfterLiveCommand(h) ELSE feed' = h
    BY <1>12 DEF LiveCommand
  <2>2. WellKept(h) /\ Still(feed, h)
    BY <1>3, <2>1
  <2>3. GoodStep(feed, feed')
    BY <1>1, <1>7, <2>1, <2>2, ChangeStep
  <2>. QED  BY <1>12, <2>3 DEF LiveCommand
<1>13. CASE WatchCommand
  <2>1. PICK h \in WatchEffects(feed) : feed' \in RefreshLiveScreen(h)
    BY <1>13 DEF WatchCommand
  <2>. QED  BY <1>1, <1>2, <1>13, <2>1, ChangeStep DEF WatchCommand
<1>. QED  BY <1>4, <1>5, <1>6, <1>8, <1>10, <1>11, <1>12, <1>13 DEF User

\* Off the live screen the user changes neither what is kept nor the header.
LEMMA UserElsewhere ==
  ASSUME LInv, User, screen' # "live_feed"
  PROVE  Still(feed, feed')
<1>1. CASE LiveCommand
  <2>1. PICK h \in CommandEffects(feed) : feed' = h
    BY <1>1 DEF LiveCommand
  <2>2. CASE \E paused \in BOOLEAN : h = SetPaused(feed, paused)
    <3>1. "all" \in Filters /\ 0 \in Int
      BY DEF Filters
    <3>. QED  BY <2>1, <2>2, <3>1, UserFacts DEF LInv
  <2>3. CASE \E filter \in Filters : h = SetFilter(feed, filter)
    <3>1. TRUE \in BOOLEAN /\ 0 \in Int
      OBVIOUS
    <3>. QED  BY <2>1, <2>3, <3>1, UserFacts DEF LInv
  <2>. QED  BY <2>1, <2>2, <2>3 DEF CommandEffects
<1>2. CASE MoveKey \/ OpenRow \/ LeaveKey
  BY <1>2 DEF MoveKey, LineKey, MoveTo, OpenRow, LeaveKey, Still
<1>3. CASE FeedKey \/ Back \/ LiveKey \/ LiveScreenCommand \/ ReturnCommand \/ WatchCommand
  BY <1>3 DEF FeedKey, Back, LiveKey, LiveScreenCommand, ReturnCommand, WatchCommand
<1>. QED  BY <1>1, <1>2, <1>3 DEF User

\* The dashboard's cursor stays a row number, and a context that is kept is one
\* that was captured.
LEMMA DashboardStep ==
  ASSUME LInv, [Next]_vars
  PROVE  selected' \in Nat /\ \A c \in monitoring' : GoodContext(c)
<1>0. feed.view \in SUBSET Txs /\ feed.index \in Int /\ selected \in Int
  BY DEF LInv, WellKept, Feeds
<1>1. WithSnapshot(feed) \in Nat
  BY <1>0, ClampIndexFacts DEF WithSnapshot
<1>2. ASSUME NEW row \in Int, MoveTo(row) PROVE selected' \in Nat
  BY <1>0, <1>2, ClampIndexFacts DEF MoveTo
<1>3. CASE MoveKey
  <2>1. MarkedRow - 1 \in Int /\ MarkedRow + 1 \in Int /\ 0 \in Int
    BY <1>1 DEF MarkedRow
  <2>2. PICK row \in Int : MoveTo(row)
    <3>1. \A delta \in {-1, 1} : MarkedRow + delta \in Int /\ MarkedRow + delta * PageStep \in Int
      BY <1>1, PageStepAssumption DEF MarkedRow
    <3>2. Cardinality(feed.view) - 1 \in Int
      BY <1>0, ListFacts
    <3>. QED  BY <1>3, <3>1, <3>2 DEF MoveKey, LineKey
  <2>3. monitoring' = monitoring
    BY <2>2 DEF MoveTo, contextVars
  <2>. QED  BY <1>2, <2>2, <2>3 DEF LInv
<1>4. CASE OpenRow
  <2>1. selected' = WithSnapshot(feed) /\ monitoring' = {Captured(feed, MarkedRow)}
    BY <1>4 DEF OpenRow, SyncDashboard
  <2>. QED  BY <1>1, <2>1, ContextFacts DEF MarkedRow, LInv
<1>5. CASE UNCHANGED <<selected, monitoring>>
  BY <1>5 DEF LInv
<1>6. CASE SyncDashboard /\ monitoring' \in {monitoring, {}}
  BY <1>1, <1>6 DEF SyncDashboard, LInv
<1>7. CASE User /\ ~ MoveKey /\ ~ OpenRow
  <2>1. SyncDashboard /\ monitoring' \in {monitoring, {}}
    BY <1>7 DEF User, FeedKey, LeaveKey, Back, LiveKey, LiveScreenCommand, ReturnCommand,
              LiveCommand, WatchCommand, contextVars
  <2>. QED  BY <1>6, <2>1
<1>8. CASE IndexerRuns \/ Stream \/ Runtime \/ UNCHANGED vars
  BY <1>5, <1>8 DEF IndexerRuns, Stream, Runtime, HandleUpdate, HandleError, Tick,
                   vars, feedVars, contextVars
<1>. QED  BY <1>3, <1>4, <1>7, <1>8 DEF Next

\* A step of the indexer, of Redis or of the consumer leaves the feed alone.
LEMMA OutsideStep ==
  ASSUME LInv, IndexerRuns \/ Stream
  PROVE  LInv' /\ feed' = feed
<1>1. feed' = feed /\ selected' = selected /\ monitoring' = monitoring
  BY DEF IndexerRuns, Stream, feedVars, contextVars
<1>2. WellKept(feed) /\ tip \in Nat /\ MaxTx \in Nat /\ sent \in Nat /\ feed.last \in Nat
  BY MaxTxAssumption DEF LInv, Txs, WellKept, Feeds
<1>3. CASE IngestLedger
  <2>1. tip' = tip + 1 /\ tip < MaxTx /\ UNCHANGED <<sent, wire, updates>>
    BY <1>3 DEF IngestLedger
  <2>. QED  BY <1>1, <1>2, <2>1 DEF LInv, Txs
<1>4. CASE Publish
  <2>1. /\ sent < 2 * tip /\ sent' = sent + 1 /\ tip' = tip /\ updates' = updates
        /\ wire' = wire \/ wire' = Append(wire, sent + 1)
    BY <1>4 DEF Publish
  <2>2. wire \in Seq(1 .. sent') /\ updates \in Seq(1 .. sent') /\ sent + 1 \in 1 .. sent'
    <3>1. 1 .. sent \subseteq 1 .. sent'
      BY <1>2, <2>1
    <3>. QED  BY <1>2, <2>1, <3>1 DEF LInv
  <2>3. Append(wire, sent + 1) \in Seq(1 .. sent')
    BY <2>2
  <2>4. wire' \in Seq(1 .. sent') /\ updates' \in Seq(1 .. sent')
    BY <2>1, <2>2, <2>3
  <2>. QED  BY <1>1, <1>2, <2>1, <2>4 DEF LInv
<1>5. CASE Consumer
  <2>1. /\ tip' = tip /\ sent' = sent
        /\ \/ UNCHANGED <<wire, updates>>
           \/ wire # << >> /\ wire' = Tail(wire) /\ updates' = Append(updates, Head(wire))
           \/ wire' = << >> /\ updates' = updates
    BY <1>5 DEF Consumer, Connect, ConnectFails, Receive, Disconnect
  <2>2. wire' \in Seq(1 .. sent) /\ updates' \in Seq(1 .. sent)
    <3>1. wire \in Seq(1 .. sent) /\ updates \in Seq(1 .. sent)
      BY DEF LInv
    <3>2. ASSUME wire # << >>
          PROVE  Tail(wire) \in Seq(1 .. sent) /\ Append(updates, Head(wire)) \in Seq(1 .. sent)
      <4>1. Head(wire) \in 1 .. sent /\ Tail(wire) \in Seq(1 .. sent)
        BY <3>1, <3>2, HeadTailFacts
      <4>. QED  BY <3>1, <4>1
    <3>3. << >> \in Seq(1 .. sent)
      OBVIOUS
    <3>. QED  BY <2>1, <3>1, <3>2, <3>3
  <2>. QED  BY <1>1, <2>1, <2>2 DEF LInv
<1>. QED  BY <1>3, <1>4, <1>5 DEF IndexerRuns, Stream

-----------------------------------------------------------------------------
(* The theorems.                                                            *)

\* The rows an earlier session kept are a feed to start with.
LEMMA LInvInit == Init => LInv
<1>. SUFFICES ASSUME Init PROVE LInv
  OBVIOUS
<1>1. /\ tip \in Txs /\ sent = 2 * tip /\ wire = << >> /\ updates = << >>
      /\ \E txs \in SUBSET Txs :
           feed \in RefreshLiveScreen(Restored(txs)) \cup {Restored(txs)}
  BY DEF Init, StreamInit
<1>2. PICK txs \in SUBSET Txs :
        feed \in RefreshLiveScreen(Restored(txs)) \cup {Restored(txs)}
  BY <1>1
<1>. DEFINE f == Restored(txs)
<1>3. /\ f \in Feeds /\ ~ f.paused /\ f.replay = 0 /\ f.filter = "all"
      /\ f.view = f.all /\ f.last = 0
  <2>1. Newest(txs, Scrollback) \in SUBSET Txs
    BY DEF Newest
  <2>2. "all" \in Filters /\ "poll" \in Modes
    BY DEF Filters, Modes
  <2>. QED  BY <2>1, <2>2 DEF Restored, Feeds
<1>4. WellKept(f)
  <2>1. Filtered(f) = f.all
    BY <1>3 DEF Filtered, Matches
  <2>2. ASSUME NEW tx PROVE Position(tx, f.all) \in Nat
    BY <1>3, ListFacts DEF Feeds
  <2>3. Window(f) = f.all
    BY <1>3, <2>1, <2>2 DEF Window, ReplayStart
  <2>. QED  BY <1>3, <2>3 DEF WellKept, ReplayStart
<1>5. GoodStep(f, feed)
  <2>1. f.last <= MaxTx /\ Still(f, f)
    BY <1>3, MaxTxAssumption DEF Still
  <2>. QED  BY <1>1, <1>2, <1>4, <2>1, ChangeStep
<1>6. << >> \in Seq(1 .. sent) /\ sent \in 0 .. 2 * tip
  BY <1>1 DEF Txs
<1>7. selected \in Nat /\ monitoring = {}
  <2>1. selected = ClampIndex(feed.index, feed.view) /\ monitoring = {}
    BY DEF Init
  <2>2. feed.view \in SUBSET Txs /\ feed.index \in Int
    BY <1>5 DEF GoodStep, WellKept, Feeds
  <2>. QED  BY <2>1, <2>2, ClampIndexFacts
<1>. QED  BY <1>1, <1>5, <1>6, <1>7 DEF LInv, GoodStep

\* Every step is a good one for the feed and keeps the invariant.
LEMMA LInvNext ==
  ASSUME LInv, [Next]_vars
  PROVE  LInv' /\ GoodStep(feed, feed')
<1>1. ASSUME feed' = feed PROVE GoodStep(feed, feed')
  BY <1>1 DEF LInv, GoodStep, TakesIn, Still, WellKept, Feeds
<1>2. CASE IndexerRuns \/ Stream
  BY <1>1, <1>2, OutsideStep
<1>3. CASE Runtime
  BY <1>3, RuntimeStep, DashboardStep DEF LInv, GoodStep
<1>4. CASE User
  BY <1>4, UserStep, DashboardStep DEF LInv, GoodStep, streamVars
<1>5. CASE UNCHANGED vars
  BY <1>1, <1>5 DEF vars, streamVars, feedVars, contextVars, LInv
<1>. QED  BY <1>2, <1>3, <1>4, <1>5 DEF Next

\* The invariant holds throughout.
LEMMA LInvAlways == Spec => []LInv
<1>1. LInv /\ [Next]_vars => LInv'
  BY LInvNext
<1>. QED  BY <1>1, LInvInit, PTL DEF Spec

\* Whatever handlers and keys come in whatever order, the rows on the screen are
\* those that filter and replay window select, or there are none.
THEOREM FeedShowsWindow == Spec => []ViewIsWindowOrBlank
<1>1. LInv => ViewIsWindowOrBlank
  BY DEF LInv, WellKept, ViewIsWindowOrBlank, ReplayStart
<1>. QED  BY <1>1, LInvAlways, PTL

\* A paused feed keeps what it has and takes nothing in.
THEOREM FeedStillWhilePaused == Spec => PausedFeedIsStill
<1>1. LInv /\ [Next]_vars =>
        [feed.paused /\ feed'.paused => feed'.all = feed.all /\ feed'.last = feed.last]_vars
  BY LInvNext DEF GoodStep, Still
<1>. QED  BY <1>1, LInvAlways, PTL DEF Spec, PausedFeedIsStill

-----------------------------------------------------------------------------
(* Nothing that came through is lost before enough newer ones displace it.  *)

\* The transaction is kept, or as many newer ones are as there is room for.
Kept(all, tx) == tx \in all \/ Position(tx, all) >= Scrollback

\* The message waits in the queue.
Queued(m, queue) == \E i \in DOMAIN queue : queue[i] = m

\* A finite set of numbers has a highest one: the elements above it are a
\* minimal one among the sets of elements above an element.
LEMMA HighestOfSet ==
  ASSUME NEW S, S \subseteq Int, IsFiniteSet(S), S # {}
  PROVE  \E x \in S : \A y \in S : x >= y
<1>. DEFINE Above(x) == {y \in S : y > x}
            Tails == {Above(x) : x \in S}
<1>1. Tails # {} /\ Tails \subseteq FiniteSubsetsOf(S)
  <2>1. \A x \in S : Above(x) \subseteq S /\ IsFiniteSet(Above(x))
    BY FS_Subset
  <2>. QED  BY <2>1 DEF FiniteSubsetsOf
<1>2. PICK T \in Tails : \A U \in Tails : ~ (<<U, T>> \in StrictSubsetOrdering(S))
  <2>. HIDE DEF Tails
  <2>. QED  BY <1>1, FS_StrictSubsetOrderingWellFounded, WFMin
<1>3. PICK x \in S : T = Above(x)
  BY <1>2
<1>4. ASSUME NEW y \in S, y > x PROVE FALSE
  <2>1. x \in Int /\ y \in Int /\ \A z \in S : z \in Int
    OBVIOUS
  <2>2. ASSUME NEW z \in Above(y) PROVE z \in Above(x)
    <3>1. z \in S /\ z > y /\ z \in Int
      BY <2>1
    <3>. QED  BY <3>1, <2>1, <1>4
  <2>3. y \in Above(x) /\ y \notin Above(y)
    BY <1>4, <2>1
  <2>4. <<Above(y), Above(x)>> \in StrictSubsetOrdering(S)
    BY <2>2, <2>3 DEF StrictSubsetOrdering
  <2>. QED  BY <2>4, <1>2, <1>3
<1>. QED  BY <1>4

\* Lists are finite sets of numbers.
LEMMA FiniteList ==
  ASSUME NEW list \in SUBSET Txs
  PROVE  list \subseteq Int /\ IsFiniteSet(list)
<1>1. IsFiniteSet(1 .. MaxTx) /\ 1 .. MaxTx \subseteq Int
  <2>1. 1 \in Int /\ MaxTx \in Int
    BY MaxTxAssumption
  <2>. QED  BY <2>1, FS_Interval
<1>2. list \in SUBSET (1 .. MaxTx)
  BY DEF Txs
<1>. QED  BY <1>1, <1>2, FS_Subset

\* Cutting a list to its newest rows takes none away that has fewer than so
\* many above it in what is left: the highest one cut from above it would have
\* to be among the newest itself.
LEMMA NewestKeepAbove ==
  ASSUME NEW S \in SUBSET Txs, NEW l \in Txs, Position(l, S) >= Scrollback
  PROVE  Position(l, Newest(S, Scrollback)) >= Scrollback
<1>. DEFINE Above(k) == {m \in S : m > k}
            Shown == {m \in Newest(S, Scrollback) : m > l}
<1>1. /\ \A k : IsFiniteSet(Above(k)) /\ Cardinality(Above(k)) \in Nat
      /\ \A k : Position(k, S) = Cardinality(Above(k))
      /\ Position(l, Newest(S, Scrollback)) = Cardinality(Shown)
  BY FiniteList, FS_Subset, FS_CardinalityType DEF Position
<1>2. Shown \subseteq Above(l) /\ IsFiniteSet(Shown) /\ Cardinality(Shown) \in Nat
  <2>1. Shown \subseteq Above(l) /\ Shown \in SUBSET S
    BY DEF Newest
  <2>. QED  BY <2>1, FiniteList, FS_Subset, FS_CardinalityType
<1>3. SUFFICES ASSUME Cardinality(Shown) < Scrollback PROVE FALSE
  <2>. HIDE DEF Above, Shown
  <2>. QED  BY <1>1, <1>2, ScrollbackAssumption
<1>4. PICK x \in Above(l) \ Shown : \A y \in Above(l) \ Shown : x >= y
  <2>1. Above(l) \ Shown # {}
    <3>1. Cardinality(Above(l)) >= Scrollback
      BY <1>1
    <3>. HIDE DEF Above, Shown
    <3>2. ASSUME Above(l) \ Shown = {} PROVE Above(l) = Shown
      BY <3>2, <1>2
    <3>. QED  BY <3>1, <3>2, <1>2, <1>3, ScrollbackAssumption
  <2>2. Above(l) \ Shown \subseteq Int /\ IsFiniteSet(Above(l) \ Shown)
    <3>1. Above(l) \ Shown \in SUBSET Txs
      OBVIOUS
    <3>. QED  BY <3>1, FiniteList
  <2>. HIDE DEF Above, Shown
  <2>. QED  BY <2>1, <2>2, HighestOfSet
<1>5. Above(x) \subseteq Shown
  <2>1. ASSUME NEW y \in Above(x), y \notin Shown PROVE FALSE
    <3>1. y \in Int /\ x \in Int /\ l \in Int /\ y > x /\ x > l /\ y \in S
      BY <1>4 DEF Txs
    <3>2. y \in Above(l) \ Shown
      BY <3>1, <2>1
    <3>3. x >= y
      BY <3>2, <1>4
    <3>. QED  BY <3>1, <3>3
  <2>. QED  BY <2>1
<1>6. Position(x, S) < Scrollback
  <2>1. Cardinality(Above(x)) <= Cardinality(Shown)
    BY <1>2, <1>5, FS_Subset
  <2>. HIDE DEF Above, Shown
  <2>. QED  BY <2>1, <1>1, <1>2, <1>3, ScrollbackAssumption
<1>. QED  BY <1>4, <1>6 DEF Newest

\* Merging keeps what was kept, and keeps what comes in, or has enough newer.
LEMMA MergedFacts ==
  ASSUME NEW f, f.all \in SUBSET Txs, NEW txs \in SUBSET Txs, NEW tx \in Txs,
         Kept(f.all, tx) \/ tx \in txs
  PROVE  Kept(Merged(f, txs), tx)
<1>. DEFINE S == f.all \cup txs
<1>1. S \in SUBSET Txs
  OBVIOUS
<1>2. Position(tx, S) \in Nat /\ Position(tx, f.all) \in Nat
  BY <1>1, ListFacts
<1>3. CASE Position(tx, S) >= Scrollback
  BY <1>1, <1>3, NewestKeepAbove DEF Kept, Merged
<1>4. CASE Position(tx, S) < Scrollback
  <2>1. CASE tx \in S
    BY <1>4, <2>1 DEF Kept, Merged, Newest
  <2>2. CASE tx \notin S
    <3>1. Position(tx, f.all) >= Scrollback
      BY <2>2 DEF Kept
    <3>2. Position(tx, f.all) <= Position(tx, S)
      <4>1. /\ {o \in f.all : o > tx} \in SUBSET {o \in S : o > tx}
            /\ {o \in S : o > tx} \in SUBSET Txs
        OBVIOUS
      <4>. QED  BY <4>1, FiniteList, FS_Subset DEF Position
    <3>. QED  BY <1>2, <1>4, <3>1, <3>2, ScrollbackAssumption
  <2>. QED  BY <2>1, <2>2
<1>. QED  BY <1>2, <1>3, <1>4, ScrollbackAssumption

\* No step takes away what is kept.
LEMMA StepKeeps ==
  ASSUME LInv, [Next]_vars, NEW tx \in Txs, Kept(feed.all, tx)
  PROVE  Kept(feed'.all, tx)
<1>1. TakesIn(feed, feed') /\ feed.all \in SUBSET Txs
  BY LInvNext DEF GoodStep, LInv, WellKept, Feeds
<1>2. CASE feed'.all = feed.all
  BY <1>2
<1>3. CASE \E txs \in SUBSET Txs : feed'.all = Merged(feed, txs)
  BY <1>1, <1>3, MergedFacts
<1>. QED  BY <1>1, <1>2, <1>3 DEF TakesIn

\* The row is kept or displaced by newer ones, in the words of the properties.
LEMMA KeptIs ==
  ASSUME NEW f, NEW tx
  PROVE  KeptOrDisplaced(tx, f) <=> Kept(f.all, tx)
BY DEF KeptOrDisplaced, Kept, Position

\* No row ever gives way to an older one, whichever server answers a poll and
\* whatever was queued before it, and only polls turn the header back.
THEOREM FeedNeverTurnsBack == Spec => ListNeverGoesBack
<1>. DEFINE Step ==
       /\ \A tx \in feed.all : KeptOrDisplaced(tx, feed')
       /\ feed'.last < feed.last => screen' = "live_feed" /\ ~ feed'.paused /\ UNCHANGED streamVars
<1>1. LInv /\ [Next]_vars => Step
  <2>. SUFFICES ASSUME LInv, [Next]_vars PROVE Step
    OBVIOUS
  <2>1. ASSUME NEW tx \in feed.all PROVE KeptOrDisplaced(tx, feed')
    <3>1. tx \in Txs /\ Kept(feed.all, tx)
      BY DEF LInv, WellKept, Feeds, Kept
    <3>. QED  BY <3>1, StepKeeps, KeptIs
  <2>2. feed.last \in Nat /\ feed'.last \in Nat /\ GoodStep(feed, feed')
    BY LInvNext DEF GoodStep, LInv, WellKept, Feeds
  <2>3. ASSUME feed'.last < feed.last
        PROVE  screen' = "live_feed" /\ UNCHANGED streamVars
    <3>1. ~ Still(feed, feed') /\ ~ feed.last <= feed'.last /\ feed' # feed
      BY <2>2, <2>3 DEF Still
    <3>2. CASE IndexerRuns \/ Stream \/ UNCHANGED vars
      BY <3>1, <3>2, OutsideStep DEF vars, feedVars
    <3>3. CASE Runtime
      BY <3>1, <3>3, RuntimeStep
    <3>4. CASE User
      BY <3>1, <3>4, UserStep, UserElsewhere
    <3>. QED  BY <3>2, <3>3, <3>4 DEF Next
  <2>4. feed'.last < feed.last => ~ feed'.paused
    BY <2>2 DEF GoodStep
  <2>. QED  BY <2>1, <2>3, <2>4
<1>. HIDE DEF Step
<1>2. Spec => [][Step]_vars
  <2>1. LInv /\ [Next]_vars => [Step]_vars
    BY <1>1
  <2>. QED  BY <2>1, LInvAlways, PTL DEF Spec
<1>. QED  BY <1>2 DEF Step, ListNeverGoesBack

\* Messages stay in a queue that others are appended to, and all but the first
\* when that is taken off.
LEMMA QueueFacts ==
  ASSUME NEW queue \in Seq(Int), NEW m \in Int, NEW n \in Int
  PROVE  /\ Queued(m, Append(queue, m))
         /\ Queued(m, queue) => Queued(m, Append(queue, n))
         /\ queue # << >> /\ Queued(m, queue) => m = Head(queue) \/ Queued(m, Tail(queue))
<1>1. /\ Append(queue, m)[Len(queue) + 1] = m
      /\ Len(queue) + 1 \in DOMAIN Append(queue, m)
  OBVIOUS
<1>2. ASSUME NEW i \in DOMAIN queue
      PROVE  i \in DOMAIN Append(queue, n) /\ Append(queue, n)[i] = queue[i]
  OBVIOUS
<1>3. ASSUME queue # << >>, NEW i \in DOMAIN queue, i # 1
      PROVE  i - 1 \in DOMAIN Tail(queue) /\ Tail(queue)[i - 1] = queue[i]
  BY <1>3
<1>4. queue # << >> => Head(queue) = queue[1]
  OBVIOUS
<1>. QED  BY <1>1, <1>2, <1>3, <1>4 DEF Queued

\* What the property says of one transaction.
Accounted(tx) ==
  2 * tx <= sent /\ tx \notin missed =>
    Kept(feed.all, tx) \/ Queued(2 * tx, wire) \/ Queued(2 * tx, updates)

LEMMA AccountedNext ==
  ASSUME LInv, [Next]_vars, NEW tx \in Txs, Accounted(tx)
  PROVE  Accounted(tx)'
<1>1. /\ tx \in Int /\ 2 * tx \in Int /\ sent \in Int
      /\ wire \in Seq(Int) /\ updates \in Seq(Int)
  <2>1. 1 .. sent \subseteq Int /\ wire \in Seq(1 .. sent) /\ updates \in Seq(1 .. sent)
    BY DEF LInv
  <2>. QED  BY <2>1 DEF Txs, LInv
<1>2. Kept(feed.all, tx) => Kept(feed'.all, tx)
  BY StepKeeps
<1>3. ASSUME UNCHANGED <<sent, wire, updates>>, missed \subseteq missed'
      PROVE  Accounted(tx)'
  BY <1>2, <1>3 DEF Accounted
<1>4. CASE IndexerRuns /\ Publish
  <2>1. /\ sent' = sent + 1 /\ updates' = updates
        /\ \/ wire' = Append(wire, sent + 1) /\ missed' = missed
           \/ wire' = wire /\ Miss({sent + 1})
    BY <1>4 DEF Publish
  <2>2. CASE wire' = Append(wire, sent + 1) /\ missed' = missed
    <3>1. Queued(2 * tx, wire) => Queued(2 * tx, wire')
      BY <1>1, <2>2, QueueFacts
    <3>2. 2 * tx = sent + 1 => Queued(2 * tx, wire')
      BY <1>1, <2>2, QueueFacts
    <3>3. 2 * tx <= sent' => 2 * tx <= sent \/ 2 * tx = sent + 1
      BY <1>1, <2>1
    <3>. QED  BY <1>2, <2>1, <2>2, <3>1, <3>2, <3>3 DEF Accounted
  <2>3. CASE wire' = wire /\ Miss({sent + 1})
    <3>1. tx \notin missed' => tx \notin missed /\ 2 * tx # sent + 1
      BY <2>3 DEF Miss
    <3>2. 2 * tx <= sent' /\ 2 * tx # sent + 1 => 2 * tx <= sent
      BY <1>1, <2>1
    <3>. QED  BY <1>2, <2>1, <2>3, <3>1, <3>2 DEF Accounted
  <2>. QED  BY <2>1, <2>2, <2>3
<1>5. CASE IndexerRuns /\ ~ Publish
  BY <1>3, <1>5 DEF IndexerRuns, IngestLedger
<1>6. CASE Stream /\ Receive
  <2>1. /\ wire # << >> /\ wire' = Tail(wire) /\ updates' = Append(updates, Head(wire))
        /\ sent' = sent /\ missed' = missed
    BY <1>6 DEF Receive
  <2>2. Head(wire) \in Int
    BY <1>1, <2>1, HeadTailFacts
  <2>3. /\ Queued(2 * tx, wire) => Queued(2 * tx, wire') \/ Queued(2 * tx, updates')
        /\ Queued(2 * tx, updates) => Queued(2 * tx, updates')
    BY <1>1, <2>1, <2>2, QueueFacts
  <2>. QED  BY <1>2, <2>1, <2>3 DEF Accounted
<1>7. CASE Stream /\ Disconnect
  <2>1. /\ Miss({wire[i] : i \in DOMAIN wire}) /\ sent' = sent /\ updates' = updates
    BY <1>7 DEF Disconnect
  <2>2. tx \notin missed' => tx \notin missed /\ ~ Queued(2 * tx, wire)
    BY <2>1 DEF Miss, Queued
  <2>. QED  BY <1>2, <2>1, <2>2 DEF Accounted
<1>8. CASE Stream /\ ~ Receive /\ ~ Disconnect
  BY <1>3, <1>8 DEF Stream, Consumer, Connect, ConnectFails
<1>9. CASE HandleUpdate
  <2>1. updates # << >> /\ updates' = Tail(updates) /\ sent' = sent /\ wire' = wire
    BY <1>9 DEF HandleUpdate
  <2>2. Queued(2 * tx, updates) => 2 * tx = Head(updates) \/ Queued(2 * tx, updates')
    BY <1>1, <2>1, QueueFacts
  <2>3. CASE screen = "live_feed" /\ ~ feed.paused
    <3>1. feed' = Streamed(Head(updates)) /\ missed' = missed
      BY <1>9, <2>3 DEF HandleUpdate
    <3>2. ASSUME 2 * tx = Head(updates) PROVE Kept(feed'.all, tx)
      <4>1. IsTransaction(Head(updates)) /\ LedgerOf(Head(updates)) = tx
        <5>1. (2 * tx) % 2 = 0 /\ (2 * tx + 1) \div 2 = tx
          BY <1>1
        <5>. QED  BY <3>2, <5>1 DEF IsTransaction, LedgerOf
      <4>2. feed' = TransactionsStreamed(feed, {tx})
        BY <3>1, <4>1 DEF Streamed
      <4>3. feed'.all = IF tx \in feed.all THEN feed.all ELSE Merged(feed, {tx})
        BY <4>2, <2>3, StreamedFacts DEF LInv
      <4>4. feed.all \in SUBSET Txs /\ {tx} \in SUBSET Txs
        BY DEF LInv, WellKept, Feeds
      <4>5. Kept(Merged(feed, {tx}), tx)
        BY <4>4, MergedFacts
      <4>. QED  BY <4>3, <4>5 DEF Kept
    <3>. QED  BY <1>2, <2>1, <2>2, <3>1, <3>2 DEF Accounted
  <2>4. CASE ~ (screen = "live_feed" /\ ~ feed.paused)
    <3>1. Miss({Head(updates)})
      BY <1>9, <2>4 DEF HandleUpdate
    <3>2. tx \notin missed' => tx \notin missed /\ 2 * tx # Head(updates)
      BY <3>1 DEF Miss
    <3>. QED  BY <1>2, <2>1, <2>2, <3>2 DEF Accounted
  <2>. QED  BY <2>3, <2>4
<1>10. CASE HandleError \/ Tick
  BY <1>3, <1>10 DEF HandleError, Tick, streamVars
<1>11. CASE User \/ UNCHANGED vars
  <2>1. UNCHANGED streamVars
    BY <1>11, UserStep DEF vars
  <2>. QED  BY <1>3, <2>1 DEF streamVars
<1>. QED
  BY <1>4, <1>5, <1>6, <1>7, <1>8, <1>9, <1>10, <1>11 DEF Next, Runtime

\* A transaction that came through while the live screen was shown and not
\* paused is kept, until as many newer ones are as there is room for.
THEOREM FeedLosesNothing == Spec => []NothingLostSilently
<1>. DEFINE Inv == \A tx \in Txs : Accounted(tx)
<1>1. Init => Inv
  <2>1. ASSUME Init, NEW tx \in Txs PROVE Accounted(tx)
    <3>1. sent = 2 * tip /\ missed = 1 .. tip /\ tip \in Int /\ tx \in Int /\ 1 <= tx
      BY <2>1 DEF Init, StreamInit, Txs
    <3>2. 2 * tx <= sent => tx \in missed
      BY <3>1
    <3>. QED  BY <3>2 DEF Accounted
  <2>. QED  BY <2>1
<1>2. LInv /\ Inv /\ [Next]_vars => Inv'
  BY AccountedNext
<1>3. Inv => NothingLostSilently
  BY KeptIs DEF Accounted, Queued, NothingLostSilently
<1>. HIDE DEF Inv
<1>. QED  BY <1>1, <1>2, <1>3, LInvAlways, PTL DEF Spec

-----------------------------------------------------------------------------
(* The cursor of the model stays on its transaction.                        *)

\* A transaction of both lists that is under the cursor in f is so in g.
Follows(f, g) ==
  \A tx \in f.view \cap g.view :
    f.index = Position(tx, f.view) => g.index = Position(tx, g.view)

\* What a change by the user does to the rows and the cursor of f.
Changed(f, g) ==
  /\ WellKept(g) /\ Still(f, g) /\ Follows(f, g)
  /\ g.view = Window(g) \/ g.view = f.view

\* A row has a number of its own, below the length of the list.
LEMMA RowFacts ==
  ASSUME NEW list \in SUBSET Txs, NEW tx \in list
  PROVE  Position(tx, list) < Cardinality(list) /\ Row(list, Position(tx, list)) = tx
<1>. DEFINE Above(k) == {m \in list : m > k}
<1>1. /\ IsFiniteSet(list) /\ Cardinality(list) \in Nat
      /\ \A k : Above(k) \in SUBSET Txs /\ IsFiniteSet(Above(k)) /\ Cardinality(Above(k)) \in Nat
      /\ \A k : Position(k, list) = Cardinality(Above(k))
  BY FiniteList, FS_CardinalityType DEF Position
<1>2. Cardinality(Above(tx)) < Cardinality(list)
  <2>1. Above(tx) \in SUBSET list /\ tx \notin Above(tx) /\ tx \in Int
    BY DEF Txs
  <2>2. Above(tx) # list
    BY <2>1
  <2>. HIDE DEF Above
  <2>. QED  BY <1>1, <2>1, <2>2, FS_Subset
<1>3. ASSUME NEW a \in list, NEW b \in list, a < b PROVE Cardinality(Above(a)) # Cardinality(Above(b))
  <2>1. a \in Int /\ b \in Int /\ \A m \in list : m \in Int
    BY DEF Txs
  <2>2. Above(b) \in SUBSET Above(a)
    <3>1. ASSUME NEW m \in Above(b) PROVE m \in Above(a)
      <4>1. m \in list /\ m > b /\ m \in Int
        BY <2>1
      <4>. QED  BY <1>3, <2>1, <4>1
    <3>. QED  BY <3>1
  <2>3. b \in Above(a) /\ b \notin Above(b)
    BY <1>3, <2>1
  <2>. HIDE DEF Above
  <2>. QED  BY <1>1, <2>2, <2>3, FS_Subset
<1>4. \A other \in list : Position(other, list) = Position(tx, list) => other = tx
  <2>1. ASSUME NEW other \in list, Position(other, list) = Position(tx, list) PROVE other = tx
    <3>1. other \in Int /\ tx \in Int
      BY DEF Txs
    <3>2. ~ other < tx /\ ~ tx < other
      <4>. HIDE DEF Above
      <4>. QED  BY <1>1, <1>3, <2>1
    <3>. QED  BY <3>1, <3>2
  <2>. QED  BY <2>1
<1>. QED
  <2>. HIDE DEF Above
  <2>. QED  BY <1>1, <1>2, <1>4 DEF Row

\* applyLiveFeedView of a feed with the rows and the cursor of f.
LEMMA ApplyFollows ==
  ASSUME NEW f \in Feeds, NEW g \in Feeds, g.view = f.view, g.index = f.index
  PROVE  Follows(f, ApplyView(g)) /\ ApplyView(g).view = Window(ApplyView(g))
<1>1. /\ ApplyView(g) \in Feeds /\ ApplyView(g).view = Window(ApplyView(g))
      /\ ApplyView(g).index = FollowSelection(g, Window(g))
      /\ ApplyView(g).view = Window(g)
  BY ApplyViewFacts DEF ApplyView, Feeds
<1>2. ASSUME NEW tx \in f.view \cap Window(g), f.index = Position(tx, f.view)
      PROVE  FollowSelection(g, Window(g)) = Position(tx, Window(g))
  <2>1. f.view \in SUBSET Txs /\ tx \in f.view
    BY DEF Feeds
  <2>2. Position(tx, f.view) < Cardinality(f.view) /\ Row(f.view, Position(tx, f.view)) = tx
    BY <2>1, RowFacts
  <2>. QED  BY <1>2, <2>2 DEF FollowSelection
<1>. QED  BY <1>1, <1>2 DEF Follows

\* The same with the source mode set.
LEMMA ApplyModeFollows ==
  ASSUME NEW f \in Feeds, NEW g \in Feeds, g.view = f.view, g.index = f.index, NEW mode \in Modes
  PROVE  Follows(f, [ApplyView(g) EXCEPT !.mode = mode])
<1>1. /\ [ApplyView(g) EXCEPT !.mode = mode].view = ApplyView(g).view
      /\ [ApplyView(g) EXCEPT !.mode = mode].index = ApplyView(g).index
  BY ApplyViewFacts DEF Feeds
<1>. QED  BY <1>1, ApplyFollows DEF Follows

\* Where neither rows nor cursor change, or no row is left, there is nothing to follow.
LEMMA SameFollows ==
  ASSUME NEW f, NEW g, g.view = {} \/ (g.view = f.view /\ g.index = f.index)
  PROVE  Follows(f, g)
BY DEF Follows

\* What comes in, and polls.
LEMMA IncomingFollows ==
  ASSUME NEW f, WellKept(f), NEW ledger \in Nat, NEW txs \in SUBSET Txs
  PROVE  /\ Follows(f, LedgerStreamed(f, ledger))
         /\ Follows(f, TransactionsStreamed(f, txs))
         /\ Follows(f, Refreshed(f, ledger, txs))
         /\ Follows(f, RefreshFailed(f))
         /\ Follows(f, StreamFailed(f))
<1>. f \in Feeds /\ "stream" \in Modes /\ "poll" \in Modes
  BY DEF WellKept, Modes
<1>1. Follows(f, LedgerStreamed(f, ledger))
  <2>. DEFINE g == [f EXCEPT !.last = LastAfter(f, ledger)]
  <2>1. g \in Feeds /\ g.view = f.view /\ g.index = f.index
    BY DEF Feeds, LastAfter
  <2>. QED  BY <2>1, ApplyModeFollows DEF LedgerStreamed
<1>2. Follows(f, TransactionsStreamed(f, txs))
  <2>. DEFINE g == [f EXCEPT !.all = Merged(f, txs)]
  <2>1. g \in Feeds /\ g.view = f.view /\ g.index = f.index
    BY DEF Feeds, Merged, Newest
  <2>. QED  BY <2>1, ApplyModeFollows, SameFollows DEF TransactionsStreamed
<1>3. Follows(f, Refreshed(f, ledger, txs))
  <2>. DEFINE g == [f EXCEPT !.last = ledger, !.all = Merged(f, txs)]
  <2>1. g \in Feeds /\ g.view = f.view /\ g.index = f.index
    BY DEF Feeds, Merged, Newest
  <2>2. [f EXCEPT !.last = ledger].view = f.view /\ [f EXCEPT !.last = ledger].index = f.index
    BY DEF Feeds
  <2>. QED  BY <2>1, <2>2, ApplyModeFollows, SameFollows DEF Refreshed
<1>4. Follows(f, RefreshFailed(f))
  <2>1. RefreshFailed(f).view = {}
    BY DEF RefreshFailed, Feeds
  <2>. QED  BY <2>1, SameFollows
<1>5. Follows(f, StreamFailed(f))
  <2>1. StreamFailed(f).view = f.view /\ StreamFailed(f).index = f.index
    BY DEF StreamFailed, Feeds
  <2>. QED  BY <2>1, SameFollows
<1>. QED  BY <1>1, <1>2, <1>3, <1>4, <1>5

\* What the user changes.
LEMMA UserFollows ==
  ASSUME NEW f, WellKept(f), NEW paused \in BOOLEAN, NEW filter \in Filters, NEW delta \in Int
  PROVE  /\ Changed(f, f)
         /\ Changed(f, SetPaused(f, paused))
         /\ Changed(f, SetFilter(f, filter))
         /\ Changed(f, ShiftReplay(f, delta))
         /\ Changed(f, ApplyWatch(f, filter, paused))
<1>. f \in Feeds
  BY DEF WellKept
<1>1. ASSUME NEW g \in Feeds, g.view = f.view, g.index = f.index,
             WellKept(ApplyView(g)), Still(f, ApplyView(g))
      PROVE  Changed(f, ApplyView(g))
  BY <1>1, ApplyFollows DEF Changed
<1>2. Changed(f, f)
  BY SameFollows DEF Changed, Still
<1>3. Changed(f, SetPaused(f, paused))
  <2>. DEFINE g == [f EXCEPT !.paused = paused, !.replay = ReplayAfterPause(f, paused)]
  <2>1. g \in Feeds /\ g.view = f.view /\ g.index = f.index
    BY DEF Feeds, ReplayAfterPause
  <2>2. WellKept(SetPaused(f, paused)) /\ Still(f, SetPaused(f, paused))
    BY UserFacts
  <2>3. SetPaused(f, paused) = IF paused THEN g ELSE ApplyView(g)
    BY DEF SetPaused
  <2>. HIDE DEF g
  <2>4. CASE paused
    BY <2>1, <2>2, <2>3, <2>4, SameFollows DEF Changed
  <2>5. CASE ~ paused
    BY <2>1, <2>2, <2>3, <2>5, <1>1
  <2>. QED  BY <2>4, <2>5
<1>4. Changed(f, SetFilter(f, filter))
  <2>. DEFINE g == [f EXCEPT !.filter = filter, !.replay = 0]
  <2>1. g \in Feeds /\ g.view = f.view /\ g.index = f.index
    BY DEF Feeds
  <2>2. WellKept(ApplyView(g)) /\ Still(f, ApplyView(g))
    BY UserFacts DEF SetFilter
  <2>. QED  BY <2>1, <2>2, <1>1 DEF SetFilter
<1>5. Changed(f, ShiftReplay(f, delta))
  <2>1. CASE f.paused /\ ReplayShifted(f, delta) # f.replay
    <3>. DEFINE g == [f EXCEPT !.replay = ReplayShifted(f, delta)]
    <3>1. ReplayShifted(f, delta) \in Nat
      <4>1. Filtered(f) \in SUBSET Txs /\ f.replay + delta \in Int
        BY DEF Filtered, Feeds
      <4>. QED  BY <4>1, ClampIndexFacts DEF ReplayShifted
    <3>2. g \in Feeds /\ g.view = f.view /\ g.index = f.index
      BY <3>1 DEF Feeds
    <3>3. ShiftReplay(f, delta) = ApplyView(g)
      BY <2>1 DEF ShiftReplay
    <3>4. WellKept(ApplyView(g)) /\ Still(f, ApplyView(g))
      BY <3>3, UserFacts
    <3>. QED  BY <3>2, <3>3, <3>4, <1>1
  <2>2. CASE ~ (f.paused /\ ReplayShifted(f, delta) # f.replay)
    BY <2>2, <1>2 DEF ShiftReplay
  <2>. QED  BY <2>1, <2>2
<1>6. Changed(f, ApplyWatch(f, filter, paused))
  <2>. DEFINE g == [f EXCEPT !.filter = filter, !.paused = paused, !.replay = 0]
  <2>1. g \in Feeds /\ g.view = f.view /\ g.index = f.index
    BY DEF Feeds
  <2>2. WellKept(ApplyView(g)) /\ Still(f, ApplyView(g))
    BY UserFacts DEF ApplyWatch
  <2>. QED  BY <2>1, <2>2, <1>1 DEF ApplyWatch
<1>. QED  BY <1>2, <1>3, <1>4, <1>5, <1>6

\* A change by the user with the poll that follows it.  A row that is there
\* before the change and after the poll is there in between.
LEMMA PollFollows ==
  ASSUME NEW f, WellKept(f), NEW h, Changed(f, h), tip \in Txs, h.last <= MaxTx,
         NEW g \in RefreshLiveScreen(h)
  PROVE  Follows(f, g)
<1>1. WellKept(h) /\ h \in Feeds /\ Follows(f, h) /\ Still(f, h) /\ f \in Feeds
  BY DEF Changed, WellKept
<1>2. CASE g = h
  BY <1>1, <1>2
<1>3. CASE g = RefreshFailed(h)
  <2>1. g.view = {}
    BY <1>1, <1>3 DEF RefreshFailed, Feeds
  <2>. QED  BY <2>1, SameFollows
<1>4. ASSUME ~ h.paused, NEW summary \in Summaries, g = PollAnswered(h, summary)
      PROVE  Follows(f, g)
  <2>1. summary.txs \in SUBSET Txs /\ summary.ledger \in Nat
    BY SummaryFacts
  <2>2. Follows(h, g)
    BY <1>1, <1>4, <2>1, IncomingFollows DEF PollAnswered
  <2>3. ASSUME NEW tx \in f.view \cap g.view PROVE tx \in h.view
    <3>1. CASE h.view = f.view
      BY <3>1
    <3>2. CASE h.view = Window(h)
      <4>1. tx \in h.all
        BY <1>1 DEF WellKept, Window, Filtered, Still
      <4>2. Matches(tx, g.filter)
        <5>1. WellKept(g)
          BY <1>1, RefreshStep
        <5>. QED  BY <5>1 DEF WellKept, Window, Filtered
      <4>3. g.filter = h.filter
        BY <1>1, <1>4, PollKeepsFilter
      <4>4. Position(tx, Filtered(h)) \in Nat
        BY <1>1, ListFacts DEF Filtered, Feeds
      <4>. QED  BY <1>4, <3>2, <4>1, <4>2, <4>3, <4>4 DEF Window, ReplayStart, Filtered
    <3>. QED  BY <3>1, <3>2 DEF Changed
  <2>. QED  BY <1>1, <2>2, <2>3 DEF Follows
<1>5. CASE h.paused
  BY <1>2, <1>5 DEF RefreshLiveScreen
<1>. QED  BY <1>2, <1>3, <1>4, <1>5, PolledIs

\* A step of the runtime or of the user.
LEMMA RuntimeFollows ==
  ASSUME LInv, Runtime
  PROVE  Follows(feed, feed')
<1>. WellKept(feed) /\ feed.last <= MaxTx /\ tip \in Txs
  BY DEF LInv
<1>1. CASE HandleUpdate
  <2>1. CASE screen = "live_feed" /\ ~ feed.paused
    <3>. DEFINE ledger == LedgerOf(Head(updates))
    <3>1. feed' = Streamed(Head(updates)) /\ updates # << >>
      BY <1>1, <2>1 DEF HandleUpdate
    <3>2. ledger \in Nat /\ {ledger} \in SUBSET Txs
      <4>1. tip \in Nat /\ tip <= MaxTx /\ MaxTx \in Nat /\ sent \in Nat /\ sent <= 2 * tip
        BY MaxTxAssumption DEF LInv, Txs
      <4>2. Head(updates) \in 1 .. sent
        BY <3>1 DEF LInv
      <4>. QED  BY <4>1, <4>2 DEF LedgerOf, Txs
    <3>. QED  BY <3>1, <3>2, IncomingFollows DEF Streamed
  <2>2. CASE ~ (screen = "live_feed" /\ ~ feed.paused)
    <3>1. feed' = feed
      BY <1>1, <2>2 DEF HandleUpdate
    <3>. QED  BY <3>1, SameFollows
  <2>. QED  BY <2>1, <2>2
<1>2. CASE HandleError
  <2>1. feed' = StreamFailed(feed) /\ 0 \in Nat /\ {} \in SUBSET Txs
    BY <1>2 DEF HandleError
  <2>. QED  BY <2>1, IncomingFollows
<1>3. CASE Tick
  <2>1. feed' \in RefreshLiveScreen(feed)
    BY <1>3 DEF Tick
  <2>2. Changed(feed, feed)
    BY SameFollows DEF Changed, Still
  <2>. QED  BY <2>1, <2>2, PollFollows
<1>. QED  BY <1>1, <1>2, <1>3 DEF Runtime

LEMMA UserStepFollows ==
  ASSUME LInv, User
  PROVE  Follows(feed, feed') \/ ContextUsed \/ watchApplied' # watchApplied
<1>0. 1 \in Int /\ -1 \in Int /\ TRUE \in BOOLEAN /\ "all" \in Filters
  BY DEF Filters
<1>. WellKept(feed) /\ feed.last <= MaxTx /\ tip \in Txs
  BY DEF LInv
<1>1. Changed(feed, feed)
  BY SameFollows DEF Changed, Still
<1>2. ASSUME NEW h, Changed(feed, h), feed' \in RefreshLiveScreen(h) \cup {h}
      PROVE  Follows(feed, feed')
  <2>1. h.last <= MaxTx
    BY <1>2 DEF Changed, Still
  <2>2. CASE feed' = h
    BY <1>2, <2>2 DEF Changed
  <2>. QED  BY <1>2, <2>1, <2>2, PollFollows
<1>3. ASSUME NEW h \in WatchEffects(feed) PROVE Changed(feed, h)
  BY <1>0, UserFollows, PresetsAssumption DEF WatchEffects
<1>4. ASSUME NEW paused \in BOOLEAN, NEW filter \in Filters
      PROVE  Changed(feed, SetPaused(feed, paused)) /\ Changed(feed, SetFilter(feed, filter))
  BY <1>0, UserFollows
<1>5. ASSUME NEW h, Changed(feed, h), AfterLiveCommand(h), watchApplied' = watchApplied
      PROVE  Follows(feed, feed')
  <2>1. PICK w \in Watched(h) : feed' \in RefreshLiveScreen(w.feed) /\ watchApplied' = w.applied
    BY <1>5 DEF AfterLiveCommand
  <2>2. w.feed = h
    <3>1. CASE w = [feed |-> h, applied |-> watchApplied]
      BY <3>1
    <3>2. CASE \E g \in {k \in WatchEffects(h) : ~ watchApplied} : w = [feed |-> g, applied |-> TRUE]
      BY <1>5, <2>1, <3>2
    <3>. QED  BY <3>1, <3>2 DEF Watched
  <2>. QED  BY <1>2, <1>5, <2>1, <2>2
<1>6. CASE FeedKey
  <2>1. feed' \in KeyEffects(feed)
    BY <1>6 DEF FeedKey
  <2>2. CASE feed' \in RefreshLiveScreen(feed)
    BY <1>1, <1>2, <2>2
  <2>3. CASE feed' \notin RefreshLiveScreen(feed)
    <3>1. (~ feed.paused) \in BOOLEAN /\ NextFilter(feed.filter) \in Filters
      BY DEF NextFilter, Filters
    <3>2. Changed(feed, feed')
      BY <1>0, <2>1, <2>3, <3>1, UserFollows DEF KeyEffects
    <3>. QED  BY <1>2, <3>2
  <2>. QED  BY <2>2, <2>3
<1>7. CASE MoveKey \/ LeaveKey \/ OpenRow
  <2>1. feed' = feed
    BY <1>7 DEF MoveKey, LineKey, MoveTo, LeaveKey, OpenRow
  <2>. QED  BY <2>1, SameFollows
<1>8. CASE Back
  <2>1. feed' \in {Returned(feed)} \cup RefreshLiveScreen(Returned(feed)) /\ monitoring' = {}
    BY <1>8 DEF Back
  <2>2. monitoring = {} => Returned(feed) = feed
    BY DEF Returned
  <2>. QED  BY <1>1, <1>2, <2>1, <2>2 DEF ContextUsed
<1>9. CASE LiveKey
  <2>1. feed' \in {feed} \cup WatchEffects(feed)
    BY <1>9 DEF LiveKey, Watched
  <2>. QED  BY <1>1, <1>2, <1>3, <2>1
<1>10. CASE LiveScreenCommand
  <2>1. PICK h \in {feed} \cup {SetFilter(feed, filter) : filter \in Filters} : AfterLiveCommand(h)
    BY <1>10 DEF LiveScreenCommand
  <2>2. Changed(feed, h)
    BY <1>0, <1>1, <1>4, <2>1
  <2>. QED  BY <1>5, <2>1, <2>2
<1>11. CASE ReturnCommand
  <2>1. AfterLiveCommand(Returned(feed)) /\ monitoring' = {}
    BY <1>11 DEF ReturnCommand
  <2>2. monitoring = {} => Returned(feed) = feed
    BY DEF Returned
  <2>. QED  BY <1>1, <1>5, <2>1, <2>2 DEF ContextUsed
<1>12. CASE LiveCommand
  <2>1. PICK h \in CommandEffects(feed) :
          IF screen = "live_feed" THEN AfterLiveCommand(h) ELSE feed' = h
    BY <1>12 DEF LiveCommand
  <2>2. Changed(feed, h)
    BY <1>0, <1>4, <2>1 DEF CommandEffects
  <2>. QED  BY <1>2, <1>5, <2>1, <2>2
<1>13. CASE WatchCommand
  <2>1. PICK h \in WatchEffects(feed) : feed' \in RefreshLiveScreen(h)
    BY <1>13 DEF WatchCommand
  <2>. QED  BY <1>2, <1>3, <2>1
<1>. QED  BY <1>6, <1>7, <1>8, <1>9, <1>10, <1>11, <1>12, <1>13 DEF User

\* Whatever comes in, is filtered, paused, replayed or resumed: the cursor stays
\* on its transaction as long as there is a row for it.
THEOREM FeedCursorFollows == Spec => SelectionFollowsTransaction
<1>. DEFINE Step == \A tx \in feed.view \cap feed'.view :
       feed.index = Position(tx, feed.view) =>
         feed'.index = Position(tx, feed'.view) \/ ContextUsed \/ watchApplied' # watchApplied
<1>1. LInv /\ [Next]_vars => Step
  <2>. SUFFICES ASSUME LInv, [Next]_vars PROVE Step
    OBVIOUS
  <2>1. CASE IndexerRuns \/ Stream \/ UNCHANGED vars
    <3>1. feed' = feed
      BY <2>1, OutsideStep DEF vars, feedVars
    <3>. QED  BY <3>1
  <2>2. CASE Runtime
    BY <2>2, RuntimeFollows DEF Follows
  <2>3. CASE User
    BY <2>3, UserStepFollows DEF Follows
  <2>. QED  BY <2>1, <2>2, <2>3 DEF Next
<1>2. LInv /\ [Next]_vars => [Step]_vars
  BY <1>1
<1>. QED  BY <1>2, LInvAlways, PTL DEF Spec, SelectionFollowsTransaction

-----------------------------------------------------------------------------
(* The way back from a transaction.                                         *)

Selected(all, filter) == {tx \in all : Matches(tx, filter)}

\* The transaction that was opened is not displaced by older ones, and not above
\* the replay window that was open then.
Findable(c, all) ==
  c.tx # 0 =>
    /\ c.tx \in Txs /\ Matches(c.tx, c.filter) /\ Kept(all, c.tx)
    /\ c.tx \in all => Position(c.tx, Selected(all, c.filter)) >= c.replay

ReturnInv ==
  /\ \A c, d \in monitoring : c = d
  /\ \A c \in monitoring : Findable(c, feed.all)

\* Every row number below the length of a list has its row: the numbers of the
\* rows differ, and there are as many as rows.
LEMMA RowExists ==
  ASSUME NEW list \in SUBSET Txs, NEW i \in Nat, i < Cardinality(list)
  PROVE  Row(list, i) \in list /\ Position(Row(list, i), list) = i
<1>1. SUFFICES ASSUME \A tx \in list : Position(tx, list) # i PROVE FALSE
  BY DEF Row
<1>. DEFINE numbers == (0 .. Cardinality(list) - 1) \ {i}
<1>. DEFINE number == [tx \in list |-> Position(tx, list)]
<1>2. IsFiniteSet(list) /\ Cardinality(list) \in Nat
  BY FiniteList, FS_CardinalityType
<1>3. IsFiniteSet(numbers) /\ Cardinality(numbers) < Cardinality(list)
  <2>. DEFINE last == Cardinality(list) - 1
  <2>1. 0 \in Int /\ last \in Int /\ ~ 0 > last /\ last - 0 + 1 = Cardinality(list)
    BY <1>2
  <2>2. i \in 0 .. last
    BY <1>2
  <2>. HIDE DEF last
  <2>3. IsFiniteSet(0 .. last) /\ Cardinality(0 .. last) = Cardinality(list)
    BY <2>1, FS_Interval
  <2>4. /\ IsFiniteSet((0 .. last) \ {i})
        /\ Cardinality((0 .. last) \ {i}) = Cardinality(list) - 1
    BY <2>2, <2>3, FS_RemoveElement
  <2>. QED  BY <1>2, <2>4 DEF last
<1>4. number \in [list -> numbers]
  <2>1. ASSUME NEW tx \in list PROVE Position(tx, list) \in numbers
    BY <1>1, <1>2, ListFacts, RowFacts
  <2>. QED  BY <2>1
<1>5. PICK a \in list, b \in list : a # b /\ number[a] = number[b]
  <2>. HIDE DEF number, numbers
  <2>. QED  BY <1>2, <1>3, <1>4, FS_PigeonHole
<1>6. Row(list, Position(a, list)) = a /\ Row(list, Position(b, list)) = b
  BY RowFacts
<1>. QED  BY <1>5, <1>6

\* A transaction that was displaced does not come back, and one that is kept
\* keeps those above it.
LEMMA MergedBelow ==
  ASSUME NEW f, f.all \in SUBSET Txs, NEW txs \in SUBSET Txs, NEW tx \in Txs,
         Kept(f.all, tx), tx \in Merged(f, txs)
  PROVE  tx \in f.all /\ \A newer \in f.all : newer > tx => newer \in Merged(f, txs)
<1>. DEFINE S == f.all \cup txs
<1>0. S \in SUBSET Txs
  OBVIOUS
<1>1. S \in SUBSET Txs /\ tx \in Int
  BY <1>0 DEF Txs
<1>2. Position(tx, S) < Scrollback /\ Position(tx, S) \in Nat
  BY <1>1, ListFacts DEF Merged, Newest
<1>3. ASSUME NEW list \in SUBSET S, NEW m \in Int, m >= tx
      PROVE  Position(m, list) <= Position(tx, S)
  <2>1. \A o \in S : o \in Int
    BY <1>1 DEF Txs
  <2>2. ASSUME NEW o \in list, o > m PROVE o \in S /\ o > tx
    BY <1>1, <1>3, <2>1, <2>2
  <2>3. /\ {o \in list : o > m} \in SUBSET {o \in S : o > tx}
        /\ {o \in S : o > tx} \in SUBSET Txs
    BY <1>1, <2>2
  <2>. QED  BY <2>3, FiniteList, FS_Subset DEF Position
<1>4. tx \in f.all
  <2>1. Position(tx, f.all) <= Position(tx, S) /\ Position(tx, f.all) \in Nat
    <3>1. f.all \in SUBSET S /\ tx >= tx
      BY <1>1
    <3>. QED  BY <1>1, <1>3, <3>1, ListFacts
  <2>. QED  BY <1>2, <2>1, ScrollbackAssumption DEF Kept
<1>5. ASSUME NEW newer \in f.all, newer > tx PROVE newer \in Merged(f, txs)
  <2>1. newer \in Int /\ newer >= tx
    BY <1>1, <1>5 DEF Txs
  <2>2. Position(newer, S) <= Position(tx, S) /\ Position(newer, S) \in Nat
    BY <1>1, <1>3, <2>1, ListFacts
  <2>. QED  BY <1>2, <2>2, ScrollbackAssumption DEF Merged, Newest
<1>. QED  BY <1>4, <1>5

\* What is taken in leaves the opened transaction where it can be found.
LEMMA FindableStays ==
  ASSUME NEW f, f.all \in SUBSET Txs, NEW txs \in SUBSET Txs,
         NEW c, c.replay \in Nat, Findable(c, f.all)
  PROVE  Findable(c, Merged(f, txs))
<1>. SUFFICES ASSUME c.tx # 0 PROVE Findable(c, Merged(f, txs))
  BY DEF Findable
<1>1. c.tx \in Txs /\ Matches(c.tx, c.filter) /\ Kept(f.all, c.tx)
  BY DEF Findable
<1>2. Kept(Merged(f, txs), c.tx)
  BY <1>1, MergedFacts
<1>3. ASSUME c.tx \in Merged(f, txs)
      PROVE  Position(c.tx, Selected(Merged(f, txs), c.filter)) >= c.replay
  <2>1. c.tx \in f.all /\ \A newer \in f.all : newer > c.tx => newer \in Merged(f, txs)
    BY <1>1, <1>3, MergedBelow
  <2>2. Position(c.tx, Selected(f.all, c.filter)) >= c.replay
    BY <2>1 DEF Findable
  <2>3. /\ {o \in Selected(f.all, c.filter) : o > c.tx}
             \in SUBSET {o \in Selected(Merged(f, txs), c.filter) : o > c.tx}
        /\ {o \in Selected(Merged(f, txs), c.filter) : o > c.tx} \in SUBSET Txs
    BY <2>1 DEF Selected, Merged, Newest
  <2>4. Position(c.tx, Selected(f.all, c.filter))
          <= Position(c.tx, Selected(Merged(f, txs), c.filter))
    BY <2>3, FiniteList, FS_Subset DEF Position
  <2>5. /\ Position(c.tx, Selected(f.all, c.filter)) \in Nat
        /\ Position(c.tx, Selected(Merged(f, txs), c.filter)) \in Nat
    BY ListFacts DEF Selected, Merged, Newest
  <2>. QED  BY <2>2, <2>4, <2>5
<1>. QED  BY <1>1, <1>2, <1>3 DEF Findable

\* When a row is opened its transaction can be found.
LEMMA CapturedFindable ==
  ASSUME NEW f, WellKept(f), NEW row \in Nat
  PROVE  Findable(Captured(f, row), f.all)
<1>. DEFINE c == Captured(f, row)
<1>1. f.view \in SUBSET Txs /\ f.all \in SUBSET Txs /\ f.replay \in Nat
  BY DEF WellKept, Feeds
<1>2. CASE row < Cardinality(f.view)
  <2>1. c.tx = Row(f.view, row) /\ c.filter = f.filter /\ c.replay = f.replay
    BY <1>2 DEF Captured
  <2>2. c.tx \in f.view
    BY <1>1, <1>2, <2>1, RowExists
  <2>3. f.view = Window(f) /\ f.replay = ReplayStart(f)
    BY <2>2 DEF WellKept
  <2>4. c.tx \in Filtered(f) /\ Position(c.tx, Filtered(f)) >= f.replay
    BY <2>2, <2>3 DEF Window
  <2>5. Filtered(f) = Selected(f.all, f.filter)
    BY DEF Filtered, Selected
  <2>6. c.tx \in f.all /\ Matches(c.tx, f.filter) /\ c.tx \in Txs
    BY <1>1, <2>4 DEF Filtered
  <2>7. Position(c.tx, Selected(f.all, c.filter)) >= c.replay
    BY <2>1, <2>4, <2>5
  <2>8. c.tx \in Txs /\ Matches(c.tx, c.filter) /\ Kept(f.all, c.tx)
    BY <2>1, <2>6 DEF Kept
  <2>. QED  BY <2>7, <2>8 DEF Findable
<1>3. CASE ~ row < Cardinality(f.view)
  <2>1. c.tx = 0
    BY <1>3 DEF Captured
  <2>. QED  BY <2>1 DEF Findable
<1>. QED  BY <1>2, <1>3

\* What the way back and the poll after it make of the cursor.
LEMMA ReturnStep ==
  ASSUME NEW f, WellKept(f), f.last <= MaxTx, tip \in Txs,
         NEW c, GoodContext(c), Findable(c, f.all),
         NEW g \in RefreshLiveScreen(ContextRestored(f, c)) \cup {ContextRestored(f, c)},
         g.view # {}, c.tx \in g.all
  PROVE  c.tx \in g.view /\ g.index = Position(c.tx, g.view)
<1>. DEFINE h == ContextRestored(f, c)
<1>. DEFINE k == [f EXCEPT !.filter = c.filter, !.paused = c.paused, !.replay = c.replay]
<1>1. WellKept(h) /\ Still(f, h) /\ h.all = f.all /\ h.last <= MaxTx
  BY ContextFacts DEF Still
<1>2. k \in Feeds /\ k.all = f.all /\ k.filter = c.filter /\ k.paused = c.paused /\ k.replay = c.replay
  BY DEF GoodContext, WellKept, Feeds
<1>3. h.filter = c.filter /\ h.paused = c.paused /\ h.view = Window(k) /\ h.index = RowOf(c, Window(k))
  <2>1. ApplyView(k) \in Feeds
    BY <1>2, ApplyViewFacts
  <2>2. /\ ApplyView(k).filter = c.filter /\ ApplyView(k).paused = c.paused
        /\ ApplyView(k).view = Window(k)
    BY <1>2 DEF ApplyView, Feeds
  <2>3. h = [ApplyView(k) EXCEPT !.index = RowOf(c, Window(k))]
    BY <2>2 DEF ContextRestored
  <2>. HIDE DEF h, k
  <2>. QED  BY <2>1, <2>2, <2>3 DEF Feeds
<1>. HIDE DEF h, k
<1>4. g \in RefreshLiveScreen(h) \cup {h} /\ f.all \in SUBSET Txs /\ g.all \in SUBSET Txs
  <2>1. g \in RefreshLiveScreen(h) \cup {h}
    BY DEF h
  <2>2. WellKept(g)
    BY <1>1, <2>1, RefreshStep
  <2>. QED  BY <2>1, <2>2 DEF WellKept, Feeds
<1>5. c.tx # 0 /\ c.tx \in Txs /\ Kept(f.all, c.tx) /\ Matches(c.tx, c.filter)
  BY <1>4 DEF Txs, Findable
<1>6. c.tx \in f.all
  <2>1. CASE g = h
    BY <1>1, <2>1
  <2>2. CASE g \in RefreshLiveScreen(h)
    <3>1. g.all = h.all \/ \E txs \in SUBSET Txs : g.all = Merged(h, txs)
      BY <1>1, <2>2, RefreshStep DEF TakesIn
    <3>. QED  BY <1>1, <1>4, <1>5, <3>1, MergedBelow
  <2>. QED  BY <1>4, <2>1, <2>2
<1>7. c.tx \in h.view /\ h.index = Position(c.tx, h.view)
  <2>1. Filtered(k) = Selected(f.all, c.filter)
    BY <1>2 DEF Filtered, Selected
  <2>2. c.tx \in Filtered(k) /\ Position(c.tx, Filtered(k)) >= c.replay
    BY <1>5, <1>6, <2>1 DEF Findable, Selected
  <2>3. ReplayStart(k) \in Nat /\ ReplayStart(k) <= c.replay
    <3>1. Filtered(k) \in SUBSET Txs /\ c.replay \in Nat
      BY <1>4, <2>1 DEF Selected, GoodContext
    <3>2. Cardinality(Filtered(k)) \in Nat /\ (Filtered(k) # {} => Cardinality(Filtered(k)) > 0)
      BY <3>1, ListFacts
    <3>3. ClampIndex(c.replay, Filtered(k)) \in Nat /\ ClampIndex(c.replay, Filtered(k)) <= c.replay
      BY <3>1, <3>2 DEF ClampIndex
    <3>. QED  BY <1>2, <3>1, <3>3 DEF ReplayStart
  <2>4. Position(c.tx, Filtered(k)) \in Nat /\ c.replay \in Nat
    BY <1>4, <2>1, ListFacts DEF Selected, GoodContext
  <2>5. c.tx \in Window(k)
    BY <2>2, <2>3, <2>4 DEF Window
  <2>. QED  BY <1>3, <2>5 DEF RowOf
<1>8. CASE g = h
  BY <1>7, <1>8
<1>9. CASE g = RefreshFailed(h)
  <2>1. g.view = {}
    BY <1>1, <1>9 DEF RefreshFailed, WellKept, Feeds
  <2>. QED  BY <2>1
<1>10. ASSUME ~ h.paused, NEW summary \in Summaries, g = PollAnswered(h, summary)
       PROVE  c.tx \in g.view /\ g.index = Position(c.tx, g.view)
  <2>1. g \in RefreshLiveScreen(h)
    BY <1>10 DEF RefreshLiveScreen
  <2>2. Follows(h, g)
    <3>1. Changed(h, h)
      BY <1>1, SameFollows DEF Changed, Still
    <3>. QED  BY <1>1, <2>1, <3>1, PollFollows
  <2>3. g.view = Window(g) /\ g.filter = c.filter /\ ~ g.paused
    <3>1. WellKept(g)
      BY <1>1, <2>1, RefreshStep
    <3>2. h \in Feeds
      BY <1>1 DEF WellKept
    <3>. QED  BY <1>3, <1>10, <3>1, <3>2, PollKeepsFilter DEF WellKept
  <2>4. Position(c.tx, Filtered(g)) \in Nat
    BY <1>4, ListFacts DEF Filtered
  <2>5. c.tx \in g.view
    BY <1>5, <2>3, <2>4 DEF Window, Filtered, ReplayStart
  <2>. QED  BY <1>7, <2>2, <2>5 DEF Follows
<1>11. CASE h.paused
  BY <1>4, <1>8, <1>11 DEF RefreshLiveScreen
<1>. QED  BY <1>4, <1>8, <1>9, <1>10, <1>11, PolledIs

\* Only one row's context is kept at a time, and it stays findable.
LEMMA ReturnInvNext ==
  ASSUME LInv, ReturnInv, [Next]_vars
  PROVE  ReturnInv'
<1>1. TakesIn(feed, feed') /\ feed.all \in SUBSET Txs
  BY LInvNext DEF GoodStep, LInv, WellKept, Feeds
<1>2. ASSUME NEW c \in monitoring PROVE Findable(c, feed'.all)
  <2>1. Findable(c, feed.all) /\ c.replay \in Nat
    BY DEF ReturnInv, LInv, GoodContext
  <2>. QED  BY <1>1, <2>1, FindableStays DEF TakesIn
<1>3. CASE monitoring' \in {monitoring, {}}
  BY <1>2, <1>3 DEF ReturnInv
<1>4. CASE OpenRow
  <2>1. monitoring' = {Captured(feed, MarkedRow)} /\ feed' = feed
    BY <1>4 DEF OpenRow
  <2>2. MarkedRow \in Nat
    <3>1. feed.view \in SUBSET Txs /\ feed.index \in Int /\ selected \in Int
      BY DEF LInv, WellKept, Feeds
    <3>. QED  BY <3>1, ClampIndexFacts DEF MarkedRow, WithSnapshot
  <2>3. Findable(Captured(feed, MarkedRow), feed.all)
    BY <2>2, CapturedFindable DEF LInv
  <2>. QED  BY <2>1, <2>3 DEF ReturnInv
<1>5. ~ OpenRow => monitoring' \in {monitoring, {}}
  BY DEF Next, User, FeedKey, MoveKey, LineKey, MoveTo, LeaveKey, Back, LiveKey, LiveScreenCommand,
         ReturnCommand, LiveCommand, WatchCommand, IndexerRuns, Stream, Runtime, HandleUpdate,
         HandleError, Tick, vars, feedVars, contextVars
<1>. QED  BY <1>3, <1>4, <1>5

\* Whatever was added, filtered, paused or resumed in the meantime, whoever comes
\* back from a transaction finds the cursor on it if it is still kept.
THEOREM FeedReturnsToTransaction == Spec => ReturnFindsTransaction
<1>. DEFINE Step ==
       ContextUsed /\ watchApplied' = watchApplied /\ feed'.view # {} =>
         \A c \in monitoring :
           c.tx \in feed'.all => c.tx \in feed'.view /\ feed'.index = Position(c.tx, feed'.view)
<1>1. Init => ReturnInv
  BY DEF Init, ReturnInv
<1>2. LInv /\ ReturnInv /\ [Next]_vars => ReturnInv'
  BY ReturnInvNext
<1>3. LInv /\ ReturnInv /\ [Next]_vars => [Step]_vars
  <2>. SUFFICES ASSUME LInv, ReturnInv, [Next]_vars, ContextUsed, watchApplied' = watchApplied,
                       feed'.view # {}, NEW c \in monitoring, c.tx \in feed'.all
                PROVE  c.tx \in feed'.view /\ feed'.index = Position(c.tx, feed'.view)
    OBVIOUS
  <2>1. Back \/ ReturnCommand
    BY DEF ContextUsed, Next, User, FeedKey, MoveKey, LineKey, MoveTo, OpenRow, LeaveKey, LiveKey,
           LiveScreenCommand, LiveCommand, WatchCommand, IndexerRuns, Stream, Runtime,
           HandleUpdate, HandleError, Tick, vars, feedVars, contextVars
  <2>2. Returned(feed) = ContextRestored(feed, c)
    BY DEF Returned, ReturnInv
  <2>3. feed' \in RefreshLiveScreen(Returned(feed)) \cup {Returned(feed)}
    <3>1. CASE Back
      BY <3>1 DEF Back
    <3>2. CASE ReturnCommand
      <4>1. PICK w \in Watched(Returned(feed)) :
              feed' \in RefreshLiveScreen(w.feed) /\ watchApplied' = w.applied
        BY <3>2 DEF ReturnCommand, AfterLiveCommand
      <4>2. w.feed = Returned(feed)
        BY <4>1 DEF Watched
      <4>. QED  BY <4>1, <4>2
    <3>. QED  BY <2>1, <3>1, <3>2
  <2>4. /\ WellKept(feed) /\ feed.last <= MaxTx /\ tip \in Txs
        /\ GoodContext(c) /\ Findable(c, feed.all)
    BY DEF LInv, ReturnInv
  <2>. QED  BY <2>2, <2>3, <2>4, ReturnStep
<1>. HIDE DEF Step
<1>4. Spec => [][Step]_vars
  BY <1>1, <1>2, <1>3, LInvAlways, PTL DEF Spec
<1>. QED  BY <1>4 DEF Step, ReturnFindsTransaction

-----------------------------------------------------------------------------
(* The type invariant.  Row numbers are bounded because lists are: no more  *)
(* than Scrollback rows are kept.                                           *)

\* What is cut to n rows has no more: their numbers differ and are below n.
LEMMA NewestFew ==
  ASSUME NEW list \in SUBSET Txs, NEW n \in Nat
  PROVE  Cardinality(Newest(list, n)) <= n
<1>. DEFINE S == Newest(list, n)
            number == [tx \in S |-> Position(tx, list)]
            numbers == 0 .. n - 1
<1>1. S \in SUBSET Txs /\ S \subseteq list
  BY DEF Newest
<1>2. IsFiniteSet(S) /\ Cardinality(S) \in Nat
  BY <1>1, FiniteList, FS_CardinalityType
<1>3. IsFiniteSet(numbers) /\ Cardinality(numbers) = n
  <2>1. 0 \in Int /\ n - 1 \in Int /\ (0 > n - 1 => n = 0)
    OBVIOUS
  <2>. QED  BY <2>1, FS_Interval
<1>4. number \in [S -> numbers]
  <2>1. ASSUME NEW tx \in S PROVE Position(tx, list) \in numbers
    BY ListFacts DEF Newest
  <2>. QED  BY <2>1
<1>5. SUFFICES ASSUME n < Cardinality(S) PROVE FALSE
  BY <1>2
<1>6. PICK a \in S, b \in S : a # b /\ number[a] = number[b]
  <2>. HIDE DEF number, numbers, S
  <2>. QED  BY <1>2, <1>3, <1>4, <1>5, FS_PigeonHole
<1>7. Row(list, Position(a, list)) = a /\ Row(list, Position(b, list)) = b
  BY <1>1, RowFacts
<1>. QED  BY <1>6, <1>7

FewRows(list) == list \in SUBSET Txs /\ Cardinality(list) <= Scrollback

\* Part of a short list is short, and its row numbers are below Scrollback.
LEMMA FewRowsFacts ==
  ASSUME NEW list, FewRows(list), NEW part \in SUBSET list
  PROVE  /\ FewRows(part)
         /\ \A i \in Int : ClampIndex(i, part) \in 0 .. Scrollback - 1
         /\ \A tx \in part : Position(tx, part) \in 0 .. Scrollback - 1
<1>0. Scrollback \in Nat \ {0} /\ list \in SUBSET Txs /\ part \in SUBSET Txs
  BY ScrollbackAssumption DEF FewRows
<1>1. IsFiniteSet(list) /\ Cardinality(list) \in Nat /\ Cardinality(part) \in Nat
  BY <1>0, FiniteList, FS_CardinalityType
<1>2. Cardinality(part) <= Cardinality(list)
  BY <1>1, FS_Subset
<1>3. Cardinality(part) <= Scrollback
  BY <1>0, <1>1, <1>2 DEF FewRows
<1>4. ASSUME NEW i \in Int PROVE ClampIndex(i, part) \in 0 .. Scrollback - 1
  <2>1. part # {} => Cardinality(part) > 0
    BY <1>0, ListFacts
  <2>. QED  BY <1>0, <1>1, <1>3, <2>1 DEF ClampIndex
<1>5. ASSUME NEW tx \in part PROVE Position(tx, part) \in 0 .. Scrollback - 1
  <2>1. Position(tx, part) \in Nat /\ Position(tx, part) < Cardinality(part)
    BY <1>0, ListFacts, RowFacts
  <2>. QED  BY <1>0, <1>1, <1>3, <2>1
<1>. QED  BY <1>0, <1>3, <1>4, <1>5 DEF FewRows

\* A feed with few rows whose cursor is on one of them, or at the first row.
Low(f) == f \in Feeds /\ FewRows(f.all) /\ f.index < Scrollback

LEMMA ApplyLow ==
  ASSUME NEW f \in Feeds, FewRows(f.all)
  PROVE  Low(ApplyView(f))
<1>1. Window(f) \in SUBSET f.all
  BY DEF Window, Filtered
<1>2. FollowSelection(f, Window(f)) \in 0 .. Scrollback - 1
  <2>1. f.index \in Int
    BY DEF Feeds
  <2>. QED  BY <1>1, <2>1, FewRowsFacts DEF FollowSelection
<1>3. ApplyView(f) \in Feeds /\ ApplyView(f).all = f.all
  BY ApplyViewFacts DEF Still
<1>4. ApplyView(f).index = FollowSelection(f, Window(f))
  BY DEF ApplyView, Feeds
<1>. QED  BY <1>2, <1>3, <1>4, ScrollbackAssumption DEF Low

\* What is merged is cut to Scrollback rows.
LEMMA MergedFew ==
  ASSUME NEW f \in Feeds, NEW txs \in SUBSET Txs
  PROVE  FewRows(Merged(f, txs))
<1>1. f.all \cup txs \in SUBSET Txs
  BY DEF Feeds
<1>2. Cardinality(Newest(f.all \cup txs, Scrollback)) <= Scrollback
  BY <1>1, NewestFew, ScrollbackAssumption
<1>. QED  BY <1>1, <1>2 DEF FewRows, Merged, Newest

\* What comes in, and what a poll brings.
LEMMA IncomingLow ==
  ASSUME NEW f, Low(f), NEW ledger \in Nat, NEW txs \in SUBSET Txs
  PROVE  /\ Low(LedgerStreamed(f, ledger))
         /\ Low(TransactionsStreamed(f, txs))
         /\ Low(Refreshed(f, ledger, txs))
         /\ Low(RefreshFailed(f))
         /\ Low(StreamFailed(f))
<1>0. f \in Feeds /\ FewRows(f.all) /\ f.index < Scrollback
  BY DEF Low
<1>1. ASSUME NEW g, Low(g), NEW mode \in Modes PROVE Low([g EXCEPT !.mode = mode])
  BY <1>1 DEF Low, Feeds
<1>2. "stream" \in Modes /\ "poll" \in Modes /\ "degraded" \in Modes
  BY DEF Modes
<1>3. Low(LedgerStreamed(f, ledger))
  <2>. DEFINE g == [f EXCEPT !.last = LastAfter(f, ledger)]
  <2>1. g \in Feeds /\ g.all = f.all
    BY <1>0 DEF Feeds, LastAfter
  <2>. QED  BY <1>0, <1>1, <1>2, <2>1, ApplyLow DEF LedgerStreamed
<1>4. Low(TransactionsStreamed(f, txs))
  <2>. DEFINE g == [f EXCEPT !.all = Merged(f, txs)]
  <2>1. g \in Feeds /\ g.all = Merged(f, txs)
    BY <1>0, MergedFew DEF Feeds, FewRows
  <2>2. Low(ApplyView(g))
    BY <1>0, <2>1, MergedFew, ApplyLow
  <2>. QED  BY <1>1, <1>2, <2>2 DEF TransactionsStreamed
<1>5. Low(Refreshed(f, ledger, txs))
  <2>. DEFINE g == [f EXCEPT !.last = ledger, !.all = Merged(f, txs)]
  <2>1. g \in Feeds /\ g.all = Merged(f, txs)
    BY <1>0, MergedFew DEF Feeds, FewRows
  <2>2. Low(ApplyView(g))
    BY <1>0, <2>1, MergedFew, ApplyLow
  <2>3. Low([f EXCEPT !.last = ledger])
    BY <1>0 DEF Low, Feeds
  <2>. QED  BY <1>1, <1>2, <2>2, <2>3 DEF Refreshed
<1>6. Low(RefreshFailed(f))
  BY <1>0 DEF RefreshFailed, Low, Feeds
<1>7. Low(StreamFailed(f))
  BY <1>1, <1>2 DEF StreamFailed
<1>. QED  BY <1>3, <1>4, <1>5, <1>6, <1>7

\* What the user does, and putting back a context.
LEMMA UserLow ==
  ASSUME NEW f, Low(f), NEW paused \in BOOLEAN, NEW filter \in Filters, NEW delta \in Int
  PROVE  /\ Low(SetPaused(f, paused))
         /\ Low(SetFilter(f, filter))
         /\ Low(ShiftReplay(f, delta))
         /\ Low(ApplyWatch(f, filter, paused))
         /\ \A c : GoodContext(c) => Low(ContextRestored(f, c))
<1>0. f \in Feeds /\ FewRows(f.all) /\ f.index < Scrollback
  BY DEF Low
<1>1. Low(SetPaused(f, paused))
  <2>. DEFINE g == [f EXCEPT !.paused = paused, !.replay = ReplayAfterPause(f, paused)]
  <2>1. g \in Feeds /\ g.all = f.all /\ g.index = f.index
    BY <1>0 DEF Feeds, ReplayAfterPause
  <2>2. Low(g) /\ Low(ApplyView(g))
    BY <1>0, <2>1, ApplyLow DEF Low
  <2>. QED  BY <2>2 DEF SetPaused
<1>2. Low(SetFilter(f, filter))
  <2>. DEFINE g == [f EXCEPT !.filter = filter, !.replay = 0]
  <2>1. g \in Feeds /\ g.all = f.all
    BY <1>0 DEF Feeds
  <2>. QED  BY <1>0, <2>1, ApplyLow DEF SetFilter
<1>3. Low(ShiftReplay(f, delta))
  <2>. DEFINE g == [f EXCEPT !.replay = ReplayShifted(f, delta)]
  <2>1. Filtered(f) \in SUBSET Txs /\ f.replay + delta \in Int
    BY <1>0 DEF Filtered, Feeds
  <2>2. ReplayShifted(f, delta) \in Nat
    BY <2>1, ClampIndexFacts DEF ReplayShifted
  <2>3. g \in Feeds /\ g.all = f.all
    BY <1>0, <2>2 DEF Feeds
  <2>. QED  BY <1>0, <2>3, ApplyLow DEF ShiftReplay
<1>4. Low(ApplyWatch(f, filter, paused))
  <2>. DEFINE g == [f EXCEPT !.filter = filter, !.paused = paused, !.replay = 0]
  <2>1. g \in Feeds /\ g.all = f.all
    BY <1>0 DEF Feeds
  <2>. QED  BY <1>0, <2>1, ApplyLow DEF ApplyWatch
<1>5. ASSUME NEW c, GoodContext(c) PROVE Low(ContextRestored(f, c))
  <2>. DEFINE g == [f EXCEPT !.filter = c.filter, !.paused = c.paused, !.replay = c.replay]
              h == ApplyView(g)
  <2>1. g \in Feeds /\ g.all = f.all
    BY <1>0, <1>5 DEF Feeds, GoodContext
  <2>2. Low(h) /\ h.view = Window(g) /\ h.all = f.all
    <3>1. h.view = Window(g)
      BY <2>1 DEF ApplyView, Feeds
    <3>. QED  BY <1>0, <2>1, <3>1, ApplyLow, ApplyViewFacts DEF Still
  <2>3. h.view \in SUBSET f.all
    BY <2>1, <2>2 DEF Window, Filtered
  <2>4. RowOf(c, h.view) \in 0 .. Scrollback - 1
    BY <1>0, <1>5, <2>3, FewRowsFacts DEF RowOf, GoodContext
  <2>5. Low([h EXCEPT !.index = RowOf(c, h.view)])
    <3>. HIDE DEF h
    <3>. QED  BY <2>2, <2>4, ScrollbackAssumption DEF Low, Feeds
  <2>. QED  BY <2>5 DEF ContextRestored
<1>. QED  BY <1>1, <1>2, <1>3, <1>4, <1>5

LEMMA RefreshLow ==
  ASSUME NEW f, Low(f), tip \in Txs, NEW g \in RefreshLiveScreen(f) \cup {f}
  PROVE  Low(g)
<1>1. ASSUME NEW summary \in Summaries PROVE Low(PollAnswered(f, summary))
  BY SummaryFacts, IncomingLow DEF PollAnswered
<1>2. Low(RefreshFailed(f))
  BY IncomingLow, 0 \in Nat, {} \in SUBSET Txs
<1>. QED  BY <1>1, <1>2 DEF RefreshLiveScreen

\* Whatever a step does, the feed keeps few rows and its cursor is low.
LEMMA FeedLow ==
  ASSUME LInv, Low(feed), [Next]_vars
  PROVE  Low(feed')
<1>0. tip \in Txs /\ Low(feed) /\ "all" \in Filters /\ TRUE \in BOOLEAN /\ 1 \in Int /\ -1 \in Int
  BY DEF LInv, Filters
<1>1. CASE feed' = feed
  BY <1>1
<1>2. CASE HandleUpdate
  <2>1. LedgerOf(Head(updates)) \in Txs
    <3>1. Head(updates) \in 1 .. sent
      BY <1>2 DEF HandleUpdate, LInv
    <3>2. tip \in Nat /\ tip <= MaxTx /\ MaxTx \in Nat /\ sent \in Nat /\ sent <= 2 * tip
      BY MaxTxAssumption DEF LInv, Txs
    <3>. QED  BY <3>1, <3>2 DEF LedgerOf, Txs
  <2>2. LedgerOf(Head(updates)) \in Nat /\ {LedgerOf(Head(updates))} \in SUBSET Txs
    BY <2>1 DEF Txs
  <2>3. Low(Streamed(Head(updates)))
    BY <1>0, <2>2, IncomingLow DEF Streamed
  <2>. QED  BY <1>1, <1>2, <2>3 DEF HandleUpdate
<1>3. CASE HandleError
  BY <1>0, <1>3, IncomingLow DEF HandleError
<1>4. CASE Tick
  BY <1>0, <1>4, RefreshLow DEF Tick
<1>5. ASSUME NEW f, Low(f) PROVE \A h \in WatchEffects(f) : Low(h)
  BY <1>0, <1>5, UserLow, PresetsAssumption DEF WatchEffects
<1>6. ASSUME NEW f, Low(f), AfterLiveCommand(f) PROVE Low(feed')
  <2>1. PICK h \in {f} \cup WatchEffects(f) : feed' \in RefreshLiveScreen(h)
    BY <1>6 DEF AfterLiveCommand, Watched
  <2>2. Low(h)
    BY <1>5, <1>6
  <2>. QED  BY <1>0, <2>1, <2>2, RefreshLow
<1>7. Low(Returned(feed))
  BY <1>0, UserLow DEF Returned, LInv
<1>8. \A filter \in Filters, paused \in BOOLEAN : Low(SetFilter(feed, filter)) /\ Low(SetPaused(feed, paused))
  BY <1>0, UserLow
<1>9. CASE FeedKey
  <2>1. NextFilter(feed.filter) \in Filters /\ (~ feed.paused) \in BOOLEAN
    BY DEF NextFilter, Filters
  <2>2. Low(ShiftReplay(feed, 1)) /\ Low(ShiftReplay(feed, -1))
    BY <1>0, UserLow
  <2>. QED  BY <1>0, <1>8, <1>9, <2>1, <2>2, RefreshLow DEF FeedKey, KeyEffects
<1>10. CASE Back
  BY <1>0, <1>7, <1>10, RefreshLow DEF Back
<1>11. CASE LiveKey
  BY <1>0, <1>5, <1>11 DEF LiveKey, Watched
<1>12. CASE LiveScreenCommand
  BY <1>0, <1>6, <1>8, <1>12 DEF LiveScreenCommand
<1>13. CASE ReturnCommand
  BY <1>6, <1>7, <1>13 DEF ReturnCommand
<1>14. CASE LiveCommand
  <2>1. PICK f \in CommandEffects(feed) :
          IF screen = "live_feed" THEN AfterLiveCommand(f) ELSE feed' = f
    BY <1>14 DEF LiveCommand
  <2>2. Low(f)
    <3>1. CASE \E paused \in BOOLEAN : f = SetPaused(feed, paused)
      BY <1>0, <1>8, <3>1
    <3>2. CASE \E filter \in Filters : f = SetFilter(feed, filter)
      BY <1>0, <1>8, <3>2
    <3>. QED  BY <2>1, <3>1, <3>2 DEF CommandEffects
  <2>. QED  BY <1>6, <2>1, <2>2
<1>15. CASE WatchCommand
  BY <1>0, <1>5, <1>15, RefreshLow DEF WatchCommand
<1>16. CASE IndexerRuns \/ Stream \/ MoveKey \/ OpenRow \/ LeaveKey \/ UNCHANGED vars
  BY <1>1, <1>16 DEF IndexerRuns, Stream, MoveKey, LineKey, MoveTo, OpenRow, LeaveKey, vars, feedVars
<1>. QED  BY <1>2, <1>3, <1>4, <1>9, <1>10, <1>11, <1>12, <1>13, <1>14, <1>15, <1>16
          DEF Next, Runtime, User

\* A feed that is well kept and has few rows has the type of a feed.
LEMMA FeedTyped ==
  ASSUME NEW f, WellKept(f), Low(f), f.last <= MaxTx
  PROVE  f \in Feed /\ f.replay \in 0 .. Scrollback - 1
<1>1. Filtered(f) \in SUBSET f.all /\ f.replay \in Int
  BY DEF Filtered, Low, Feeds
<1>2. ReplayStart(f) \in 0 .. Scrollback - 1
  <2>1. FewRows(f.all)
    BY DEF Low
  <2>2. ClampIndex(f.replay, Filtered(f)) \in 0 .. Scrollback - 1
    BY <1>1, <2>1, FewRowsFacts
  <2>. QED  BY <2>2, ScrollbackAssumption DEF ReplayStart
<1>3. f.replay \in 0 .. Scrollback - 1
  BY <1>2 DEF WellKept
<1>4. f.last \in 0 .. MaxTx /\ f.index \in 0 .. Scrollback - 1
  BY MaxTxAssumption, ScrollbackAssumption DEF Low, Feeds, Txs
<1>. QED  BY <1>3, <1>4 DEF Low, Feeds, Feed

\* The dashboard's cursor is a row number, and a context has one.
LEMMA DashboardLow ==
  ASSUME LInv, Low(feed), [Next]_vars,
         selected \in 0 .. Scrollback - 1, monitoring \subseteq Contexts
  PROVE  selected' \in 0 .. Scrollback - 1 /\ monitoring' \subseteq Contexts
<1>0. /\ FewRows(feed.all) /\ feed.view \in SUBSET feed.all
      /\ feed.index \in Int /\ selected \in Int /\ feed.replay \in 0 .. Scrollback - 1
  <2>1. feed.view \in SUBSET feed.all
    BY DEF LInv, WellKept, Window, Filtered
  <2>2. feed.replay \in 0 .. Scrollback - 1
    BY FeedTyped DEF LInv
  <2>. QED  BY <2>1, <2>2 DEF Low, Feeds
<1>1. \A i \in Int : ClampIndex(i, feed.view) \in 0 .. Scrollback - 1
  BY <1>0, FewRowsFacts
<1>2. WithSnapshot(feed) \in 0 .. Scrollback - 1
  BY <1>0, <1>1 DEF WithSnapshot
<1>3. CASE MoveKey
  <2>1. PICK row \in Int : MoveTo(row)
    <3>1. \A delta \in {-1, 1} : MarkedRow + delta \in Int /\ MarkedRow + delta * PageStep \in Int
      BY <1>2, PageStepAssumption DEF MarkedRow
    <3>2. Cardinality(feed.view) - 1 \in Int
      BY <1>0, ListFacts DEF FewRows
    <3>. QED  BY <1>3, <3>1, <3>2 DEF MoveKey, LineKey
  <2>. QED  BY <1>1, <2>1 DEF MoveTo, contextVars
<1>4. CASE OpenRow
  <2>1. selected' = WithSnapshot(feed) /\ monitoring' = {Captured(feed, MarkedRow)}
    BY <1>4 DEF OpenRow, SyncDashboard
  <2>2. MarkedRow \in 0 .. Scrollback - 1 /\ MarkedRow \in Nat
    BY <1>2, ScrollbackAssumption DEF MarkedRow
  <2>3. MarkedRow < Cardinality(feed.view) => Row(feed.view, MarkedRow) \in Txs
    BY <1>0, <2>2, RowExists DEF FewRows
  <2>4. Captured(feed, MarkedRow) \in Contexts
    BY <1>0, <2>2, <2>3 DEF Captured, Contexts, Low, Feeds
  <2>. QED  BY <1>2, <2>1, <2>4
<1>5. CASE UNCHANGED <<selected, monitoring>>
  BY <1>5
<1>6. CASE User /\ ~ MoveKey /\ ~ OpenRow
  <2>1. SyncDashboard /\ monitoring' \in {monitoring, {}}
    BY <1>6 DEF User, FeedKey, LeaveKey, Back, LiveKey, LiveScreenCommand, ReturnCommand,
              LiveCommand, WatchCommand, contextVars
  <2>. QED  BY <1>2, <2>1 DEF SyncDashboard
<1>7. CASE IndexerRuns \/ Stream \/ Runtime \/ UNCHANGED vars
  BY <1>5, <1>7 DEF IndexerRuns, Stream, Runtime, HandleUpdate, HandleError, Tick,
                   vars, feedVars, contextVars
<1>. QED  BY <1>3, <1>4, <1>6, <1>7 DEF Next

\* What the queues hold, and the rest of the stream's state.
LEMMA StreamTyped ==
  ASSUME LInv, LInv', StreamTypeOK, [Next]_vars
  PROVE  StreamTypeOK'
<1>1. tip' \in Txs /\ sent' \in 0 .. 2 * tip'
  BY DEF LInv
<1>2. wire' \in Seq(Messages) /\ updates' \in Seq(Messages)
  <2>1. 1 .. sent' \subseteq Messages
    <3>1. ASSUME NEW t \in Txs, NEW n \in 0 .. 2 * t PROVE 1 .. n \subseteq Messages
      BY MaxTxAssumption DEF Messages, Txs
    <3>. QED  BY <1>1, <3>1
  <2>. QED  BY <2>1 DEF LInv
<1>3. /\ wire \in Seq(Messages) /\ updates \in Seq(Messages) /\ WireSize \in Nat /\ UpdatesSize \in Nat
      /\ Len(wire) <= WireSize /\ Len(updates) <= UpdatesSize
  BY WireSizeAssumption, UpdatesSizeAssumption DEF StreamTypeOK
<1>4. \A messages : missed \cup {tx \in Txs : 2 * tx \in messages} \subseteq Txs
  BY DEF StreamTypeOK
<1>5. CASE IngestLedger \/ Publish
  <2>1. Len(wire') <= WireSize /\ updates' = updates
    BY <1>3, <1>5 DEF IngestLedger, Publish
  <2>2. link' = link /\ errs' = errs /\ missed' \subseteq Txs
    BY <1>4, <1>5 DEF IngestLedger, Publish, Miss, StreamTypeOK
  <2>. QED  BY <1>1, <1>2, <1>3, <2>1, <2>2 DEF StreamTypeOK
<1>6. CASE Consumer
  <2>1. Len(wire') <= WireSize /\ Len(updates') <= UpdatesSize
    BY <1>3, <1>6 DEF Consumer, Connect, ConnectFails, Receive, Disconnect
  <2>2. link' \in {"up", "down", "none"} /\ errs' \in 0 .. 1 /\ missed' \subseteq Txs
    BY <1>4, <1>6 DEF Consumer, Connect, ConnectFails, Receive, Disconnect, Report, Miss,
                      StreamTypeOK
  <2>. QED  BY <1>1, <1>2, <2>1, <2>2 DEF StreamTypeOK
<1>7. CASE Runtime
  <2>1. wire' = wire /\ Len(updates') <= UpdatesSize
    BY <1>3, <1>7 DEF Runtime, HandleUpdate, HandleError, Tick, streamVars
  <2>2. link' = link /\ errs' \in 0 .. 1 /\ missed' \subseteq Txs
    BY <1>4, <1>7 DEF Runtime, HandleUpdate, HandleError, Tick, streamVars, Miss, StreamTypeOK
  <2>. QED  BY <1>1, <1>2, <1>3, <2>1, <2>2 DEF StreamTypeOK
<1>8. CASE User \/ UNCHANGED vars
  <2>1. UNCHANGED streamVars
    BY <1>8, UserStep DEF vars
  <2>. QED  BY <2>1 DEF StreamTypeOK, streamVars
<1>. QED  BY <1>5, <1>6, <1>7, <1>8 DEF Next, IndexerRuns, Stream

\* Every variable keeps its type: queues and lists their limits, cursors and
\* windows the rows there can be (NewModel, LiveFeedScrollback,
\* clampLiveSelection).
THEOREM FeedTypeCorrect == Spec => []LiveFeedTypeOK
<1>. DEFINE Inv == LiveFeedTypeOK /\ Low(feed)
<1>1. Init => Inv
  <2>. SUFFICES ASSUME Init PROVE Inv
    OBVIOUS
  <2>0. LInv
    BY LInvInit
  <2>1. PICK txs \in SUBSET Txs : feed \in RefreshLiveScreen(Restored(txs)) \cup {Restored(txs)}
    BY DEF Init
  <2>2. tip \in Txs /\ txs \in SUBSET Txs
    BY <2>0 DEF LInv
  <2>3. Low(Restored(txs))
    <3>1. FewRows(Newest(txs, Scrollback))
      BY <2>2, NewestFew, ScrollbackAssumption DEF FewRows, Newest
    <3>2. "all" \in Filters /\ "poll" \in Modes
      BY DEF Filters, Modes
    <3>. QED  BY <3>1, <3>2, ScrollbackAssumption DEF Low, Restored, Feeds, FewRows
  <2>4. Low(feed)
    BY <2>1, <2>2, <2>3, RefreshLow
  <2>5. feed \in Feed
    BY <2>0, <2>4, FeedTyped DEF LInv
  <2>6. selected \in 0 .. Scrollback - 1
    <3>1. feed.view \in SUBSET feed.all
      BY <2>0 DEF LInv, WellKept, Window, Filtered
    <3>2. FewRows(feed.all) /\ feed.index \in Int
      BY <2>4 DEF Low, Feeds
    <3>3. ClampIndex(feed.index, feed.view) \in 0 .. Scrollback - 1
      BY <3>1, <3>2, FewRowsFacts
    <3>. QED  BY <3>3 DEF Init
  <2>7. StreamTypeOK
    <3>1. << >> \in Seq(Messages) /\ Len(<< >>) = 0 /\ 1 .. tip \subseteq Txs /\ 2 * tip \in 0 .. 2 * tip
      BY <2>2, MaxTxAssumption DEF Txs
    <3>. QED  BY <2>2, <3>1, WireSizeAssumption, UpdatesSizeAssumption DEF Init, StreamInit, StreamTypeOK
  <2>8. opens \in 0 .. MaxOpens /\ monitoring \subseteq Contexts
    BY MaxOpensAssumption DEF Init
  <2>. QED  BY <2>4, <2>5, <2>6, <2>7, <2>8 DEF Init, LiveFeedTypeOK
<1>2. LInv /\ Inv /\ [Next]_vars => Inv'
  <2>. SUFFICES ASSUME LInv, Inv, [Next]_vars PROVE Inv'
    OBVIOUS
  <2>1. LInv'
    BY LInvNext
  <2>2. Low(feed')
    BY FeedLow
  <2>3. feed' \in Feed
    BY <2>1, <2>2, FeedTyped DEF LInv
  <2>4. selected' \in 0 .. Scrollback - 1 /\ monitoring' \subseteq Contexts
    BY DashboardLow DEF LiveFeedTypeOK
  <2>5. StreamTypeOK'
    BY <2>1, StreamTyped DEF LiveFeedTypeOK
  <2>6. opens' \in 0 .. MaxOpens
    <3>1. CASE OpenRow
      BY <3>1, MaxOpensAssumption DEF OpenRow, LiveFeedTypeOK
    <3>2. CASE User /\ ~ OpenRow
      <4>1. opens' = opens
        BY <3>2 DEF User, FeedKey, MoveKey, LineKey, MoveTo, LeaveKey, Back, LiveKey,
                  LiveScreenCommand, ReturnCommand, LiveCommand, WatchCommand, contextVars
      <4>. QED  BY <4>1 DEF LiveFeedTypeOK
    <3>3. CASE IndexerRuns \/ Stream \/ Runtime \/ UNCHANGED vars
      BY <3>3 DEF IndexerRuns, Stream, Runtime, HandleUpdate, HandleError, Tick, vars,
                feedVars, contextVars, LiveFeedTypeOK
    <3>. QED  BY <3>1, <3>2, <3>3 DEF Next
  <2>7. screen' \in {"live_feed", "other"}
    BY DEF Next, vars, IndexerRuns, Stream, Runtime, User, HandleUpdate, HandleError, Tick, FeedKey,
           MoveKey, LineKey, MoveTo, OpenRow, LeaveKey, Back, LiveKey, LiveScreenCommand,
           ReturnCommand, LiveCommand, WatchCommand, feedVars, LiveFeedTypeOK
  <2>8. watchApplied' \in BOOLEAN
    <3>1. CASE User
      <4>0. ASSUME NEW f, NEW w \in Watched(f) PROVE w.applied \in {watchApplied, TRUE}
        <5>1. CASE w = [feed |-> f, applied |-> watchApplied]
          BY <5>1
        <5>2. CASE \E g : w = [feed |-> g, applied |-> TRUE]
          BY <5>2
        <5>. QED  BY <5>1, <5>2 DEF Watched
      <4>1. \A f : AfterLiveCommand(f) => watchApplied' \in {watchApplied, TRUE}
        BY <4>0 DEF AfterLiveCommand
      <4>2. watchApplied' \in {watchApplied, TRUE}
        BY <3>1, <4>0, <4>1 DEF User, FeedKey, MoveKey, LineKey, MoveTo, OpenRow, LeaveKey, Back,
             LiveKey, LiveScreenCommand, ReturnCommand, LiveCommand, WatchCommand
      <4>. QED  BY <4>2 DEF LiveFeedTypeOK
    <3>2. CASE IndexerRuns \/ Stream \/ Runtime \/ UNCHANGED vars
      BY <3>2 DEF IndexerRuns, Stream, Runtime, HandleUpdate, HandleError, Tick, vars,
                feedVars, LiveFeedTypeOK
    <3>. QED  BY <3>1, <3>2 DEF Next
  <2>. QED  BY <2>2, <2>3, <2>4, <2>5, <2>6, <2>7, <2>8 DEF LiveFeedTypeOK
<1>3. Inv => LiveFeedTypeOK
  OBVIOUS
<1>. HIDE DEF Inv
<1>. QED  BY <1>1, <1>2, <1>3, LInvAlways, PTL DEF Spec
=============================================================================
