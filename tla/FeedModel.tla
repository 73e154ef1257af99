------------------------------ MODULE FeedModel ------------------------------
(***************************************************************************)
(* The live feed inside the terminal client's app.Model                    *)
(* (tui/internal/app/live_feed.go, model.go, monitoring.go), as functions  *)
(* from one value of its state to the next.                                *)
(*                                                                         *)
(* Ledger n carries one transaction, also called n, so the order of the    *)
(* rows is that of the numbers: a list is the set of its rows, the newest  *)
(* first, and row i is the one with i newer ones.  Of the filters only the *)
(* classes are here; the filters by account, contract, asset and operation *)
(* select rows in the same way.                                            *)
(***************************************************************************)
EXTENDS Integers, FiniteSets

CONSTANTS
  MaxTx,        \* bound: the last transaction of the instance
  Scrollback,   \* defaultLiveFeedScrollback
  Soroban       \* the transactions with IsSoroban

Txs == 1 .. MaxTx

ASSUME MaxTxAssumption == MaxTx \in Nat \ {0}
ASSUME ScrollbackAssumption == Scrollback \in Nat \ {0}
ASSUME SorobanAssumption == Soroban \subseteq Txs

Filters == {"all", "soroban", "classic"}

Modes == {"poll", "stream", "degraded"}

\* LiveFeedSnapshot with liveFeedAll, liveFeedFilterSpec and
\* selection.LiveFeedIndex.
Feed ==
  [paused : BOOLEAN,
   filter : Filters,                 \* liveFeedFilterSpec.Class
   replay : 0 .. Scrollback - 1,     \* ReplayOffset
   all    : SUBSET Txs,              \* liveFeedAll
   view   : SUBSET Txs,              \* RecentTransactions
   mode   : Modes,                   \* SourceMode
   last   : 0 .. MaxTx,              \* LastIngestedLedger
   index  : 0 .. Scrollback - 1]     \* selection.LiveFeedIndex

\* LiveFeedMonitoringContext: how the feed stood when a row was opened, and
\* that row, with 0 for no transaction.
Contexts ==
  [filter : Filters, paused : BOOLEAN, replay : 0 .. Scrollback - 1,
   row : 0 .. Scrollback - 1, tx : Txs \cup {0}]

-----------------------------------------------------------------------------
(* Lists.                                                                   *)

Position(tx, list) == Cardinality({other \in list : other > tx})

Row(list, i) == CHOOSE tx \in list : Position(tx, list) = i

Newest(list, n) == {tx \in list : Position(tx, list) < n}

\* clampIndex, clampLiveSelection
ClampIndex(i, list) ==
  IF list = {} \/ i < 0 THEN 0
  ELSE IF i >= Cardinality(list) THEN Cardinality(list) - 1 ELSE i

-----------------------------------------------------------------------------
(* Mutated forms.                                                           *)

\* The cursor stays on its row number when rows come in above it.
FollowNothing(f, list) == ClampIndex(f.index, list)

\* The filter applied to what is kept, not to what is shown.
MergedFiltered(f, txs) ==
  Newest(f.all \cup {tx \in txs : f.filter = "all" \/ (f.filter = "soroban") = (tx \in Soroban)},
         Scrollback)

\* The replay window kept when the feed is resumed.
ReplayWhenPaused(f, paused) == f.replay

\* A poll's transactions in place of what is kept.
Replaced(f, txs) == IF txs = {} THEN f.all ELSE Newest(txs, Scrollback)

\* The row number put back, whatever transaction is there now.
RowOfNumber(c, list) == ClampIndex(c.row, list)

\* A degraded feed does not merge what it polls.
MergesPollsDegraded(f) == f.mode = "poll"

-----------------------------------------------------------------------------
(* The view.                                                                *)

Matches(tx, filter) ==
  CASE filter = "soroban" -> tx \in Soroban
    [] filter = "classic" -> tx \notin Soroban
    [] OTHER              -> TRUE

Filtered(f) == {tx \in f.all : Matches(tx, f.filter)}

\* Where the replay window starts: at the last row at the latest.
ReplayStart(f) == IF f.paused THEN ClampIndex(f.replay, Filtered(f)) ELSE 0

Window(f) == {tx \in Filtered(f) : Position(tx, Filtered(f)) >= ReplayStart(f)}

\* The row the cursor is put on in a new list: that of the transaction it was
\* on, if the list still has it.
FollowSelection(f, list) ==
  IF f.index < Cardinality(f.view) /\ Row(f.view, f.index) \in list
  THEN Position(Row(f.view, f.index), list)
  ELSE ClampIndex(f.index, list)

\* applyLiveFeedView
ApplyView(f) ==
  [f EXCEPT !.replay = IF f.paused THEN ReplayStart(f) ELSE @,
            !.view   = Window(f),
            !.index  = FollowSelection(f, Window(f))]

-----------------------------------------------------------------------------
(* What comes in.                                                           *)

\* mergeLiveFeedTransactions: each transaction once, newest first, at most
\* Scrollback of them.
Merged(f, txs) == Newest(f.all \cup txs, Scrollback)

LastAfter(f, ledger) == IF ledger > f.last THEN ledger ELSE f.last

\* ApplyLiveFeedStreamUpdate with a ledger: the header moves, the rows stay.
LedgerStreamed(f, ledger) ==
  [ApplyView([f EXCEPT !.last = LastAfter(f, ledger)]) EXCEPT !.mode = "stream"]

\* ApplyLiveFeedStreamUpdate with transactions: nothing if all are known.
TransactionsStreamed(f, txs) ==
  IF txs \subseteq f.all THEN f
  ELSE [ApplyView([f EXCEPT !.all = Merged(f, txs)]) EXCEPT !.mode = "stream"]

\* Whether a poll brings transactions, or the header only.
MergesPolls(f) == f.mode # "stream"

\* refreshLiveFeed with an answer: a ledger, which the header then shows whatever
\* it has shown before, and the newest txs.
Refreshed(f, ledger, txs) ==
  IF MergesPolls(f)
  THEN [ApplyView([f EXCEPT !.last = ledger, !.all = Merged(f, txs)]) EXCEPT !.mode = "poll"]
  ELSE [f EXCEPT !.last = ledger]

\* refreshLiveFeed with an error: the rows are taken off the screen.
RefreshFailed(f) == [f EXCEPT !.view = {}]

\* handleLiveStreamError
StreamFailed(f) == [f EXCEPT !.mode = IF @ = "stream" THEN "degraded" ELSE "poll"]

-----------------------------------------------------------------------------
(* What the user does.                                                      *)

ReplayAfterPause(f, paused) == IF paused THEN f.replay ELSE 0

\* SetLiveFeedPaused.  What it flushes, liveFeedPendingStream, is always empty:
\* the runtime calls ApplyLiveFeedStreamUpdate only when the feed is not paused.
SetPaused(f, paused) ==
  LET g == [f EXCEPT !.paused = paused, !.replay = ReplayAfterPause(f, paused)]
  IN  IF paused THEN g ELSE ApplyView(g)

\* setLiveFeedFilterSpec
SetFilter(f, filter) == ApplyView([f EXCEPT !.filter = filter, !.replay = 0])

\* CycleLiveFeedFilter
NextFilter(filter) ==
  CASE filter = "all"     -> "soroban"
    [] filter = "soroban" -> "classic"
    [] OTHER              -> "all"

\* Where [ and ] put the replay window: never past the last row.
ReplayShifted(f, delta) == ClampIndex(f.replay + delta, Filtered(f))

\* ShiftLiveFeedReplay
ShiftReplay(f, delta) ==
  IF f.paused /\ ReplayShifted(f, delta) # f.replay
  THEN ApplyView([f EXCEPT !.replay = ReplayShifted(f, delta)])
  ELSE f

\* ApplyWatchSettings
ApplyWatch(f, filter, paused) ==
  ApplyView([f EXCEPT !.filter = filter, !.paused = paused, !.replay = 0])

\* CaptureLiveFeedMonitoringContext
Captured(f, row) ==
  [filter |-> f.filter, paused |-> f.paused, replay |-> f.replay, row |-> row,
   tx |-> IF row < Cardinality(f.view) THEN Row(f.view, row) ELSE 0]

\* Where the cursor is put back to: the transaction that was opened, or its row.
RowOf(c, list) == IF c.tx \in list THEN Position(c.tx, list) ELSE ClampIndex(c.row, list)

\* RestoreLiveFeedMonitoringContext
ContextRestored(f, c) ==
  LET g == ApplyView([f EXCEPT !.filter = c.filter, !.paused = c.paused, !.replay = c.replay])
  IN  [g EXCEPT !.index = RowOf(c, g.view)]

\* RestoreLiveFeedScrollback into a new model.
Restored(txs) ==
  LET kept == Newest(txs, Scrollback)
  IN  [paused |-> FALSE, filter |-> "all", replay |-> 0, all |-> kept, view |-> kept,
       mode |-> "poll", last |-> 0, index |-> 0]
=============================================================================
