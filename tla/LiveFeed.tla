------------------------------- MODULE LiveFeed ------------------------------
(***************************************************************************)
(* The live feed of the terminal client: the Bubble Tea loop               *)
(* (tui/cmd/tui/runtime.go, main.go, watch.go) that handles one message at *)
(* a time, a stream update, a stream error, a tick every five seconds or a *)
(* key, and calls the model for it; and the dashboard                      *)
(* (tui/internal/ui/components.go), which keeps a cursor of its own.       *)
(*                                                                         *)
(* Of the other screens only that they are not the live feed matters here, *)
(* and of the history of screens only that it may lead to any of them.     *)
(*                                                                         *)
(* External: the servers that answer polls.  The indexer's read API tells  *)
(* the ingested ledger and the newest transactions (ReadApi has what       *)
(* happens between its queries).  A poll it does not answer, and every     *)
(* poll of a profile without an indexer, goes to Horizon or to RPC         *)
(* (Sources), whose ledgers are their own: each may be ahead of the        *)
(* indexer or behind it.                                                   *)
(*                                                                         *)
(* A row stays as it first came (mergeLiveFeedTransactions skips known     *)
(* hashes) and, once displaced, never comes again.  So Soroban is the set  *)
(* of the transactions whose first row has IsSoroban: a row from RPC never *)
(* has, one from Horizon has when it brings its meta.                      *)
(***************************************************************************)
EXTENDS LiveStream

CONSTANTS
  Recent,       \* transactions in the answer to a poll
  PageStep,     \* rows pgup and pgdown move by
  Presets,      \* the saved watch presets
  MaxOpens      \* bound: how often a row is opened

ASSUME RecentAssumption == Recent \in Nat \ {0}
ASSUME PageStepAssumption == PageStep \in Nat \ {0}
ASSUME PresetsAssumption == Presets \subseteq [filter : Filters, paused : BOOLEAN]
ASSUME MaxOpensAssumption == MaxOpens \in Nat

VARIABLES
  screen,       \* model.current: "live_feed" or "other"
  feed,         \* the live feed of the model
  selected,     \* the dashboard's LiveFeedModel.selected
  watchApplied, \* model.defaultWatchApplied
  monitoring,   \* the monitoring context, {} unless it is Active
  opens         \* how often a row was opened

contextVars == <<monitoring, opens>>
feedVars == <<screen, feed, selected, watchApplied, contextVars>>
vars == <<streamVars, feedVars>>

LiveFeedTypeOK ==
  /\ StreamTypeOK
  /\ screen \in {"live_feed", "other"}
  /\ feed \in Feed
  /\ selected \in 0 .. Scrollback - 1
  /\ watchApplied \in BOOLEAN
  /\ monitoring \subseteq Contexts
  /\ opens \in 0 .. MaxOpens

-----------------------------------------------------------------------------
(* The dashboard.                                                           *)

\* LiveFeedModel.WithSnapshot: what its cursor becomes when it is shown f.
WithSnapshot(f) ==
  IF f.view # {} /\ f.index > 0 THEN ClampIndex(f.index, f.view)
                                ELSE ClampIndex(selected, f.view)

\* The row that View marks as selected.
MarkedRow == WithSnapshot(feed)

\* Every key starts with the snapshot of the model.
SyncDashboard == selected' = WithSnapshot(feed)

-----------------------------------------------------------------------------
(* Mutated forms.                                                           *)

\* A paused feed is polled.
RefreshUnlessAway(f) ==
  {f, Refreshed(f, tip, Newest(1 .. tip, Recent)), RefreshFailed(f)}

-----------------------------------------------------------------------------
(* Stream messages.                                                         *)

Streamed(m) ==
  IF IsTransaction(m) THEN TransactionsStreamed(feed, {LedgerOf(m)})
                      ELSE LedgerStreamed(feed, LedgerOf(m))

\* liveStreamUpdateMsg: the update is applied on the live screen unless the
\* feed is paused, and is gone otherwise.
HandleUpdate ==
  /\ updates # << >>
  /\ updates' = Tail(updates)
  /\ IF screen = "live_feed" /\ ~ feed.paused
     THEN feed' = Streamed(Head(updates)) /\ UNCHANGED missed
     ELSE Miss({Head(updates)}) /\ UNCHANGED feed
  /\ UNCHANGED <<tip, sent, wire, link, errs>>
  /\ UNCHANGED <<screen, selected, watchApplied, contextVars>>

\* liveStreamErrorMsg.  Without a consumer the channel of errors is closed: it
\* always has one more.
HandleError ==
  /\ errs = 1 \/ link = "none"
  /\ errs' = 0
  /\ feed' = StreamFailed(feed)
  /\ UNCHANGED <<tip, sent, wire, link, updates, missed>>
  /\ UNCHANGED <<screen, selected, watchApplied, contextVars>>

-----------------------------------------------------------------------------
(* Polling: refreshCurrentScreen on the live screen.                        *)

IndexerSummary == [ledger |-> tip, txs |-> Newest(1 .. tip, Recent)]

\* Horizon has latest as its last ledger, and a moment later, when it is asked
\* for its newest transactions, upto.
HorizonSummary(latest, upto) == [ledger |-> latest, txs |-> Newest(1 .. upto, Recent)]

\* RPC is asked for the first transactions from its last ledger on.
RpcSummary(latest, upto) ==
  [ledger |-> latest, txs |-> {tx \in latest .. upto : tx < latest + Recent}]

NetworkSummaries ==
  UNION {{HorizonSummary(at[1], at[2]), RpcSummary(at[1], at[2])} :
           at \in {pair \in Txs \X Txs : pair[1] <= pair[2]}}

\* LiveFeedSummary, by whichever server answers.
Summaries == {IndexerSummary} \cup NetworkSummaries

\* refreshLiveFeed with an answer.
PollAnswered(f, summary) == Refreshed(f, summary.ledger, summary.txs)

\* What it makes of f: there may be no backend, and it may fail.
RefreshLiveScreen(f) ==
  IF f.paused THEN {f}
  ELSE {f, RefreshFailed(f)} \cup {PollAnswered(f, summary) : summary \in Summaries}

\* liveFeedTickMsg
Tick ==
  /\ screen = "live_feed"
  /\ feed' \in RefreshLiveScreen(feed)
  /\ UNCHANGED <<streamVars, screen, selected, watchApplied, contextVars>>

\* A tick that the indexer answers.
TickAnswered ==
  /\ screen = "live_feed" /\ ~ feed.paused
  /\ feed' = PollAnswered(feed, IndexerSummary)
  /\ UNCHANGED <<streamVars, screen, selected, watchApplied, contextVars>>

\* The program starts with the rows and the screen an earlier session kept,
\* whichever servers it had them from, and refreshes the live screen if it is
\* that.
Init ==
  /\ StreamInit
  /\ screen \in {"live_feed", "other"}
  /\ \E txs \in SUBSET Txs :
        feed \in IF screen = "live_feed" THEN RefreshLiveScreen(Restored(txs)) ELSE {Restored(txs)}
  /\ selected = ClampIndex(feed.index, feed.view)
  /\ watchApplied = FALSE
  /\ monitoring = {} /\ opens = 0

-----------------------------------------------------------------------------
(* Keys.                                                                    *)

\* What a key does to the model, on the live screen.
KeyEffects(f) ==
  RefreshLiveScreen(f)                              \* r
    \cup {SetPaused(f, ~ f.paused),                 \* p
          SetFilter(f, NextFilter(f.filter)),       \* t
          ShiftReplay(f, 1), ShiftReplay(f, -1)}    \* [ and ]

FeedKey ==
  /\ screen = "live_feed"
  /\ feed' \in KeyEffects(feed)
  /\ SyncDashboard
  /\ UNCHANGED <<streamVars, screen, watchApplied, contextVars>>

\* j, k, the arrows, pgup, pgdown, home and end: only the dashboard's cursor
\* moves, ActionMoveSelection does no more than to show a message.
MoveTo(row) ==
  /\ screen = "live_feed"
  /\ selected' = ClampIndex(row, feed.view)
  /\ UNCHANGED <<streamVars, screen, feed, watchApplied, contextVars>>

LineKey(delta) == MoveTo(MarkedRow + delta)

MoveKey ==
  \/ \E delta \in {-1, 1} : LineKey(delta) \/ LineKey(delta * PageStep)
  \/ MoveTo(0)
  \/ MoveTo(Cardinality(feed.view) - 1)

\* enter: how the feed stands is kept for the way back, and the transaction of
\* the row is looked up, unless there is none or the backend cannot be set up.
OpenRow ==
  /\ screen = "live_feed"
  /\ opens < MaxOpens
  /\ monitoring' = {Captured(feed, MarkedRow)}
  /\ opens' = opens + 1
  /\ \/ screen' = "other" /\ feed.view # {}
     \/ screen' = "live_feed"
  /\ SyncDashboard
  /\ UNCHANGED <<streamVars, feed, watchApplied>>

\* A key or a command that leads to another screen.
LeaveKey ==
  /\ screen = "live_feed"
  /\ screen' = "other"
  /\ SyncDashboard
  /\ UNCHANGED <<streamVars, feed, watchApplied, contextVars>>

\* What putting back the context, if there is one, makes of f.
Returned(f) ==
  IF monitoring = {} THEN f ELSE ContextRestored(f, CHOOSE c \in monitoring : TRUE)

\* b, or the palette's back, when it leads to the live screen; it may be the
\* screen before itself in the history.
Back ==
  /\ screen' = "live_feed"
  /\ feed' \in {Returned(feed)} \cup RefreshLiveScreen(Returned(feed))
  /\ monitoring' = {}
  /\ SyncDashboard
  /\ UNCHANGED <<streamVars, watchApplied, opens>>

\* What applying some watch preset makes of f.
WatchEffects(f) == {ApplyWatch(f, preset.filter, preset.paused) : preset \in Presets}

\* applyProfileWatchOnLiveScreen: the first time it finds the live screen and a
\* preset for it, that preset is applied.
Watched(f) ==
  {[feed |-> f, applied |-> watchApplied]} \cup
    {[feed |-> g, applied |-> TRUE] : g \in {h \in WatchEffects(f) : ~ watchApplied}}

\* A key that leads to the live screen does not refresh it.
LiveKey ==
  /\ screen' = "live_feed"
  /\ \E w \in Watched(feed) : feed' = w.feed /\ watchApplied' = w.applied
  /\ SyncDashboard
  /\ UNCHANGED <<streamVars, contextVars>>

\* What follows a live command that made f of the feed and is on the live screen.
AfterLiveCommand(f) ==
  \E w \in Watched(f) : feed' \in RefreshLiveScreen(w.feed) /\ watchApplied' = w.applied

\* live, or the opening of a saved view of the live screen with its filter.
LiveScreenCommand ==
  /\ screen' = "live_feed"
  /\ \E f \in {feed} \cup {SetFilter(feed, filter) : filter \in Filters} : AfterLiveCommand(f)
  /\ SyncDashboard
  /\ UNCHANGED <<streamVars, contextVars>>

\* live return
ReturnCommand ==
  /\ screen' = "live_feed"
  /\ AfterLiveCommand(Returned(feed))
  /\ monitoring' = {}
  /\ SyncDashboard
  /\ UNCHANGED <<streamVars, opens>>

\* live pause, live resume, live filter
CommandEffects(f) ==
  {SetPaused(f, paused) : paused \in BOOLEAN} \cup {SetFilter(f, filter) : filter \in Filters}

\* They work on any screen.
LiveCommand ==
  /\ \E f \in CommandEffects(feed) :
       IF screen = "live_feed" THEN AfterLiveCommand(f)
                               ELSE feed' = f /\ UNCHANGED watchApplied
  /\ SyncDashboard
  /\ UNCHANGED <<streamVars, screen, contextVars>>

\* watch open <name>
WatchCommand ==
  /\ screen' = "live_feed"
  /\ \E f \in WatchEffects(feed) : feed' \in RefreshLiveScreen(f)
  /\ SyncDashboard
  /\ UNCHANGED <<streamVars, watchApplied, contextVars>>

-----------------------------------------------------------------------------

IndexerRuns == (IngestLedger \/ Publish) /\ UNCHANGED feedVars
Stream == Consumer /\ UNCHANGED feedVars
Runtime == HandleUpdate \/ HandleError \/ Tick
User ==
  \/ FeedKey \/ MoveKey \/ OpenRow \/ LeaveKey \/ Back \/ LiveKey
  \/ LiveScreenCommand \/ ReturnCommand \/ LiveCommand \/ WatchCommand

Next == IndexerRuns \/ Stream \/ Runtime \/ User

Spec == Init /\ [][Next]_vars

\* liveFeedTick starts itself again, and the indexer is not down for good, whoever
\* answers in the meantime.  Nothing is asked of the stream.
Fairness == WF_vars(TickAnswered)

FairSpec == Spec /\ Fairness

-----------------------------------------------------------------------------
(* Properties.                                                              *)

\* The rows on the screen are those the filter and the replay window select
\* from what is kept, whichever of the handlers changed one of the four last;
\* only a failed refresh takes all of them away, until the next change.
ViewIsWindowOrBlank ==
  /\ feed.view \in {Window(feed), {}}
  /\ ~ feed.paused => feed.replay = 0

\* tx is kept, or enough newer ones have displaced it.
KeptOrDisplaced(tx, f) ==
  tx \in f.all \/ Cardinality({newer \in f.all : newer > tx}) >= Scrollback

\* A transaction that got as far as the updates channel while the live screen
\* was shown and not paused is kept, whatever filter was on, until enough newer
\* ones have displaced it.
NothingLostSilently ==
  \A tx \in Txs :
    2 * tx <= sent /\ tx \notin missed =>
      \/ KeptOrDisplaced(tx, feed)
      \/ \E i \in DOMAIN wire : wire[i] = 2 * tx
      \/ \E i \in DOMAIN updates : updates[i] = 2 * tx

\* The way back from a row that was opened is taken.
ContextUsed == monitoring # {} /\ monitoring' = {}

\* When the list changes under the cursor, the cursor of the model stays on its
\* transaction as long as the list has it, unless the way back puts it elsewhere
\* or a preset replaces a filter that was set a moment before.
SelectionFollowsTransaction ==
  [][\A tx \in feed.view \cap feed'.view :
       feed.index = Position(tx, feed.view) =>
         feed'.index = Position(tx, feed'.view) \/ ContextUsed \/ watchApplied' # watchApplied]_vars

\* Whoever comes back from a transaction finds the cursor on it, whatever was
\* added, filtered, paused or resumed in the meantime, as long as it is kept and
\* there is a list at all, and no preset is applied on the way.
ReturnFindsTransaction ==
  [][ContextUsed /\ watchApplied' = watchApplied /\ feed'.view # {} =>
       \A c \in monitoring :
         c.tx \in feed'.all => c.tx \in feed'.view /\ feed'.index = Position(c.tx, feed'.view)]_vars

\* Polls are answered by servers that lag behind each other, and messages that
\* were queued before a poll are handled after it: even so no row ever gives way
\* to an older one.  The ledger in the header does go back, but only to what the
\* server that answers a poll has: never with a message, however late.
ListNeverGoesBack ==
  [][/\ \A tx \in feed.all : KeptOrDisplaced(tx, feed')
     /\ feed'.last < feed.last => screen' = "live_feed" /\ ~ feed'.paused /\ UNCHANGED streamVars]_vars

\* While the feed is paused nothing is added to it, nor taken away.
PausedFeedIsStill ==
  [][feed.paused /\ feed'.paused => feed'.all = feed.all /\ feed'.last = feed.last]_vars

\* Who watches the live screen sees the indexer's ledger in the header again and
\* again, even if the ledger's message was lost and servers that are behind answer
\* some of the polls; and on a feed that does not live on the stream the newest
\* transactions with it, after whatever was lost on the way or blanked by a
\* refresh that failed.
PollRepairs ==
  []<>(screen = "live_feed" /\ ~ feed.paused =>
         /\ feed.last >= tip
         /\ feed.mode # "stream" =>
              /\ \A tx \in Newest(1 .. tip, Recent) : KeptOrDisplaced(tx, feed)
              /\ feed.view = Window(feed))
=============================================================================
