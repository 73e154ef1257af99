# StellarView: TLA+ models and proofs

StellarView is a terminal explorer for the Stellar network: an indexer copies
ledgers into Postgres and announces them over Redis, and a terminal client
shows them live and looks single ones up. This directory specifies the part of
it that is stateful and concurrent, checks it with TLC on small instances, and
proves the central properties for all instances with TLAPS.

All paths below are relative to the repository's `src/` unless they name a file
of this directory.

## 1. The system

Three Go modules and a compose file:

```
 Stellar RPC / S3 data lake
        |  ledgers
        v
 tui-indexer   live pipeline, backfill     --->  Postgres (tables, cursor)
        |  messages, at most once                      ^
        v                                              | SQL
      Redis                                      read API (HTTP)
        |                                              ^
        v                                              | polls, lookups
   tui   consumer goroutine -> channel -> Bubble Tea loop -> app.Model -> dashboard
                                                |
                                              SQLite (cache, rows, workspace)
```

`sordecode` is a library of pure decoding functions both programs use.

### 1.1 Indexer

| Component | State | Operations | Made correct by |
|---|---|---|---|
| Store (`tui-indexer/internal/store/postgres.go`) | tables; `last_ingested_ledger` | one SQL transaction per batch of a table; upsert of the cursor, only upwards; query for missing ledgers | a repeated batch is absorbed, or is known not to be; the cursor never goes back |
| Ledger processing (`pipeline/live.go`, `ProcessOneLedger`) | none of its own | ledger, transactions, operations, token events, contract events, cursor, then two messages, one call after the other | the cursor and the messages come after everything they promise |
| Live pipeline (`pipeline/live.go`) | the loop's position, the batch at hand, the ticker | tail round, gap scan, retry after errors | nothing between the first ledger and the cursor is missing; gaps are filled; the tip is reached |
| Backfill (`pipeline/backfill.go`, `s3backfill.go`) | chunks, one position per worker, collected errors | split, workers, wait, collect, cancel | what is reported as done is done, once |
| Contract specs (`transform/contract_spec.go`, started in `live.go`; `soroban_spec_enrich.go`, `readapi/spec_enrich.go`, `store/spec_backfill.go`) | rows of contracts and codes; decodings of operations and events | a goroutine per newly created contract; decoding when a row is stored and again when it is read; write back | a contract that shows a spec can be decoded; a decoding never gets worse, and belongs to its row |
| Publisher (`publisher/redis.go`) | Redis connection | publish, whose error the pipeline ignores | a message is never early and never doubled |
| Read API (`readapi/server.go`) | none | HTTP handlers, several queries each | what was announced, or is covered by a cursor already shown, is found and whole |
| Transformations, RPC and S3 clients | none | XDR to rows; requests | rows say what the ledger says |

Hard behaviours: each of the calls for one ledger is its own SQL transaction, so
a crash, an error or a cancelled context leaves a ledger half written; the live
loop and any number of backfill workers, in another program, share the tables
and one cursor; the RPC server forgets old ledgers; three tables have no key
that would absorb a repeated batch; contracts are processed in goroutines that no
cursor waits for, and readers write back what they decoded, each on its own.

### 1.2 Terminal client

| Component | State | Operations | Made correct by |
|---|---|---|---|
| Consumer (`tui/internal/livestream/consumer.go`) | subscription, backoff, two channels | subscribe, receive, reconnect, report an error | losses are confined to what Redis loses; errors reach the screen |
| Listener and runtime (`tui/cmd/tui/livestream.go`, `runtime.go`, `main.go`) | the message in hand, timers | update, error, tick, key, command; one at a time | every message and key has its effect once |
| Live feed (`tui/internal/app/live_feed.go`, `model.go`) | kept rows, shown rows, filter, pause, replay window, source mode, header, selection | merge, poll, filter, pause, replay | what is shown follows from what is kept; nothing is lost silently; paused means still |
| Monitoring context (`tui/internal/app/monitoring.go`) | the feed's position when a row was opened | capture, restore | who comes back finds what he left |
| Dashboard (`tui/internal/ui`) | a cursor and scroll offset of its own | keys, snapshot, view | it shows the model's selection and obeys the keys |
| Navigation and lookups (`tui/internal/app/model.go`) | screen history, lookup history, lookup state | navigate, back, forward, look up | back leads where the user came from; the data belongs to the query |
| Lookup cache (`tui/cmd/tui/cache_lookup.go`, `cache_fallback.go`, `tui/internal/cache`) | SQLite rows | hit, miss, stale answer, refresh | the label says how old the data is; the way back is kept |
| Backends (`tui/cmd/tui/hybrid_backend.go`, `tui/internal/networkbackend` and the clients below it) | metadata of the last call | ask the indexer, Horizon or RPC, turn to the next, page through lists | the label names who sent the rows; a list read to its end has lost none |
| Presets (`tui/cmd/tui/watch.go`, `views.go`) | watches and saved views; whether one was applied | save, open, delete, apply by itself | what is saved is what is opened; the user has the last word |
| Annotations (`tui/cmd/tui/workspace.go`, `labels_import.go`) | labels, attachments, bookmarks, notes | add, remove, change, import at every start | no attachment without its label; success means all of it; a page shows what is stored |
| Search, palette, rendering, export, configuration | - | functions of the current state | presentation |

Hard behaviours: three sources, the stream, polls and the user, change the
feed in any order; a queued message may be older than the poll handled before
it; Redis delivers at most once and the consumer reconnects without replay; the
feed is paused, filtered, left and returned to while all of this goes on; two
cursors, the model's and the dashboard's, stand for one selection. A command makes
several statements in the local store without a transaction; a list is read page by
page while it grows; whichever server answers, any of its requests may fail.

`PROJECT.json` lists every component with its status, and the hazards of the
code with the line where each bites and the properties that watch it.

## 2. The modules

```
LedgerStore                    tables and cursor
  ProcessLedger                one ledger, call by call, by any process
    LivePipeline               the live loop               LivePipelineProofs
      ReadApi                  the handlers that read its tables
    BackfillPipeline           chunks and workers
      Indexer                  both on one database        IndexerProofs
                               (EXTENDS the two above)     (of the backfill and of
                                                           the read API, too)
IngestLog                      abstract: whole ledgers, a head, announcements
                               (implemented by LivePipeline)
ContractSpecs                  goroutines, decoding, write back
                                                           ContractSpecsProofs

FeedModel                      app.Model's live feed, as functions
  LiveStream                   Redis, consumer, channels
    LiveFeed                   runtime, keys, dashboard    LiveFeedProofs
Presets                        watches and views, over the feed's filter
                                                           PresetsProofs

LookupModel                    app.Model's screens and pages, as functions
  Lookups                      commands, refresh, local cache      LookupsProofs
Sources                        which server answers a call, as functions
  Backends                     pages and lists read through it     BackendsProofs
Annotations                    labels, bookmarks, notes    AnnotationsProofs
```

The modules named `MC...` define the constants of the instances TLC checks.

### 2.1 LedgerStore

`rows[l][t]` counts the copies of ledger `l`'s batch in table `t`, with 2 for
"two or more". `InsertBatch` is any of the five insert functions: in tables with
a unique key over the row a repeat changes nothing, in `operations`,
`token_events` and `contract_events`, whose key is a serial number, it adds a
second copy. `SetLastIngestedLedger` is the guarded upsert;
`FindMissingLedgerSequences` the gap query with its limit. `origin` is a history
variable, the first value of the cursor.

### 2.2 ProcessLedger

A set `Procs` of processes runs `ProcessOneLedger`. `step[p]` names the call the
process makes next, `led[p] .. upto[p]` is what is left of the batch it fetched.
Each database call and each publication is an action, because another process, an
error or the end of the program may come between any two. Processes that are not
`Publishers` (backfill workers) return after the cursor. A publication may fail
without a consequence, as in the code. Decoding is pure: a ledger that cannot be
decoded fails before the first write and looks like a failed fetch.

### 2.3 LivePipeline

`pc` is where `Run` is, from the `select` through `ingestNewLedgers`
(`GetLatestLedger`, `ResumeFromCursor`, `FetchBatch`, `BatchDone`) and
`detectAndFillGaps` (`GapTick`, `FindGaps`, `FetchGap`, `FillDone`). `FirstRun`
is the first element of `contiguousLedgerBatches`. The RPC server is external: it
has the ledgers `Oldest .. tip`, answers a request that starts inside with one or
more consecutive ledgers, and refuses any other. `Interrupt` is an error return of
the tail round and also a crash with a restart, since both leave exactly what is
in the database; `GapFailure` is an error inside the scan, after which the code
goes on with the tail round.

### 2.4 BackfillPipeline

Both backfills. `ChunkStart` and `ChunkEnd` are the integer arithmetic of `Run`;
each worker alternates between `FetchLedgers` and its calls of `ProcessOneLedger`.
A worker ends because its chunk is done, because it got an empty batch (`dry`,
RPC only), with an error (`failed`), or with an error that the S3 backfill drops
because the context was cancelled (`silent`). `Cancel` is the signal, `Resume` the
operator who follows `tui-indexer/README.md:144`.

### 2.5 Indexer

The two programs on one database. All steps interleave; the backfill fetches only
ledgers the network has closed. `IndexerFairSpec` adds the fairness of the live
pipeline, and none for the backfill.

### 2.6 FeedModel

One value of the feed is a record, and each method of `app.Model` is a function
from feed to feed: `Merged`, `ApplyView`, `LedgerStreamed`,
`TransactionsStreamed`, `Refreshed`, `RefreshFailed`, `StreamFailed`,
`SetPaused`, `SetFilter`, `ShiftReplay`, `ApplyWatch`, `Captured`,
`ContextRestored`, `Restored`. Ledger `n` carries the one transaction `n`, so the
order of the rows is that of the numbers and a list is a set; `Position` gives a
row its number. Of the filter specification only the classes are kept.

### 2.7 LiveStream

Message `2n-1` announces ledger `n`, message `2n` carries its transaction. A
published message gets into the Redis client's buffer if the client is subscribed
and has room, or is lost. `Receive` moves it to the channel of updates;
`Disconnect` loses what was in the buffer. The history variable `missed` has the
transactions whose message something kept from the feed.

### 2.8 LiveFeed

The Bubble Tea loop. `HandleUpdate`, `HandleError` and `Tick` are its messages;
`FeedKey`, `MoveKey`, `OpenRow`, `LeaveKey`, `Back`, `LiveKey`,
`LiveScreenCommand`, `ReturnCommand`, `LiveCommand` and `WatchCommand` are what a
user can do. `selected` is the dashboard's cursor and `WithSnapshot` the rule by
which it follows the model's. `watchApplied` and `Watched` are
`applyProfileWatchOnLiveScreen`, which runs after every live command.

A poll is answered by the indexer, by Horizon or by an RPC server (`Summaries`),
since the client's backend turns to the network when the indexer does not answer
(`hybrid_backend.go:60`). Each of them may be ahead of the others or behind, from one
poll to the next. Of an RPC server the answer has the first transactions of its
last ledger only.

### 2.9 LookupModel

A value `nav` of the model is a record of the screen, the two screen histories
`back` and `ahead` (`history` and `forward` in the code), the page shown
(`lookup`), the two page histories `route` and `routeAhead` (`lookupHistory`,
`lookupForward`), and whether a monitoring context is captured. A page is its
state, the entity it is about, the list opened on it, which version of the data it
shows, what its label says of that data, and whether it has a return context. Each
method of `app.Model` is a function from `nav` to `nav`: `Remembered` is
`pushLookupHistory` with its comparison of pages and its limit, `Entered` is
`SetScreen`, `UpdateLookup` stands for the eight `UpdateLookup...` methods and
`OpenLookupResultExplorer`, `OpenLookupExplorer` for the seven lists, and
`SetLookupLoading`, `SetLookupError`, `CloseLookupExplorer`,
`ReturnToLiveMonitoring`, `Back` and `Forward` for the methods of their names.

### 2.10 Lookups

The handlers of `tui/cmd/tui` that call those methods. A handler takes a record of
the model and the cache to the set of what it may leave, one element for each
answer of the backend: `Reloaded` is `performEntityLookup` past the cache, with the
loading page inside it, `LookedUp` the whole of it, `Refreshed` is
`refreshActiveLookup`, which the tick, the key `r` and every command from the
palette end in. `cache` is the table `entity_cache`, the newest row first;
`Upserted` prunes to the limit and then inserts or replaces. `data` is what the
backend has: accounts, assets and contracts change (`Change`), their rows grow old
(`Expire`), transactions and ledgers do neither. An action is one command or key;
`Leave` adds the palette's refresh, which the enter key does not do. Handlers block
on the backend and on the database, so nothing runs inside one.

### 2.11 IngestLog

The abstract specification of ingestion: `stored` is the set of ledgers a reader
finds whole, `head` the ledger a restart goes on behind, `told` how often each
ledger was announced. `Store`, `MoveHead` and `Announce` are its only steps; the
guards of the last two are the promise, namely that the head moves over stored
ledgers only and that a ledger is announced once, stored, and covered by the
head. `LivePipeline` maps its tables to `stored`, its cursor to `head`, and
`ImplementsLog` is that every step, also of a crash, a retry or a gap fill, is
one of these or none.

### 2.12 ReadApi

`request` is the handler's position in its `Queries`; every query is a step,
between those of the live pipeline it extends. `known` and `promised` are
history: what the client has reason to expect when it asks, because it was
announced or lies below a cursor it has seen. `described` is the contract's row,
which a goroutine writes some time after the operations of the ledger that creates
the contract, or never (`ProcessContractSpec`); `GetContractByID` finds nothing until
then, and the page is a 404. The contract's transactions are those with an
operation of it (`postgres.go:523`), its page is five queries, and its spec is joined
to its row. Effects and storage entries are asked for, and no program writes them.

### 2.13 ContractSpecs

`ingest` is the ledger in work and its next statement, from the decoding at the
start (`EnrichLedger`) to the cursor. `tasks` are the goroutines of
`ProcessContractSpec`, whose two upserts are two steps; a crash takes them away
and nothing brings them back. A row of `rows` says what is decoded of it, and of
which item that was the decoding (`of`): `Updates` is the condition of the
`UPDATE` in `spec_backfill.go`, which for events is not a row's identity.
`requests` are handlers of the read API, which list, decode again what
`NeedsReEnrich`, and write back row by row what `Improved`. A spec that cannot
be loaded (`unloaded`) is treated as none, as the code does. Specs themselves are
the constant `Best`.

### 2.14 Sources and Backends

`Sources` is a function from a profile, an operation and what each server would
do with the call's requests (`net`) to who answers and which metadata is left
behind: `HorizonThenRpc`, `HorizonOrRpc`, `HorizonOnly`, `RpcOnly` are the shapes
of the network backend's methods, `HybridCall` puts the indexer in front and
`FallsBack` says which methods turn to the network. `Backends` uses it for
lookups (`SourceBefore`: the label is asked for before the call), opened rows
(`SourceAfter`), the list of ledgers (`LedgerPage`, by sequence) and the lists of
a page (`ListPage`, by offset), while ledgers close, gaps are filled and lists
grow. What Horizon makes of the sequence it is given for a paging cursor
(`horizonbackend/backend.go:131`) is not known from this code: `HorizonLedgers` has
both an answer with the ledgers before it and one without rows. Rows of one ledger,
or of one balance, come in any order (`Tied`, `Sorted`): the SQL orders by nothing
else. `trail` is the history of the list being read.

### 2.15 Presets

`session` is what the model keeps of screen, page, filter, pause and captured
context; `watches` and `views` are the tables, newest first. A filter is stored
as it is displayed, so `Displayed`, which cuts values, and `Parsed`, which splits
at blanks, stand between saving and opening. `ProfileWatched` is the preset that
applies itself behind every live command, once in a session. `live filter` with a
kind of value that is not in lower case, as in `live filter Account G...`, is accepted
and its value dropped (`app/live_feed.go:87`): it is `LiveFilter(All)`.

### 2.16 Annotations

`db` has the tables, `session` the page and the kind of message shown. A command
is one step, because it runs before the next key is read, with every outcome its
statements may have: `StopsAt` lists the states of the tables in which it may
stop. `Refreshed` is the palette's refresh behind each command. `Details` are the
pages of a single operation, event or storage entry: they are opened from rows and
load nothing of what is stored (`OpenDetail`, `main.go:1791`), and neither the tick nor
the palette's refresh reads them again (`Refreshable`, `cache_lookup.go:187`); a command
on one of them does. `OpenLostRow` opens a row of a list that looks up something else
than what it names. `Restart` imports `labels.toml` statement by statement; if one
fails the program ends (`"down"`), and what was written stays. Ids made of a hash (`FileId`) and drawn
from the clock (`UserId`) are kept apart.

### 2.17 What the abstraction leaves out

- Row contents, hashes and timestamps; one transaction per ledger in the feed,
  and one batch per table in the indexer, never empty.
- Time: a backoff, a ticker or a sleep is any delay.
- `LatestLedger` of the header, the status text, the scroll offset and the rows
  saved to SQLite after a poll. A restart of the client is an initial state.
- The pending buffer of `app.Model`: the runtime never calls
  `ApplyLiveFeedStreamUpdate` while the feed is paused, so it stays empty.
  `SetPaused` says so; see the observations in section 5.
- The three queries of one poll are one answer, and the two refreshes of a start
  on the live screen are one.
- In `LiveFeed` the screens other than the live one are one value, and `Back` may
  come from any of them: the history allows more than a real one. In `Lookups` the
  live feed is only a screen from which rows are opened.
- In `Lookups`: cursors, decode modes, tabs, paging inside a list; the lists of
  holders, events, storage entries, invocations and timelines as kinds of their
  own (`Backends` has their pages); labels and notes beside a page (`Annotations`
  has them); errors of the local database; the profile.
  An entity that is looked up exists, or the call fails.
- Watch presets are a constant set in `LiveFeed`; `Presets` is about them.
  Publishing reaches the client in the order of the tail; the messages of gap fills look to the client like the tail's.
- In `ContractSpecs`: contracts keep their code; the S3 backfill, which passes no
  RPC client and so detects nothing; the counter `contract_count`.
- In `Annotations`: titles, and the order of rows where several match; lists, such as
  that of an account's operations, on which a command acts by the list's title. The
  pages of operations, events and storage entries are modelled, as `Details`.
- In `ReadApi`: pages of accounts and assets, whose tables no program here writes.
- In `Backends`: timelines, and lists that have a single page.

## 3. What is checked

### 3.1 Runs

| Run | Instance | Distinct states | Shows |
|---|---|---|---|
| `live_ingest` | 4 ledgers, batches of 2, window 3, retention 2, 2 failures | 825,465 | the tail is contiguous, duplicates need a failure, the pipeline implements the log, the tip is reached, gaps are filled |
| `backfill` | 5 ledgers, 2 workers, batches of 2, 2 runs, both sources | 1,903,510 | success means complete; a serial resume fills the range |
| `backfill_resume` | 4 ledgers, 2 workers, 2 runs | - | the finding |
| `indexer` | 3 ledgers, live loop and one worker, one run, whose worker may fail at any call | 1,683,671 | the shared cursor stays meaningful, half written ledgers have a writer, duplicates stay inside the backfill's range or need a failure, gaps the tail jumped over are filled by the scan |
| `read_api` | 3 ledgers, batches of 1, lists of 2 | 1,233,193 | answers that are put together while ledgers and the contract's row are written |
| `contract_specs` | 2 contracts with one code, 2 ledgers, 4 rows, 2 readers, 1 fault | 233,713 | specs, decodings and write back; what is asked for again is decoded in the end |
| `live_feed` | 2 transactions, scrollback 2, one preset, a row is opened once | 625,364 | view, cursor, pause; the way back finds the transaction |
| `live_feed_repairs` | 3 transactions, scrollback 1, one preset, ticks the indexer answers fair | 168,240 | losses, list and header under lagging servers; polls repair what was lost, and the header catches up |
| `lookups` | 2 transactions, 1 account, 4 moves, route of 2, cache of 1 | 129,254 | the ways back and forward, the refresh, the cache |
| `backends` | every profile, 4 ledgers, retention 3, lists of 5 or 7 rows in pages of 2 | 57,012 | who sent what; lists read to their end |
| `presets` | two names that differ in case, three words, 3 edits | 259,092 | what is saved is opened; the user's word |
| `annotations` | two entities and two names that differ in case, the page of one operation, 2 rows made | 236,811 | half done commands, imports, stale pages |

The properties, by the question they answer:

- *Does the cursor mean what a restart takes it to mean?* `TailContiguous`,
  `CursorLedgerComplete`, `SerialResumeFillsRange`.
- *Is a ledger that is announced really there, and announced once?*
  `ImplementsLog`, which joins it with the cursor's meaning.
- *Does who is told of a ledger find it?* `PromisedIsWhole`, `SummaryCoversCursor`.
- *When are rows doubled?* `DuplicatesNeedFailure`, `DuplicatesOnlyInBackfill`.
- *Can what shows a spec be decoded, and is it?* `ShownSpecDecodes`,
  `AnswersCatchUp`, `StoredDecodesNeverWorse`, `PayloadsStayInTransaction`.
- *Is everything ingested in the end, and if not, why?* `CaughtUpOrExpired`,
  `GapsFilledOrBlocked`, `HalfWrittenHasWriter`, `SuccessMeansComplete`.
- *Does the screen show what the client has?* `ViewIsWindowOrBlank`,
  `NothingLostSilently`, `ListNeverGoesBack`, `PollRepairs`.
- *Does the feed do what the user said?* `PausedFeedIsStill`,
  `SelectionFollowsTransaction`, `ReturnFindsTransaction`.
- *Does b lead where the user came from, and f back again?* `BackLeadsToOpener`,
  `BackEnds`, `ForwardUndoesBack`, `RouteSound`.
- *Does the refresh behind the user's back stay there, and say what it could not
  do?* `RefreshKeepsPlace`, `RefreshDegradesHonestly`.
- *Does the local store keep what it should?* `CacheSound`, `LabelsSound`,
  `SuccessIsComplete`; *and does the page show it?* `PageCatchesUp`.
- *Where did the rows come from, and are they all there?* `RowsNameTheirSource`,
  `LedgerPagesDescend`, `ListsLoseNothing`.
- *Is what was saved what is opened?* `WatchRestoresFeed`, `UserHasTheLastWord`.

Several of them carry a condition, and the condition is part of the result.
`CaughtUpOrExpired` and `GapsFilledOrBlocked` name the one way in which liveness
really fails: a ledger the RPC server has forgotten. `SuccessMeansComplete`
excludes empty batches and silenced errors, and says that nothing else makes a
run that reports success incomplete. `SelectionFollowsTransaction` and
`ReturnFindsTransaction` exempt the steps in which a watch preset is applied.
`ListNeverGoesBack` lets the ledger in the header go back with a poll, because it does
so when the next server lags behind the last (section 5), and with nothing else; no row
gives way to an older one even then. `PollRepairs` relies on polls that the indexer
answers; other servers may answer in between. `PromisedIsWhole` is about contract pages
that are found: one whose row is not written yet is a 404. `PageCatchesUp` is about the
pages that are read again (`Refreshable`), which those of single operations, events and
storage entries are not. `UserHasTheLastWord` exempts the one step of a session in which
a preset applies itself. `DuplicatesNeedFailure` and `DuplicatesOnlyInBackfill` say that
without a failure nothing is doubled; with one it is (section 5).
`WatchRestoresFeed` is about filters that survive their own text (`Survives`): all of
56 characters do not.
`ListsLoseNothing` exempts rows that tie, which the SQL orders at will, and lists
that have grown past Horizon's cap. `DuplicatesOnlyInBackfill` is about the first run
of a backfill: a second one takes up at the cursor, which the live pipeline may have
put below the range the operator meant. `ShownSpecDecodes` exempts a code whose upsert failed, an error
the code only logs. `PayloadsStayInTransaction` says how far an event's decoding
may stray, because stray it does (section 5).

The type invariants are definitions of their modules. All are
proved (section 4), most as parts of the inductive invariants, and only that of
the live pipeline is also a property of a run. `WorkerPrefixComplete`, on which
`SuccessMeansComplete` rests, is proved and not a property of a run.

Every property of a passing run has a mutant in `PROJECT.json`: a plausible slip
in a definition of the code, under which the run finds the property violated.
The mutated forms stand in the modules in sections of that name.

### 3.2 Bounds, and why they are enough

- *Ledgers.* With `BatchSize` 2 four ledgers give a full batch, a partial one and
  a second round; five give a backfill of two workers a chunk of two and one of
  three, so the remainder exists and a fetch has to be clamped. The interleaved
  instance has three: the tail, a ledger it jumped over, and the jump's target.
- *`GapWindow` below `MaxLedger`* lets ledgers leave the window, and
  *`Retention` 2* lets them leave the RPC server's range.
- *`MaxFailures` 2* covers a failure during the recovery from the first. It is 0 in
  `indexer` and `read_api`: there a failure of the live loop multiplies the states and
  the theorems of section 4 cover any number of them. The worker of `indexer` may fail
  at any call besides.
- *`MaxRuns` 2* is one run and its resume; 1 in `indexer`.
- *`MaxTx` 3 over `Scrollback` 1* displaces a row by one and by two; *`MaxTx` 2 and
  `Scrollback` 2* give two rows for the cursor and the replay window. A cursor on a row
  while another one is displaced is left to the theorems. *`UpdatesSize` 1* lets a poll
  overtake the queued message; *`WireSize` 1* makes Redis' client drop.
- *`Recent` 1* makes a poll's answer shorter than the list of `live_feed`, so a poll alone
  does not restore everything. *`PageStep` 2* is more than a row.
- *`MaxOpens`* bounds how often a row is opened. It is 0 where the context plays no
  part, and 1 in the run about the way back: a second capture replaces the first.
- *`MaxMoves` 4 over `RouteLimit` 2* fills the route, displaces a page from it, and
  still leaves moves for going back and forward; *`CacheLimit` 1* prunes at the
  third entity. Refreshes, ageing and changes of data are not counted. The proofs
  put no bound on any of them.
- The preset of `MCLiveFeed` has a filter and pauses, so that it changes both.
- *Pages of two rows* over lists that start with five and grow by two make a page
  end inside a tie, a list end inside a page, and rows move from one page to the next;
  *`HorizonCap` 5* is what such a list passes when it grows; *`EventWindow` 6* cuts
  one that has grown; *`Retention` 3* of four ledgers lets the RPC server refuse a page.
- *Names and entities in two spellings* are all that `EqualFold` tells apart; *the
  page of one operation* is one that nothing reads again.
  *`MaxMade` 2* gives two labels, or a label and a mark; imports are not counted. *No
  colour but the empty one*: a colour is only shown, and a stale page shows an old
  colour as it shows an old name; the theorems are for any colours.
- *Three edits* save, change and open. Restarts and what applies itself are not
  counted.
- *Two contracts with one code* let one repair what the other could not write;
  *two events of one transaction* are what the update confuses, and a third one of
  another transaction what it must leave alone; *two readers* are
  one who has listed and one who writes. *One fault* is a failing call or a crash
  at any step.

`CHECK_DEADLOCK FALSE` stands where the system really may stop or a bound is used
up: a backfill that has returned is over; the lists of `Backends` stop growing; in
`ReadApi` the bounded chain ends.

### 3.3 Fairness

`LivePipeline`: weak fairness of the tail round, of the gap scan and of the calls
of `ProcessOneLedger`, because `Run` is one goroutine that waits only for timers
and for answers. Strong fairness of `GapTick`, because it is enabled only while
the loop is at its `select`, and Go's `select` takes its default case only when
the ticker has not fired. Neither the chain's growth nor a failure is fair; both
are bounded.

`Indexer`: the same fairness of the live pipeline (`IndexerFairSpec`), and none for the
backfill, which may stop at any time.

`LiveFeed`: weak fairness of a tick that the indexer answers, because the tick issues
itself again: the assumption is that the indexer is not down for good, whoever answers
in the meantime. Neither the stream nor the handling of its messages is fair:
`PollRepairs` must not need it.

`Annotations`: weak fairness of the tick that is answered, on a page that it reads again,
for the same reason: backend and local store are not down for good. `PageCatchesUp` is
about a user who stays on such a page.

`ContractSpecs`: weak fairness of each request that is being served, whose context
has a deadline. Neither ingestion nor the goroutines are fair: `AnswersCatchUp` is
about what the tables hold, however far they got.

## 4. What is proved

Eight modules hold theorems for every value of the constants: any number of ledgers,
workers, failures, transactions, entities, moves, names, files, contracts and readers,
any size of batch, chunk, window, scrollback, channel, page, list, route and cache.

| Theorem | States |
|---|---|
| *LivePipelineProofs* | |
| `LiveTypeCorrect` | `Spec => []TypeOK` |
| `LiveTailContiguous` | `Spec => []TailContiguous` |
| `LivePublishedComplete`, `LivePublishedOnce` | `Spec => []PublishedComplete`, `Spec => []PublishedOnce` |
| `LiveStoresOnce` | `Spec => []DuplicatesNeedFailure` |
| `LiveImplementsLog` | `Spec => ImplementsLog`: every step is one of `IngestLog` or none |
| *IndexerProofs* | |
| `BackfillTypeCorrect` | `BackfillSpec => []BackfillTypeOK` |
| `BackfillWorkerPrefix` | `BackfillSpec => []WorkerPrefixComplete` |
| `BackfillSuccessMeansComplete` | `BackfillSpec => []SuccessMeansComplete` |
| `BackfillSerialResume` | `BackfillSpec => []SerialResumeFillsRange` |
| `SharedCursorLedger` | `IndexerSpec => []CursorLedgerComplete` |
| `SharedBackfillPromises` | `IndexerSpec => [](WorkerPrefixComplete /\ SuccessMeansComplete)` |
| `SharedHalfWritten` | `IndexerSpec => []HalfWrittenHasWriter` |
| `SharedDuplicates` | `IndexerSpec => []DuplicatesOnlyInBackfill` |
| `SummariesCoverCursor` | `ApiSpec => []SummaryCoversCursor` |
| `PromisesAreKept` | `ApiSpec => []PromisedIsWhole` |
| *ContractSpecsProofs* | |
| `ContractSpecsTypeCorrect` | `Spec => []ContractSpecsTypeOK` |
| `DecodingsStayInTransaction` | `Spec => []PayloadsStayInTransaction` |
| `ShownSpecsDecode` | `Spec => []ShownSpecDecodes` |
| `DecodesOnlyImprove` | `Spec => StoredDecodesNeverWorse` |
| *LiveFeedProofs* | |
| `FeedTypeCorrect` | `Spec => []LiveFeedTypeOK` |
| `FeedShowsWindow` | `Spec => []ViewIsWindowOrBlank` |
| `FeedNeverTurnsBack` | `Spec => ListNeverGoesBack` |
| `FeedStillWhilePaused` | `Spec => PausedFeedIsStill` |
| `FeedLosesNothing` | `Spec => []NothingLostSilently` |
| `FeedCursorFollows` | `Spec => SelectionFollowsTransaction` |
| `FeedReturnsToTransaction` | `Spec => ReturnFindsTransaction` |
| *LookupsProofs* | |
| `LookupsTypeCorrect` | `Spec => []LookupsTypeOK` |
| `RouteBounded`, `CacheBounded` | `Spec => []RouteSound`, `Spec => []CacheSound` |
| `ForwardInverse` | `Spec => []ForwardUndoesBack` |
| `BackTerminates` | `Spec => BackEnds` |
| `BackReturnsToOpener` | `Spec => BackLeadsToOpener` |
| `RefreshInPlace` | `Spec => RefreshKeepsPlace` |
| `RefreshIsHonest` | `Spec => RefreshDegradesHonestly` |
| *PresetsProofs* | |
| `PresetsTypeCorrect` | `Spec => []PresetsTypeOK` |
| `OpenRestoresFeed` | `Spec => WatchRestoresFeed` |
| `UserDecides` | `Spec => UserHasTheLastWord` |
| *BackendsProofs* | |
| `PagesNameTheirSource` | `Spec => []RowsNameTheirSource` |
| `LedgerPagesLeadDown` | `Spec => []LedgerPagesDescend` |
| `ListsAreComplete` | `Spec => []ListsLoseNothing` |
| *AnnotationsProofs* | |
| `AnnotationsTypeCorrect` | `Spec => []AnnotationsTypeOK` |
| `LabelsStaySound` | `Spec => []LabelsSound` |
| `SuccessMeansAll` | `Spec => SuccessIsComplete` |

They assume what the modules assume of their constants (sizes are positive
naturals, the live process is a publisher, presets have a filter and a pause,
every detail has a parent), and the library's facts about finite sets and sequences.

**The live pipeline.** None of the three safety invariants is inductive. That the
ledger about to become the cursor is complete is known only from the calls already
made for it (`Written`); that it is the cursor's successor, only from where the
round started (`TailPosition`: a round that is fetching has `next = ingested + 1`,
and while it writes, `led = ingested + 1`); that a gap fill does not disturb the
tail or announce a ledger twice, only from the fact that it works on ledgers
without a row at or below the cursor (`FillPosition`); that a ledger at hand has
not been announced yet is `Unpublished`. `IInv` is the conjunction of `TypeOK`,
`Bounds`, these four and the three invariants. There is one lemma for each call of
`ProcessOneLedger` (`WriteInv`, `AdvanceCursorInv`, `PublishLedgerInv`,
`PublishTransactionsInv`) and one for each group of control steps (`TailInv`,
`GapInv`, `OtherInv`); `ControlFrame` carries the properties of the tables through
steps that do not touch them. The refinement `LiveImplementsLog` uses the same
invariant: a write is `Store` exactly when it is the last one missing, which needs
`Written`; the cursor is `MoveHead` because of `Written` and `TailPosition`; a
publication is `Announce` because of `Unpublished`; all else is a stutter.

That nothing is stored twice without a failure needs to know what is *not* there yet
(`OnceInv`): a ledger's row is the first thing stored of it (`RowFirst`), above the
cursor there is only what the tail has written of the ledger at hand (`NothingAhead`),
and what that ledger still lacks is absent (`Unwritten`). The gap scan needs no
conjunct of its own, since it fetches ledgers without a row, hence without anything.

**The backfill.** The arithmetic comes first: integer division leaves a remainder below
the divisor (`DivisionFacts`), so the blocks of `Run` follow one another (`BlockFacts`),
and the chunks partition the range for every range and number of workers (`ChunkFacts`,
`ChunksCover`). `BInv` then says where each worker is in its chunk (`WorkerBounds`), that
what it has written of its ledger is what `step` says (`Stored`), and that what lies
behind it, in its batch and in its chunk, is whole. `SuccessMeansComplete` follows by
`ChunksCover`: a run that reports success without a dry or silenced worker has every
worker behind its chunk's end. For the serial resume, `WantedPrefixComplete` carries the
prefix from one run to the next: with one worker the cursor is its prefix.

**Both on one database.** Neither program's invariant survives the other's steps as it
stands: the backfill moves the live pipeline's cursor. `SharedInv` therefore keeps `BInv`
whole and of the live pipeline only what does not mention the cursor's value
(`LivePosition`), and each program's calls are shown to disturb nothing of the other's.
`BeingWritten` is `HalfWrittenHasWriter` strengthened: a ledger with its row but not
whole is some process' ledger, behind the first write and before the cursor, unless
something failed. `OutsideInv` is `OnceInv` for the ledgers outside the range: below the
tail's position instead of below the cursor, which may jump ahead.

**Read API.** `ReadInv` adds to the live pipeline's invariant that no cursor a client has
seen is ahead of the table's (`CursorsBehind`), that what was promised when a request began is
whole (`PromiseKept`), and what the queries made so far have found (`ReadSoFar`), of the
contract's page also that its row was there (`Found`) and, since rows stay, still is
when the spec is joined to it. These
rest on the tables only growing (`LiveGrows`). That a list of the newest rows covers what
was promised down to its last row is `TopCovers`.

**The live feed.** `LInv` says that the feed is *well kept* (its view is the
window of its filter and replay offset, or empty, and only a paused feed has a
replay offset), that messages under way are about finished ledgers, and that a captured
context came from a well kept feed: a restored context's replay offset is harmless only
because it was captured together with the pause. Nothing relates the header to the
indexer's ledger, since any server may have put its own there. `FeedNeverTurnsBack` goes
through the handlers with two facts of each operation: that it keeps or displaces every
row, because merging takes the newest of what is kept and what comes in, and that a
message raises the header or leaves it (`LastAfter`), whatever its age.
The first half of the module proves each operation of `FeedModel` once
(`ApplyViewFacts`, `StreamedFacts`, `RefreshedFacts`, `UserFacts`,
`ContextFacts`), the second half follows the handlers that call them.

The three properties about single transactions count rows. `NothingLostSilently` is
invariant because merging keeps a row or puts `Scrollback` newer ones above it
(`MergedFacts`), and what is above a row stays above it: a transaction is kept, displaced
for good (`Kept`), or still in a queue (`Accounted`). `SelectionFollowsTransaction` is shown for
each operation as `Follows`; numbers of rows are a bijection (`RowFacts`, `RowExists`, a
pigeonhole argument). `ReturnFindsTransaction` needs that the captured transaction is not displaced while
older ones come in and not above the replay window that was open then (`Findable`).
`FeedTypeCorrect` is proved last, since that row numbers stay below `Scrollback` needs the
rest of the invariant: no more rows are kept than that (`NewestFew`, `FewRowsFacts`),
and every way to set a number ends in a clamp or in the number of a row kept (`Low`).

**Lookups.** `RouteSound` alone is not inductive: `b` moves a page from one way to
the other and drops the page shown if that failed, so what stays bounded is the sum
of both ways, and what is put on either must be a ready page of the right type
(`WorkNav`). A handler passes through a state the user never sees, with a loading
page; the lemmas therefore speak of `WorkState` inside a handler and `GoodState` at
its end, and `LookupsInv` is the second for `nav` and `cache`. The limit of the cache
is `CacheLimit + 1`, because `UpsertedGood` needs only that pruning brings any table
to the limit (`PrunedGood`) and that replacing a row leaves no second one
(`WithoutGood`). `ForwardInverse` follows because the last page of a route and the
rest make up the route again (`LastAndRest`); `RefreshInPlace` because a loading page
is never remembered (`RefreshedPlace`); `BackReturnsToOpener` because a ready page
that is left is the last of the route afterwards, also when the oldest one had to go
(`RememberedLast`), and the refresh behind the command does not touch the route.
`RefreshIsHonest` needs an invariant of its own, `HonestPages`: no page shown or on
either way is ahead of the backend, so that what a refresh brings is no older. It is
carried through every method of the model, as `GoodState` is.

**Backends.** `CallFacts` opens `Sources` once: whatever the profile and whatever each
server does, who answers is one server, or for an account both, and the metadata left
behind names it (`CallNames`). The pages of ledgers rest on `HighestFacts`: the rank of
an element numbers a finite set from above, so the highest few of a set are what the
definition by `CHOOSE` lists. `LedgersInv` says that the next page begins at the least
row shown and that an indexer's pages have shown everything it had above; it holds from
page to page because ledgers that come in below were not there at the start. `ListsInv`
says that what a server that sent every page has shown covers every place up to the
next offset (`SliceCovers`, `RowsCover`): rows that come in move those of the start only
further down, so nothing slips past the offset (`RowsComeIn`).

**Presets.** A watch is found by name in a list whose order is that of writing:
`PresetsInv` says so (`Ordered`), and that each row has the text and the state of the feed
it was saved from (`Recorded`). Deleting a row leaves the others in their order
(`DeletedFacts`), and what is saved comes first, so that the first row of a name is the
last one written. That the user has the last word is about single steps:
`ProfileWatchedFacts` says that coming to the live feed changes nothing, or applies a preset
for the first time.

**Annotations.** `LabelsSound` is not inductive: that a new label gets an id and a
name no other one has rests on where ids come from. `AInv` adds that a label with
an id of the file has that id's name (`IdsFromNames`) and that ids drawn from the
clock are below the counter. Deleting row by row keeps it because attachments go
before their label, at whatever statement it stops; an import keeps it because each
attachment is written behind its label. `SuccessMeansAll` rests on `NotStopped`: a
command whose statements stopped early never ends with the message of success.

**Contract specs.** `CInv` says of every decoding, in the table, in the batch at
hand and in the answers being put together, that it is one of `Best` or nothing, and
of the same item or, for an event, of a sibling; and of every goroutine between its
two upserts that its code is in the table with its spec, or its upsert was the one
that failed. `StoredDecodesNeverWorse` follows because what waits to be written back is always
the full decoding of its own item (`Due`, which rests on `Improved`), and that is the
same for every reader.

### Only model-checked

- Liveness: `CaughtUpOrExpired`, `GapsFilledOrBlocked` (alone and beside a backfill),
  `PollRepairs`, `PageCatchesUp`, `AnswersCatchUp`. TLAPS does not reason about `ENABLED` and
  fairness of this kind.

Facts by induction over data are out of the prover's reach as well; no module
here has a recursive operator.

## 5. Findings

**The documented resume of a parallel backfill skips ledgers** (`backfill_resume`,
`ResumeFillsRange`). The cursor is the highest ledger any worker finished; a run
resumed from it, as `tui-indexer/README.md:144` advises, leaves out what lower chunks
had not done. With one worker the resume is right (`SerialResumeFillsRange`).

Met while modelling, and left without a run of their own:

*Indexer*

- *Events overwrite each other's decoding.* `BackfillContractEventSpecDecode`
  (`store/spec_backfill.go:37`) updates by contract, transaction, ledger and time. After
  a read, all events of a contract in one transaction hold the decoding, and the first
  topic, of the one written last; if that is "decoded", nothing decodes them again.
- A stop during a gap fill or a first round leaves a ledger half written for good: it
  has its row, so neither the tail nor the gap scan comes back to it
  (`tui-indexer/README.md:121` promises a graceful shutdown).
- A crash after the cursor loses the goroutines of the ledger's contracts, and nothing
  detects these contracts again. A failed `UpsertContractCode` is logged and the
  contract written all the same: it shows a spec that cannot decode, until another
  contract with that code comes. The S3 backfill detects no contracts, and no program
  notices an upgrade. `contract_count` grows whenever a ledger is processed again.
- A spec that fails to load is taken for none: the answer then marks an invocation
  "spec_unavailable", also one that is stored as partially decoded.
- An RPC answer without ledgers makes the batch loop ask again at once (`live.go:117`).
- A ledger that is processed again after an error stores its operations and events
  twice (`postgres.go:88`): their tables have no key over the row.
- A contract's page is a 404 until its goroutine has written its row (`server.go:725`),
  also after its calls were announced; its list of transactions lacks those that have
  only an event of it (`postgres.go:523-557`).

*Live feed*

- The ledger in the header goes back when a poll that another server answered is
  followed by one of an indexer that lags: it is assigned without a guard
  (`model.go:454`, `hybrid_backend.go:60`).
- The feed's source label comes from a backend made for the poll, before its call
  (`main.go:246`): rows of a fallback are labelled as the indexer's.
- Rows that a Stellar RPC server answers with carry no account and are never Soroban ones
  (`rpcbackend/backend.go:97`): where they are shown, account and class filters, which
  `tui/README.md:31` says work in all modes, select none or all of them.
- `live filter Account G...` is accepted and filters nothing (`app/live_feed.go:87`).
- Updates that arrive during a pause are dropped by the runtime; the model has a buffer
  for them, and its test expects them after the resume (`live_feed_test.go:55`).
- Once the model's selection is positive, `j` and `k` no longer move it: the dashboard
  takes the model's index over before every key (`components.go:377`).
- `live ...` commands may be followed, once in a session, by the profile's preset, also
  `live return`, which has just restored filter and pause (`tui/cmd/tui/main.go:308`,
  against `tui/README.md:341`). The properties about returning exempt that step. The
  preset is not applied when the session comes back on the live feed.

*Lookups and backends*

- `lookup op <txhash>:<index>` looks for the index among the operations of the page in
  the lookup state first, and uses the hash asked for only if there are none
  (`main.go:1760`, against `tui/README.md:354`).
- The label of a single entity's page is taken before the call it is about
  (`cache_lookup.go:124`), and may name another source than that of the data.
- The tick's refresh of a page closes the list opened on it and drops its return
  context; `b` then leads to the live feed only by way of the screen history.
- A page that shows an error is not refreshed, neither by the tick nor by `r`.
- A lookup that has to be fetched leaves no entry in the page history, since the
  loading page takes the place of the page before; one answered from the cache does.
- `ReturnToLiveMonitoring` leaves the screen history alone: `b` on the live feed may
  lead to the live feed.
- `open cache` is unreachable (`tui/README.md:133`): `workspace.go:14` does not know it.
- Horizon's ledgers are asked for with a sequence as paging cursor
  (`horizonbackend/backend.go:131`). Horizon's own tokens are of another measure; what
  comes back is then filtered by sequence, and a page may have no rows.

*Presets and annotations*

- A watch loses every filter by an account or contract: the 56 characters are cut to
  twelve when it is saved, and match nothing when it is opened (`watch.go:139`, against
  `tui/README.md:343` and `407`, which say the filter is restored).
- The page of a bookmarked operation, event or storage entry does not show the bookmark
  when it is opened again, until a command is given on it (`main.go:1791`,
  `cache_lookup.go:187`). An event or storage entry is bookmarked by its place in a list
  (`contract:event-3`), which is another entry's once the list has grown.
- The palette's refresh overwrites a command's own message; the warning that metadata
  could not be read again is overwritten by the message of success.
- Rows of `open notes` look up an asset called after the entity's kind, and lead nowhere;
  so do bookmarks, labels and views of operations, events and storage entries
  (`metadata_search.go:258`).
- Importing `labels.toml` at each start removes the colours of its labels, brings back
  attachments the user removed, and doubles a label of the user with the same name, of
  which `label remove` then detaches only the first. A failed import ends the program.
- `label delete` or `label color` from another screen leaves a page stale until the next
  tick (`PageCatchesUp` says that it ends there). Targets are compared without case,
  which mixes assets whose codes differ in it.
- `watch save` clears the automatic mark; `watch open` does not count as applied; a view
  brings back its filter only if it is a class.

## 6. What is not modelled

Pure code: XDR decoding, transformations, value decoding with a spec, rendering, search
ranking, configuration. Examples test it better than states do. Pure I/O: RPC, S3, SQLite
statements, containers; what the modelled parts rely on is their environment. Searches
and lists of accounts, assets and contracts in the read API are single queries over
tables that none of these programs writes, or that `ContractSpecs` has.

## 7. Plan

1. **LiveFeed with histories**: `LookupModel`'s screens in place of the one value
   "other" and the nondeterministic history, in the run about the way back.
2. Several transactions per ledger in `FeedModel`, with the order of streamed
   against polled rows.
3. The tabs and cursors of the contract workspace in `LookupModel`.

Theorems to follow: a refinement of `BackfillPipeline` to an
abstract filler of ranges.

## 8. Running

```
tlc -workers 2 -config LivePipeline.cfg MCLivePipeline     # run live_ingest
tlc -workers 2 -config LiveFeed.cfg MCLiveFeed             # run live_feed
tlapm LivePipelineProofs.tla                               # likewise the other
tlapm IndexerProofs.tla                                    # six ...Proofs.tla
```

`PROJECT.json` names module and configuration of every run, maps every definition
to the lines it stands for, and lists mutants, findings, hazards and theorems.
