---------------------------- MODULE LivePipeline -----------------------------
(***************************************************************************)
(* LivePipeline.Run (tui-indexer/internal/pipeline/live.go): the loop that *)
(* tails the chain and, when its ticker fires, scans for missing ledgers.  *)
(*                                                                         *)
(* The loop is at "select"; "poll" is ingestNewLedgers about to ask for    *)
(* the chain's tip, "resume" about to read the cursor, "fetch" about to    *)
(* fetch a batch, "batch" inside ProcessOneLedger; "scan" and "gaps" are   *)
(* detectAndFillGaps about to query and to fetch, "fill" inside            *)
(* ProcessOneLedger for a missing ledger.                                  *)
(*                                                                         *)
(* External: the RPC server, of which only the tip of the chain and the    *)
(* number of ledgers it retains matter.  It answers a request that starts  *)
(* inside its range with a run of consecutive ledgers, no longer than      *)
(* asked, and refuses any other.  After an empty answer the loop asks the  *)
(* same again: a step that changes nothing.                                *)
(***************************************************************************)
EXTENDS ProcessLedger

CONSTANTS
  Live,         \* the live pipeline's process
  BatchSize,    \* BATCH_SIZE
  GapWindow,    \* liveGapScanWindow
  Retention,    \* ledgers the RPC server keeps
  MaxFailures   \* bound: errors and crashes in one behaviour

ASSUME LiveAssumption == Live \in Procs /\ Live \in Publishers
ASSUME BatchSizeAssumption == BatchSize \in Nat \ {0}
ASSUME GapWindowAssumption == GapWindow \in Nat \ {0}
ASSUME RetentionAssumption == Retention \in Nat \ {0}
ASSUME MaxFailuresAssumption == MaxFailures \in Nat

VARIABLES
  tip,          \* external: the chain's latest ledger
  pc,           \* where Run is
  target,       \* latest.Sequence in a tail round, lastIngested in a gap scan
  next,         \* cursor of ingestNewLedgers: the next ledger to fetch
  todo,         \* the missing ledgers of a gap scan not fetched yet
  failures      \* how many failures there were

liveVars == <<tip, pc, target, next, todo, failures>>
vars == <<storeVars, procVars, liveVars>>

PCs == {"select", "poll", "resume", "fetch", "batch", "scan", "gaps", "fill"}

LiveTypeOK ==
  /\ tip \in Ledgers
  /\ pc \in PCs
  /\ target \in 0 .. MaxLedger
  /\ next \in 1 .. MaxLedger + 1
  /\ todo \subseteq Ledgers
  /\ failures \in 0 .. MaxFailures

\* One type invariant for the live pipeline, its process and the tables.
TypeOK == StoreTypeOK /\ ProcTypeOK /\ LiveTypeOK

LiveInit ==
  /\ tip \in Ledgers
  /\ pc = "select"
  /\ target = 0
  /\ next = 1
  /\ todo = {}
  /\ failures = 0

Init == StoreInit /\ ProcInit /\ LiveInit

\* The oldest ledger the RPC server still has.
Oldest == IF tip > Retention THEN tip - Retention + 1 ELSE 1

Smaller(a, b) == IF a < b THEN a ELSE b

Goto(where) == pc' = where

-----------------------------------------------------------------------------
(* Mutated forms, each a plausible slip in the definition that follows.     *)

\* The tip itself taken as ingested already.
UpToDateOffByOne(last) == target <= last + 1

\* A ledger skipped between two batches.
BatchDoneSkipsOne ==
  /\ pc = "batch"
  /\ step[Live] = "idle"
  /\ next' = upto[Live] + 2
  /\ pc' = IF upto[Live] < target THEN "fetch" ELSE "select"
  /\ UNCHANGED <<storeVars, procVars, tip, target, todo, failures>>

\* The window's first ledger left out.
GapScanStartOffByOne == IF target > GapWindow THEN target - GapWindow + 2 ELSE 2

-----------------------------------------------------------------------------
(* The environment.                                                         *)

\* The network closes a ledger.
CloseLedger ==
  /\ tip < MaxLedger
  /\ tip' = tip + 1
  /\ UNCHANGED <<storeVars, procVars, pc, target, next, todo, failures>>

-----------------------------------------------------------------------------
(* The tail round: ingestNewLedgers.                                        *)

\* The select of Run takes its default case, or ingestNewLedgers follows the
\* gap scan; either way the chain's tip is read first.
GetLatestLedger ==
  /\ pc \in {"select", "poll"}
  /\ target' = tip
  /\ Goto("resume")
  /\ UNCHANGED <<storeVars, procVars, tip, next, todo, failures>>

\* What a round takes as ingested: with no cursor it starts at the tip itself.
LastIngested == IF ingested = 0 THEN target - 1 ELSE ingested

UpToDate(last) == target <= last

\* The cursor is read and the round has work to do, or has none.
ResumeFromCursor ==
  /\ pc = "resume"
  /\ IF UpToDate(LastIngested)
     THEN Goto("select") /\ UNCHANGED next
     ELSE Goto("fetch") /\ next' = LastIngested + 1
  /\ UNCHANGED <<storeVars, procVars, tip, target, todo, failures>>

\* processLedgerBatch got the ledgers and their transactions.
FetchBatch ==
  /\ pc = "fetch"
  /\ next >= Oldest
  /\ \E count \in 1 .. Smaller(BatchSize, target - next + 1) :
        Begin(Live, next, next + count - 1)
  /\ Goto("batch")
  /\ UNCHANGED <<storeVars, tip, target, next, todo, failures>>

\* The server no longer has the ledger after the cursor: the round fails.
FetchRefused ==
  /\ pc = "fetch"
  /\ next < Oldest
  /\ Goto("select")
  /\ UNCHANGED <<storeVars, procVars, tip, target, next, todo, failures>>

\* The batch is processed: the round goes on behind it, or is over.
BatchDone ==
  /\ pc = "batch"
  /\ step[Live] = "idle"
  /\ next' = upto[Live] + 1
  /\ Goto(IF upto[Live] < target THEN "fetch" ELSE "select")
  /\ UNCHANGED <<storeVars, procVars, tip, target, todo, failures>>

-----------------------------------------------------------------------------
(* The gap scan: detectAndFillGaps.                                         *)

\* The ticker fires; without a cursor the scan is skipped.
GapTick ==
  /\ pc = "select"
  /\ target' = ingested
  /\ Goto(IF ingested = 0 THEN "poll" ELSE "scan")
  /\ UNCHANGED <<storeVars, procVars, tip, next, todo, failures>>

GapScanStart == IF target > GapWindow THEN target - GapWindow + 1 ELSE 1

FindGaps ==
  /\ pc = "scan"
  /\ todo' = FindMissingLedgerSequences(GapScanStart, target, BatchSize)
  /\ Goto(IF todo' = {} THEN "poll" ELSE "gaps")
  /\ UNCHANGED <<storeVars, procVars, tip, target, next, failures>>

\* The first of the contiguousLedgerBatches of what is left to do.
FirstRun ==
  {l \in todo : \E f \in todo : /\ \A m \in todo : f <= m
                                /\ f .. l \subseteq todo}

\* A batch of missing ledgers is fetched; what the server leaves out of it is
\* left to the next scan.
FetchGap ==
  /\ pc = "gaps"
  /\ \E first \in FirstRun : \E last \in FirstRun :
       /\ \A l \in FirstRun : first <= l
       /\ first <= last
       /\ first >= Oldest
       /\ Begin(Live, first, last)
  /\ todo' = todo \ FirstRun
  /\ Goto("fill")
  /\ UNCHANGED <<storeVars, tip, target, next, failures>>

\* The lowest missing ledger is older than the server's range: the scan ends.
GapRefused ==
  /\ pc = "gaps"
  /\ \E l \in todo : l < Oldest
  /\ todo' = {}
  /\ Goto("poll")
  /\ UNCHANGED <<storeVars, procVars, tip, target, next, failures>>

FillDone ==
  /\ pc = "fill"
  /\ step[Live] = "idle"
  /\ Goto(IF todo = {} THEN "poll" ELSE "gaps")
  /\ UNCHANGED <<storeVars, procVars, tip, target, next, todo, failures>>

-----------------------------------------------------------------------------
(* Failures.  A call that failed after it took effect is the call that      *)
(* succeeded followed by a failure.                                         *)

\* A tail round returns an error, or the program ends and is started again:
\* what it held in memory is gone.
Interrupt ==
  /\ failures < MaxFailures
  /\ pc # "select"
  /\ failures' = failures + 1
  /\ Abandon(Live)
  /\ todo' = {}
  /\ Goto("select")
  /\ UNCHANGED <<storeVars, tip, target, next>>

\* An error ends the gap scan; ingestNewLedgers follows.
GapFailure ==
  /\ failures < MaxFailures
  /\ pc \in {"scan", "gaps", "fill"}
  /\ failures' = failures + 1
  /\ Abandon(Live)
  /\ todo' = {}
  /\ Goto("poll")
  /\ UNCHANGED <<storeVars, tip, target, next>>

-----------------------------------------------------------------------------

Process ==
  /\ pc \in {"batch", "fill"}
  /\ ProcessOneLedger(Live)
  /\ UNCHANGED liveVars

Tail == GetLatestLedger \/ ResumeFromCursor \/ FetchBatch \/ FetchRefused \/ BatchDone
Gap == FindGaps \/ FetchGap \/ GapRefused \/ FillDone
LiveStep == Tail \/ GapTick \/ Gap \/ Process \/ Interrupt \/ GapFailure

Next == CloseLedger \/ LiveStep

Spec == Init /\ [][Next]_vars

\* Run never returns to its caller and waits only for timers and for answers,
\* so each of its parts goes on.  The select of Run prefers a ticker that has
\* fired to its default case: a scan that can start again and again starts.
\* The chain need not grow and nothing need fail.
Fairness ==
  /\ WF_vars(Tail)
  /\ WF_vars(Gap)
  /\ WF_vars(Process)
  /\ SF_vars(GapTick)

FairSpec == Spec /\ Fairness

-----------------------------------------------------------------------------
(* Properties.                                                              *)

\* From the first ledger it ever finished up to its cursor, a live indexer has
\* every ledger with all its batches, whatever failed and whenever it was
\* restarted.  The cursor is the only thing a restart knows; a ledger the
\* cursor passes is not visited again, and one with a row is not a gap.
TailContiguous ==
  ingested # 0 => /\ origin \in 1 .. ingested
                  /\ \A l \in origin .. ingested : Complete(l)

\* A subscriber is told of a ledger only when a reader finds all of it, and
\* when the cursor would not make a restart ingest it again.
PublishedComplete ==
  \A c \in Channels, l \in Ledgers :
    published[c][l] > 0 => Complete(l) /\ l <= ingested

\* No ledger is announced twice, although the tail retries what failed and the
\* gap scan publishes too.
PublishedOnce ==
  \A c \in Channels, l \in Ledgers : published[c][l] <= 1

\* Without a failure tail and gap scan never ingest the same ledger: the tables
\* without a unique key hold each batch once.
DuplicatesNeedFailure ==
  failures = 0 => \A l \in Ledgers, t \in Tables : rows[l][t] <= 1

\* Once the chain stops growing and failures stop, the cursor reaches the tip,
\* unless the ledger after it has left the server's range: that round is
\* refused for ever.
CaughtUpOrExpired ==
  <>[](ingested = tip \/ (ingested > 0 /\ ingested + 1 < Oldest))

\* The ledgers the gap scan looks at that have no row.
WindowGaps ==
  LET lo == IF ingested > GapWindow THEN ingested - GapWindow + 1 ELSE 1
  IN  {l \in lo .. ingested : ~ HasRow(l)}

\* Every ledger missing from the scan's window is filled in the end, unless a
\* missing one has left the server's range: it is the lowest, each scan starts
\* with it, and it holds up all those behind it.
GapsFilledOrBlocked ==
  <>[](WindowGaps = {} \/ \E l \in WindowGaps : l < Oldest)

\* The abstract log, seen through the tables: a ledger is stored when it has
\* all its batches, the head is the cursor.
Log == INSTANCE IngestLog WITH
  Seqs   <- Ledgers,
  Topics <- Channels,
  stored <- {l \in Ledgers : Complete(l)},
  head   <- ingested,
  first  <- origin,
  told   <- published

\* The live pipeline implements the log, through failures and restarts: no step
\* of tail round, gap scan or restart takes a whole ledger away, moves the head
\* over a ledger that is not whole, or announces one twice or too early.
ImplementsLog == Log!LogSpec
=============================================================================
