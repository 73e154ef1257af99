-------------------------- MODULE BackfillPipeline ---------------------------
(***************************************************************************)
(* BackfillPipeline.Run and S3BackfillPipeline.Run                         *)
(* (tui-indexer/internal/pipeline/backfill.go, s3backfill.go): a range of  *)
(* ledgers is cut into chunks, one goroutine works through each, and Run   *)
(* waits for all of them.  The two differ in their source only:            *)
(*   "rpc" fetches batches, and a worker that gets an empty one stops      *)
(*         without an error;                                               *)
(*   "s3"  fetches single ledgers, starts at ledger 3 at the lowest, and   *)
(*         keeps quiet about errors once the context is cancelled.         *)
(*                                                                         *)
(* The operator starts a run, may interrupt it, and may resume it.         *)
(***************************************************************************)
EXTENDS ProcessLedger

CONSTANTS
  FetchSize,    \* BATCH_SIZE
  MaxWorkers,   \* bound: the highest WORKER_COUNT
  MaxRuns       \* bound: how often the operator starts a run

Workers == 0 .. MaxWorkers - 1

ASSUME FetchSizeAssumption == FetchSize \in Nat \ {0}
ASSUME MaxWorkersAssumption == MaxWorkers \in Nat \ {0}
ASSUME WorkersAssumption == Workers \subseteq Procs /\ Workers \cap Publishers = {}
ASSUME MaxRunsAssumption == MaxRuns \in Nat

VARIABLES
  run,          \* "none", "running", then what Run returned: "nil" or "error"
  source,       \* the source of the run's ledgers, "rpc" or "s3"
  workerCount,  \* WORKER_COUNT of the run
  startLedger,  \* the range of the run
  endLedger,
  wstate,       \* per worker: "off", "fetch", "batch", "done", or how it failed
  cursor,       \* per worker: the next ledger to fetch
  dry,          \* workers of the run that stopped on an empty batch
  cancelled,    \* whether the run's context is cancelled
  runs,         \* how many runs were started
  wanted        \* history: the ledgers the operator asked for in the first run

backfillVars == <<run, source, workerCount, startLedger, endLedger,
                  wstate, cursor, dry, cancelled, runs, wanted>>
rangeVars == <<source, workerCount, startLedger, endLedger, runs, wanted>>

WorkerStates ==
  {"off", "fetch", "batch", "done",
   "failed",    \* its error is in errCh
   "silent"}    \* its error was dropped

BackfillTypeOK ==
  /\ StoreTypeOK /\ ProcTypeOK
  /\ run \in {"none", "running", "nil", "error"}
  /\ source \in {"rpc", "s3"}
  /\ workerCount \in 1 .. MaxWorkers
  /\ startLedger \in Ledgers /\ endLedger \in Ledgers
  /\ wstate \in [Workers -> WorkerStates]
  /\ cursor \in [Workers -> 1 .. MaxLedger + 1]
  /\ dry \subseteq Workers
  /\ cancelled \in BOOLEAN
  /\ runs \in 0 .. MaxRuns
  /\ wanted \subseteq Ledgers

BackfillInit ==
  /\ run = "none" /\ source = "rpc" /\ workerCount = 1
  /\ startLedger = 1 /\ endLedger = 1
  /\ wstate = [w \in Workers |-> "off"]
  /\ cursor = [w \in Workers |-> 1]
  /\ dry = {} /\ cancelled = FALSE
  /\ runs = 0 /\ wanted = {}

-----------------------------------------------------------------------------
(* The split of the ledgers s..e among n workers.                           *)

Smallest(a, b) == IF a < b THEN a ELSE b

\* How many workers a range gets: never more than it has ledgers.
WorkersFor(s, e, n) == Smallest(e - s + 1, n)

ChunkSize(s, e, n) == (e - s + 1) \div WorkersFor(s, e, n)

ChunkStart(s, e, n, w) == s + w * ChunkSize(s, e, n)

\* Mutated form: the remainder of the division left to nobody.
ChunkEndNoRemainder(s, e, n, w) == ChunkStart(s, e, n, w) + ChunkSize(s, e, n) - 1

\* The last worker takes the remainder.
ChunkEnd(s, e, n, w) ==
  IF w = WorkersFor(s, e, n) - 1
  THEN e
  ELSE ChunkStart(s, e, n, w) + ChunkSize(s, e, n) - 1

Chunk(s, e, n, w) == ChunkStart(s, e, n, w) .. ChunkEnd(s, e, n, w)

\* The clamp of the S3 pipeline; the genesis ledgers are not in the data lake.
FirstLedger(src, s) == IF src = "s3" /\ s < 3 THEN 3 ELSE s

-----------------------------------------------------------------------------
(* Mutated forms.                                                           *)

\* The limit of a fetch not cut to what is left of the chunk.
FetchSizesUnclamped(w) == 1 .. Smallest(FetchSize, MaxLedger - cursor[w] + 1)

\* The range started over from its second ledger.
ResumePointOffByOne == IF ingested = 0 THEN startLedger ELSE Smallest(ingested + 2, endLedger)

-----------------------------------------------------------------------------
(* Run, and what the operator does.                                         *)

\* Run: the range is split and the workers are started.  A range that ends
\* before it starts is refused and changes nothing.
Start(src, s, e, n) ==
  LET from == FirstLedger(src, s)
      used == {w \in Workers : w < WorkersFor(from, e, n)}
  IN  /\ run # "running" /\ runs < MaxRuns
      /\ from <= e
      /\ run' = "running" /\ source' = src /\ workerCount' = n
      /\ startLedger' = from /\ endLedger' = e
      /\ wstate' = [w \in Workers |-> IF w \in used THEN "fetch" ELSE "off"]
      /\ cursor' = [w \in Workers |-> IF w \in used THEN ChunkStart(from, e, n, w) ELSE 1]
      /\ dry' = {} /\ cancelled' = FALSE
      /\ runs' = runs + 1
      /\ wanted' = IF runs = 0 THEN from .. e ELSE wanted
      /\ UNCHANGED <<storeVars, procVars>>

\* The operator's first run: any range, from either source.
StartFirst ==
  /\ runs = 0
  /\ \E src \in {"rpc", "s3"}, s, e \in Ledgers, n \in 1 .. MaxWorkers : Start(src, s, e, n)

\* README.md:144, "re-run with --start set to the last successfully ingested
\* ledger": the one the ingestion cursor holds.
ResumePoint == IF ingested = 0 THEN startLedger ELSE ingested

\* The run did not get through, and the operator starts it again.
Resume ==
  /\ run = "error" \/ (run = "nil" /\ cancelled)
  /\ Start(source, ResumePoint, endLedger, workerCount)

\* SIGINT or SIGTERM.
Cancel ==
  /\ run = "running" /\ ~ cancelled
  /\ cancelled' = TRUE
  /\ UNCHANGED <<storeVars, procVars, rangeVars, run, wstate, cursor, dry>>

\* wg.Wait()
AllReturned == \A w \in Workers : wstate[w] \notin {"fetch", "batch"}

\* All workers returned, their errors are collected, and Run returns too.
Finish ==
  /\ run = "running" /\ AllReturned
  /\ run' = IF \E w \in Workers : wstate[w] = "failed" THEN "error" ELSE "nil"
  /\ UNCHANGED <<storeVars, procVars, rangeVars, wstate, cursor, dry, cancelled>>

-----------------------------------------------------------------------------
(* runWorker.                                                               *)

End(w) == ChunkEnd(startLedger, endLedger, workerCount, w)

\* The sizes of the batch a fetch may return.
FetchSizes(w) ==
  1 .. Smallest(IF source = "rpc" THEN FetchSize ELSE 1, End(w) - cursor[w] + 1)

\* The worker's next ledgers arrive; with the context cancelled they do not.
FetchLedgers(w) ==
  /\ wstate[w] = "fetch" /\ ~ cancelled
  /\ \E count \in FetchSizes(w) : Begin(w, cursor[w], cursor[w] + count - 1)
  /\ wstate' = [wstate EXCEPT ![w] = "batch"]
  /\ UNCHANGED <<storeVars, rangeVars, run, cursor, dry, cancelled>>

\* An empty batch: the worker is done, and nobody is told.
FetchEmpty(w) ==
  /\ wstate[w] = "fetch" /\ ~ cancelled
  /\ source = "rpc"
  /\ wstate' = [wstate EXCEPT ![w] = "done"]
  /\ dry' = dry \cup {w}
  /\ UNCHANGED <<storeVars, procVars, rangeVars, run, cursor, cancelled>>

\* A call of ProcessOneLedger; they all take the context.
Work(w) ==
  /\ wstate[w] = "batch" /\ ~ cancelled
  /\ ProcessOneLedger(w)
  /\ UNCHANGED backfillVars

\* The batch is processed: on to the next, or the chunk is done.
BatchProcessed(w) ==
  /\ wstate[w] = "batch" /\ step[w] = "idle"
  /\ cursor' = [cursor EXCEPT ![w] = upto[w] + 1]
  /\ wstate' = [wstate EXCEPT ![w] = IF upto[w] < End(w) THEN "fetch" ELSE "done"]
  /\ UNCHANGED <<storeVars, procVars, rangeVars, run, dry, cancelled>>

\* A fetch, a decoding or a database call fails, or sees the context cancelled.
WorkerFails(w) ==
  /\ wstate[w] \in {"fetch", "batch"}
  /\ wstate' = [wstate EXCEPT ![w] = IF source = "s3" /\ cancelled THEN "silent" ELSE "failed"]
  /\ Abandon(w)
  /\ UNCHANGED <<storeVars, rangeVars, run, cursor, dry, cancelled>>

RunWorker(w) ==
  \/ FetchLedgers(w)
  \/ FetchEmpty(w)
  \/ Work(w)
  \/ BatchProcessed(w)
  \/ WorkerFails(w)

Backfill ==
  \/ StartFirst
  \/ Resume
  \/ Cancel
  \/ Finish
  \/ \E w \in Workers : RunWorker(w)

-----------------------------------------------------------------------------
(* Properties, of a backfill that has the database for itself.              *)

BackfillAloneInit == StoreInit /\ ProcInit /\ BackfillInit

BackfillSpec == BackfillAloneInit /\ [][Backfill]_<<storeVars, procVars, backfillVars>>

\* Run says it is done only when it is: if no worker stopped on an empty batch
\* and none was silenced by a cancellation, every ledger of the range is there
\* with all its batches.  It joins the split of the range, the batches of each
\* worker, wg.Wait and the collection of errors.
SuccessMeansComplete ==
  (run = "nil" /\ dry = {} /\ \A w \in Workers : wstate[w] # "silent")
    => \A l \in startLedger .. endLedger : Complete(l)

\* What a worker of a chunk has done is whole: below its cursor nothing of its
\* chunk is missing, whatever the other workers do to the shared cursor.
WorkerPrefixComplete ==
  \A w \in Workers :
    wstate[w] # "off" =>
      \A l \in ChunkStart(startLedger, endLedger, workerCount, w) .. cursor[w] - 1 : Complete(l)

\* The cursor names a ledger that is complete, whoever moved it last.
CursorLedgerComplete == ingested # 0 => Complete(ingested)

\* With one worker the documented resume works: a run that is interrupted and
\* started again from the cursor leaves nothing of the range out.
SerialResumeFillsRange ==
  (workerCount = 1 /\ run = "nil" /\ dry = {} /\ ~ cancelled)
    => \A l \in wanted : Complete(l)

\* README.md:144 says so of the S3 backfill with any number of workers: "Resume
\* support -- if interrupted, re-run with --start set to the last successfully
\* ingested ledger".
ResumeFillsRange ==
  (run = "nil" /\ source = "s3" /\ ~ cancelled) => \A l \in wanted : Complete(l)
=============================================================================
