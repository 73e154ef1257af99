---------------------------- MODULE IndexerProofs -----------------------------
(***************************************************************************)
(* A backfill that has the database for itself, and a live indexer and a   *)
(* backfill on one database, for every number of ledgers, batch size,      *)
(* number of workers, of runs and of failures.                             *)
(*                                                                         *)
(* The first part is about BackfillPipeline alone: what is left in the     *)
(* database through errors, empty batches, cancellations and resumed runs; *)
(* BInv is its inductive invariant.  The second is about both programs:    *)
(* what the shared cursor names, what a half-written ledger says, and      *)
(* which batches may be stored twice.  SharedInv is the inductive          *)
(* invariant both keep; HalfInv and OutsideInv are the two that lean on    *)
(* it.  The third is about the read API beside the live indexer.           *)
(***************************************************************************)
EXTENDS Indexer, ReadApi, LivePipelineProofs, FiniteSetTheorems

\* How many workers the run has, and the first ledger of each.
Used == WorkersFor(startLedger, endLedger, workerCount)
First(w) == ChunkStart(startLedger, endLedger, workerCount, w)

\* The tables a process has written of its ledger hold the ledger's batch.
Stored(p) == \A t \in WrittenBefore(step[p]) : rows[led[p]][t] > 0

\* The run the operator started has its workers, and Run waits for them.
RunBounds ==
  /\ run = "none" <=> runs = 0
  /\ run # "none" => startLedger <= endLedger
  /\ \A w \in Workers :
       /\ wstate[w] # "off" <=> run # "none" /\ w < Used
       /\ wstate[w] \in {"fetch", "batch"} => run = "running"
       /\ wstate[w] = "failed" => run \in {"running", "error"}
       /\ wstate[w] = "silent" => cancelled

\* Where a worker is in its chunk.
WorkerBounds ==
  \A w \in Workers :
    /\ wstate[w] # "off" => First(w) <= cursor[w]
    /\ wstate[w] = "fetch" => cursor[w] <= End(w)
    /\ wstate[w] = "batch" => cursor[w] <= led[w] /\ led[w] <= upto[w] /\ upto[w] <= End(w)
    /\ wstate[w] = "batch" /\ step[w] = "idle" => led[w] = upto[w] /\ Complete(led[w])
    /\ wstate[w] = "done" /\ w \notin dry => cursor[w] = End(w) + 1
    /\ step[w] # "idle" => wstate[w] = "batch"

\* What lies behind the worker in its batch is whole.
BatchPrefixComplete ==
  \A w \in Workers :
    wstate[w] = "batch" => \A l \in cursor[w] .. led[w] - 1 : Complete(l)

BInv ==
  /\ BackfillTypeOK
  /\ RunBounds
  /\ WorkerBounds
  /\ \A w \in Workers : Stored(w)
  /\ BatchPrefixComplete
  /\ WorkerPrefixComplete
  /\ CursorLedgerComplete

\* What the operator asked for first is whole below the start of a resumed run
\* and up to the cursor, if one worker did it all.
WantedPrefixComplete ==
  /\ runs = 0 => wanted = {} /\ ingested = 0
  /\ source = "s3" /\ run # "none" => startLedger >= 3
  /\ \A l \in wanted : l <= endLedger /\ (source = "s3" => l >= 3)
  /\ workerCount = 1 => \A l \in wanted : l < startLedger \/ l <= ingested => Complete(l)

-----------------------------------------------------------------------------
(* The split of a range.                                                    *)

LEMMA DivisionFacts ==
  ASSUME NEW a \in Nat, NEW b \in Nat \ {0}
  PROVE  a \div b \in Nat /\ b * (a \div b) <= a /\ a < b * (a \div b) + b
OBVIOUS

\* The blocks 0 .. n - 1 of c elements each: block w ends where n * c does, or
\* before.
LEMMA BlockFacts ==
  ASSUME NEW w \in Nat, NEW n \in Nat, NEW c \in Nat, w < n
  PROVE  w * c \in Nat /\ w * c + c <= n * c
<1>1. n * c = (w + 1) * c + (n - (w + 1)) * c
  OBVIOUS
<1>2. (w + 1) * c = w * c + c
  OBVIOUS
<1>3. (n - (w + 1)) * c >= 0
  OBVIOUS
<1>4. n * c \in Nat /\ w * c \in Nat
  OBVIOUS
<1>. QED  BY <1>1, <1>2, <1>3, <1>4

\* No worker is without a ledger, and no chunk leaves the range.
LEMMA ChunkFacts ==
  ASSUME NEW s \in Nat, NEW e \in Nat, s <= e, NEW n \in Nat \ {0}
  PROVE  /\ WorkersFor(s, e, n) \in 1 .. n
         /\ ChunkSize(s, e, n) \in Nat \ {0}
         /\ \A w \in Nat :
              w < WorkersFor(s, e, n) =>
                /\ ChunkStart(s, e, n, w) \in s .. e
                /\ ChunkEnd(s, e, n, w) \in ChunkStart(s, e, n, w) .. e
<1>. DEFINE k == WorkersFor(s, e, n)
            c == ChunkSize(s, e, n)
<1>1. k \in 1 .. n /\ k <= e - s + 1 /\ e - s + 1 \in Nat
  BY DEF WorkersFor, Smallest
<1>2. c \in Nat /\ k * c <= e - s + 1 /\ e - s + 1 < k * c + k
  <2>. DEFINE a == e - s + 1
  <2>1. a \in Nat /\ k \in Nat \ {0}
    BY <1>1
  <2>. HIDE DEF k
  <2>2. a \div k \in Nat /\ k * (a \div k) <= a /\ a < k * (a \div k) + k
    BY <2>1, DivisionFacts
  <2>. QED  BY <2>2 DEF ChunkSize, k
<1>3. c # 0
  <2>1. k * 0 = 0
    BY <1>1
  <2>. QED  BY <2>1, <1>1, <1>2
<1>4. ASSUME NEW w \in Nat, w < k
      PROVE  /\ ChunkStart(s, e, n, w) \in s .. e
             /\ ChunkEnd(s, e, n, w) \in ChunkStart(s, e, n, w) .. e
  <2>1. w * c \in Nat /\ w * c + c <= k * c /\ k * c \in Nat
    BY <1>1, <1>2, <1>4, BlockFacts
  <2>2. s + w * c \in s .. e /\ s + w * c + c - 1 \in s + w * c .. e
    BY <2>1, <1>1, <1>2, <1>3
  <2>. QED  BY <2>1, <2>2 DEF ChunkStart, ChunkEnd
<1>. QED  BY <1>1, <1>2, <1>3, <1>4

\* Every ledger of the range is in the chunk of some worker.
LEMMA ChunksCover ==
  ASSUME NEW s \in Nat, NEW e \in Nat, NEW n \in Nat \ {0}, NEW l \in s .. e
  PROVE  \E w \in Nat : w < WorkersFor(s, e, n) /\ l \in Chunk(s, e, n, w)
<1>. DEFINE k == WorkersFor(s, e, n)
            c == ChunkSize(s, e, n)
            v == (l - s) \div c
<1>1. k \in 1 .. n /\ c \in Nat \ {0} /\ s <= e
  BY ChunkFacts
<1>2. v \in Nat /\ c * v <= l - s /\ l - s < c * v + c
  BY <1>1, DivisionFacts
<1>3. c * v = v * c
  BY <1>1, <1>2
<1>4. CASE v < k
  <2>1. l \in Chunk(s, e, n, v)
    BY <1>1, <1>2, <1>3, <1>4 DEF Chunk, ChunkStart, ChunkEnd
  <2>. QED  BY <2>1, <1>2, <1>4
<1>5. CASE v >= k
  <2>1. k - 1 \in Nat /\ k - 1 < v
    BY <1>1, <1>2, <1>5
  <2>2. (k - 1) * c + c <= v * c /\ (k - 1) * c \in Nat
    BY <2>1, <1>1, <1>2, BlockFacts
  <2>3. s + (k - 1) * c <= l
    BY <2>2, <1>1, <1>2, <1>3
  <2>4. l \in Chunk(s, e, n, k - 1)
    BY <2>2, <2>3, <1>1 DEF Chunk, ChunkStart, ChunkEnd
  <2>. QED  BY <2>1, <2>4, <1>1
<1>. QED  BY <1>1, <1>2, <1>4, <1>5

\* One worker gets the whole range.
LEMMA SingleChunk ==
  ASSUME NEW s \in Nat, NEW e \in Nat, s <= e
  PROVE  WorkersFor(s, e, 1) = 1 /\ ChunkStart(s, e, 1, 0) = s /\ ChunkEnd(s, e, 1, 0) = e
<1>1. WorkersFor(s, e, 1) = 1
  BY DEF WorkersFor, Smallest
<1>2. ChunkSize(s, e, 1) \in Nat
  BY <1>1, DivisionFacts DEF ChunkSize
<1>. QED  BY <1>1, <1>2 DEF ChunkStart, ChunkEnd

-----------------------------------------------------------------------------
(* The calls of ProcessOneLedger, made by any process.                      *)

\* One of the five inserts, followed by the call nxt.
LEMMA WriteFacts ==
  ASSUME StoreTypeOK, ProcTypeOK, NEW p \in Procs, Stored(p),
         NEW t \in Tables, NEW nxt \in WriteSteps \ {"ledgers"},
         WrittenBefore(nxt) = WrittenBefore(t) \cup {t}, WrittenBefore(t) \subseteq Tables,
         Write(p, t, nxt)
  PROVE  /\ StoreTypeOK' /\ ProcTypeOK'
         /\ \A l \in Ledgers, u \in Tables : rows[l][u] > 0 => rows'[l][u] > 0
         /\ \A l \in Ledgers \ {led[p]} : rows'[l] = rows[l]
         /\ \A u \in Tables : rows[led[p]][u] = 0 => rows'[led[p]][u] <= 1
         /\ \A u \in Tables \ {t} : rows'[led[p]][u] = rows[led[p]][u]
         /\ step' = [step EXCEPT ![p] = nxt]
         /\ Stored(p)'
         /\ UNCHANGED <<led, upto, published, ingested, origin>>
<1>1. /\ led[p] \in Ledgers /\ step[p] = t /\ InsertBatch(t, led[p])
      /\ step' = [step EXCEPT ![p] = nxt] /\ step'[p] = nxt
      /\ UNCHANGED <<led, upto, published, ingested, origin>>
  BY DEF Write, InsertBatch, ProcTypeOK
<1>2. /\ rows' \in [Ledgers -> [Tables -> 0 .. 2]]
      /\ rows'[led[p]][t] > 0
      /\ \A k \in Ledgers, u \in Tables : rows[k][u] > 0 => rows'[k][u] > 0
      /\ \A k \in Ledgers \ {led[p]} : rows'[k] = rows[k]
      /\ \A u \in Tables : rows[led[p]][u] = 0 => rows'[led[p]][u] <= 1
      /\ \A u \in Tables \ {t} : rows'[led[p]][u] = rows[led[p]][u]
  BY <1>1 DEF StoreTypeOK, InsertBatch, CopiesAfterInsert
<1>3. StoreTypeOK' /\ ProcTypeOK'
  BY <1>1, <1>2 DEF StoreTypeOK, ProcTypeOK, Steps
<1>4. Stored(p)'
  BY <1>1, <1>2 DEF Stored
<1>. QED  BY <1>1, <1>2, <1>3, <1>4

\* Where a process may go from here once its ledger is done.
LEMMA LeaveFacts ==
  ASSUME ProcTypeOK, NEW p \in Procs, led[p] <= upto[p], Return(p)
  PROVE  /\ step' \in [Procs -> Steps] /\ led' \in [Procs -> Ledgers] /\ upto' = upto
         /\ \A q \in Procs \ {p} : step'[q] = step[q] /\ led'[q] = led[q]
         /\ \/ step'[p] = "ledgers" /\ led'[p] = led[p] + 1 /\ led[p] < upto[p]
            \/ step'[p] = "idle" /\ led'[p] = led[p] /\ led[p] = upto[p]
<1>1. /\ led[p] \in Ledgers /\ upto[p] \in Ledgers
      /\ "ledgers" \in Steps /\ "idle" \in Steps
  BY DEF ProcTypeOK, Steps, WriteSteps, Tables, KeyedTables
<1>2. CASE led[p] < upto[p]
  <2>1. led[p] + 1 \in Ledgers
    BY <1>1, <1>2, MaxLedgerAssumption DEF Ledgers
  <2>. QED  BY <1>1, <1>2, <2>1 DEF ProcTypeOK, Return
<1>3. CASE led[p] = upto[p]
  BY <1>1, <1>3, MaxLedgerAssumption DEF ProcTypeOK, Return, Ledgers
<1>. QED  BY <1>1, <1>2, <1>3, MaxLedgerAssumption DEF Ledgers

\* What one call does to the tables, to the cursor and to the process.
CallEffect(p) ==
  /\ step[p] # "idle" /\ upto' = upto
  /\ \A q \in Procs \ {p} : step'[q] = step[q] /\ led'[q] = led[q]
  /\ \A l \in Ledgers, t \in Tables : rows[l][t] > 0 => rows'[l][t] > 0
  /\ \A l \in Ledgers \ {led[p]} : rows'[l] = rows[l]
  /\ \A t \in Tables : rows[led[p]][t] = 0 => rows'[led[p]][t] <= 1
  /\ \A t \in Tables \ {step[p]} : rows'[led[p]][t] = rows[led[p]][t]
  /\ IF step[p] = "cursor"
     THEN SetLastIngestedLedger(led[p])
     ELSE UNCHANGED <<ingested, origin>>
  /\ step[p] \in Tables =>
       /\ step'[p] \in WriteSteps \ {"ledgers"}
       /\ WrittenBefore(step'[p]) = WrittenBefore(step[p]) \cup {step[p]}
  /\ step[p] \notin Tables =>
       rows' = rows /\ Complete(led[p]) /\ step'[p] \notin WriteSteps \ {"ledgers"}
  /\ \/ led'[p] = led[p] /\ step'[p] \in Steps \ {"idle", "ledgers"}
     \/ step'[p] = "ledgers" /\ led'[p] = led[p] + 1 /\ led[p] < upto[p] /\ step[p] \notin Tables
     \/ step'[p] = "idle" /\ led'[p] = led[p] /\ led[p] = upto[p] /\ step[p] \notin Tables

LEMMA CallFacts ==
  ASSUME StoreTypeOK, ProcTypeOK, NEW p \in Procs, led[p] <= upto[p], Stored(p),
         ProcessOneLedger(p)
  PROVE  StoreTypeOK' /\ ProcTypeOK' /\ Stored(p)' /\ CallEffect(p)
<1>1. led[p] \in Ledgers /\ upto[p] \in Ledgers
  BY DEF ProcTypeOK
<1>2. ASSUME NEW t \in Tables, NEW nxt \in WriteSteps \ {"ledgers"},
             WrittenBefore(nxt) = WrittenBefore(t) \cup {t}, WrittenBefore(t) \subseteq Tables,
             t \notin {"idle", "cursor"}, nxt # "idle", Write(p, t, nxt)
      PROVE  StoreTypeOK' /\ ProcTypeOK' /\ Stored(p)' /\ CallEffect(p)
  <2>1. /\ StoreTypeOK' /\ ProcTypeOK'
        /\ \A l \in Ledgers, u \in Tables : rows[l][u] > 0 => rows'[l][u] > 0
        /\ \A l \in Ledgers \ {led[p]} : rows'[l] = rows[l]
        /\ \A u \in Tables : rows[led[p]][u] = 0 => rows'[led[p]][u] <= 1
        /\ \A u \in Tables \ {t} : rows'[led[p]][u] = rows[led[p]][u]
        /\ step' = [step EXCEPT ![p] = nxt]
        /\ Stored(p)'
        /\ UNCHANGED <<led, upto, ingested, origin>>
    BY <1>2, WriteFacts
  <2>2. step[p] = t /\ step'[p] = nxt /\ \A q \in Procs \ {p} : step'[q] = step[q]
    BY <1>2, <2>1 DEF Write, ProcTypeOK
  <2>. QED  BY <1>2, <2>1, <2>2 DEF CallEffect, Steps
<1>3. CASE \/ InsertLedger(p) \/ InsertTransactions(p) \/ InsertOperations(p)
           \/ InsertTokenEvents(p) \/ InsertContractEvents(p)
  <2>. USE DEF Steps, WriteSteps, Tables, KeyedTables, SerialTables, WrittenBefore
  <2>1. CASE InsertLedger(p)
    BY <2>1, <1>2 DEF InsertLedger
  <2>2. CASE InsertTransactions(p)
    BY <2>2, <1>2 DEF InsertTransactions
  <2>3. CASE InsertOperations(p)
    BY <2>3, <1>2 DEF InsertOperations
  <2>4. CASE InsertTokenEvents(p)
    BY <2>4, <1>2 DEF InsertTokenEvents
  <2>5. CASE InsertContractEvents(p)
    BY <2>5, <1>2 DEF InsertContractEvents
  <2>. QED  BY <1>3, <2>1, <2>2, <2>3, <2>4, <2>5
<1>4. ASSUME step[p] \in {"cursor", "publish_ledger", "publish_transactions"},
             rows' = rows
      PROVE  /\ Complete(led[p]) /\ step[p] \notin Tables
             /\ \A l \in Ledgers, t \in Tables : rows[l][t] > 0 => rows'[l][t] > 0
             /\ \A l \in Ledgers \ {led[p]} : rows'[l] = rows[l]
             /\ \A t \in Tables : /\ rows[led[p]][t] = 0 => rows'[led[p]][t] <= 1
                                  /\ rows'[led[p]][t] = rows[led[p]][t]
             /\ {"idle", "publish_ledger", "publish_transactions"} \cap WriteSteps = {}
  BY <1>4 DEF Stored, WrittenBefore, Complete, WriteSteps, Tables, KeyedTables, SerialTables
<1>5. CASE AdvanceCursor(p)
  <2>1. /\ step[p] = "cursor" /\ rows' = rows /\ published' = published
        /\ SetLastIngestedLedger(led[p]) /\ Complete(led[p])
    BY <1>5, <1>4 DEF AdvanceCursor
  <2>2. StoreTypeOK'
    BY <1>1, <2>1, MaxLedgerAssumption DEF StoreTypeOK, SetLastIngestedLedger, Ledgers
  <2>3. CASE p \in Publishers
    <3>1. step' = [step EXCEPT ![p] = "publish_ledger"] /\ UNCHANGED <<led, upto>>
      BY <1>5, <2>3 DEF AdvanceCursor
    <3>2. /\ "publish_ledger" \in Steps \ {"idle", "ledgers"}
          /\ step'[p] = "publish_ledger" /\ \A q \in Procs \ {p} : step'[q] = step[q]
      BY <3>1 DEF ProcTypeOK, Steps, WriteSteps, Tables, KeyedTables
    <3>3. ProcTypeOK'
      BY <3>1, <3>2, <2>1 DEF ProcTypeOK
    <3>4. Stored(p)'
      BY <3>1, <3>2, <2>1 DEF Stored, WrittenBefore
    <3>. QED  BY <2>1, <2>2, <3>1, <3>2, <3>3, <3>4, <1>4 DEF CallEffect
  <2>4. CASE p \notin Publishers
    <3>1. Return(p)
      BY <1>5, <2>4 DEF AdvanceCursor
    <3>2. /\ step' \in [Procs -> Steps] /\ led' \in [Procs -> Ledgers] /\ upto' = upto
          /\ \A q \in Procs \ {p} : step'[q] = step[q] /\ led'[q] = led[q]
          /\ \/ step'[p] = "ledgers" /\ led'[p] = led[p] + 1 /\ led[p] < upto[p]
             \/ step'[p] = "idle" /\ led'[p] = led[p] /\ led[p] = upto[p]
      BY <3>1, LeaveFacts
    <3>3. ProcTypeOK' /\ Stored(p)'
      BY <3>2, <2>1 DEF ProcTypeOK, Stored, WrittenBefore, WriteSteps, Tables, KeyedTables,
                        SerialTables
    <3>. QED  BY <2>1, <2>2, <3>2, <3>3, <1>4 DEF CallEffect
  <2>. QED  BY <2>3, <2>4
<1>6. ASSUME NEW c \in Channels, Deliver(c, led[p])
      PROVE  published' \in [Channels -> [Ledgers -> 0 .. 2]]
  <2>1. CASE UNCHANGED published
    BY <2>1 DEF ProcTypeOK
  <2>2. CASE published' = [published EXCEPT ![c][led[p]] = IF @ = 0 THEN 1 ELSE 2]
    BY <2>2, <1>1 DEF ProcTypeOK
  <2>. QED  BY <1>6, <2>1, <2>2 DEF Deliver
<1>7. CASE PublishLedger(p)
  <2>1. /\ step[p] = "publish_ledger" /\ Deliver("ledgers", led[p])
        /\ step' = [step EXCEPT ![p] = "publish_transactions"]
        /\ UNCHANGED <<rows, ingested, origin, led, upto>>
    BY <1>7 DEF PublishLedger, storeVars
  <2>2. /\ "publish_transactions" \in Steps \ {"idle", "ledgers"}
        /\ step'[p] = "publish_transactions" /\ \A q \in Procs \ {p} : step'[q] = step[q]
    BY <2>1 DEF ProcTypeOK, Steps
  <2>3. published' \in [Channels -> [Ledgers -> 0 .. 2]]
    BY <2>1, <1>6 DEF Channels
  <2>4. StoreTypeOK' /\ ProcTypeOK' /\ Stored(p)'
    BY <2>1, <2>2, <2>3 DEF StoreTypeOK, ProcTypeOK, Stored, WrittenBefore
  <2>. QED  BY <2>1, <2>2, <2>4, <1>4 DEF CallEffect
<1>8. CASE PublishTransactions(p)
  <2>1. /\ step[p] = "publish_transactions" /\ Deliver("transactions", led[p]) /\ Return(p)
        /\ UNCHANGED <<rows, ingested, origin>>
    BY <1>8 DEF PublishTransactions, storeVars
  <2>2. /\ step' \in [Procs -> Steps] /\ led' \in [Procs -> Ledgers] /\ upto' = upto
        /\ \A q \in Procs \ {p} : step'[q] = step[q] /\ led'[q] = led[q]
        /\ \/ step'[p] = "ledgers" /\ led'[p] = led[p] + 1 /\ led[p] < upto[p]
           \/ step'[p] = "idle" /\ led'[p] = led[p] /\ led[p] = upto[p]
    BY <2>1, LeaveFacts
  <2>3. published' \in [Channels -> [Ledgers -> 0 .. 2]]
    BY <2>1, <1>6 DEF Channels
  <2>4. StoreTypeOK' /\ ProcTypeOK' /\ Stored(p)'
    BY <2>1, <2>2, <2>3
       DEF StoreTypeOK, ProcTypeOK, Stored, WrittenBefore, WriteSteps, Tables, KeyedTables,
           SerialTables
  <2>. QED  BY <2>1, <2>2, <2>4, <1>4 DEF CallEffect
<1>. QED  BY <1>3, <1>5, <1>7, <1>8 DEF ProcessOneLedger

-----------------------------------------------------------------------------
(* The steps of a backfill.                                                 *)

\* The chunks of the run in hand.
LEMMA RunChunks ==
  ASSUME BInv, run # "none"
  PROVE  /\ startLedger \in Nat /\ endLedger \in Nat /\ startLedger <= endLedger
         /\ workerCount \in Nat \ {0} /\ Used \in 1 .. workerCount
         /\ \A w \in Workers :
              w < Used => First(w) \in startLedger .. endLedger /\ End(w) \in First(w) .. endLedger
<1>1. /\ startLedger \in Nat /\ endLedger \in Nat /\ startLedger <= endLedger
      /\ workerCount \in Nat \ {0} /\ Workers \subseteq Nat
  BY MaxLedgerAssumption, MaxWorkersAssumption
     DEF BInv, BackfillTypeOK, RunBounds, Ledgers, Workers
<1>. QED  BY <1>1, ChunkFacts DEF Used, First, End

\* A worker's call of ProcessOneLedger.
LEMMA WorkInv ==
  ASSUME BInv, NEW w \in Workers, Work(w)
  PROVE  BInv' /\ (WantedPrefixComplete => WantedPrefixComplete')
<1>1. /\ wstate[w] = "batch" /\ ProcessOneLedger(w) /\ w \in Procs
      /\ UNCHANGED <<run, source, workerCount, startLedger, endLedger, wstate, cursor, dry,
                     cancelled, runs, wanted>>
      /\ StoreTypeOK /\ ProcTypeOK /\ Stored(w)
  BY WorkersAssumption DEF Work, BInv, BackfillTypeOK, backfillVars
<1>2. /\ cursor[w] <= led[w] /\ led[w] <= upto[w] /\ upto[w] <= End(w)
      /\ First(w) <= cursor[w] /\ w < Used /\ run = "running" /\ w \in Nat
  BY <1>1, MaxWorkersAssumption DEF BInv, RunBounds, WorkerBounds, Workers
<1>3. /\ led[w] \in Ledgers /\ upto[w] \in Ledgers /\ cursor[w] \in 1 .. MaxLedger + 1
  BY <1>1 DEF ProcTypeOK, BInv, BackfillTypeOK
<1>4. StoreTypeOK' /\ ProcTypeOK' /\ Stored(w)' /\ CallEffect(w)
  BY <1>1, <1>2, CallFacts
<1>5. \A l \in Ledgers : Complete(l) => Complete(l)'
  BY <1>4 DEF CallEffect, Complete
<1>move. \/ led'[w] = led[w] /\ step'[w] # "idle"
         \/ led'[w] = led[w] + 1 /\ step'[w] # "idle" /\ led[w] < upto[w] /\ Complete(led[w])
         \/ led'[w] = led[w] /\ led[w] = upto[w] /\ Complete(led[w])
  BY <1>4 DEF CallEffect
<1>set. UNCHANGED ingested \/ (Complete(led[w]) /\ SetLastIngestedLedger(led[w]))
  BY <1>4 DEF CallEffect, Tables, KeyedTables, SerialTables
<1>6. BackfillTypeOK'
  BY <1>1, <1>4 DEF BInv, BackfillTypeOK
<1>7. RunBounds'
  BY <1>1 DEF BInv, RunBounds, Used
<1>8. \A q \in Workers \ {w} : q \in Procs /\ step'[q] = step[q] /\ led'[q] = led[q]
  BY <1>4, WorkersAssumption DEF CallEffect
<1>9. WorkerBounds'
  <2>1. ASSUME NEW q \in Workers, q # w, wstate[q] = "batch", step[q] = "idle"
        PROVE  Complete(led[q])'
    BY <2>1, <1>1, <1>5, <1>8 DEF BInv, WorkerBounds, ProcTypeOK
  <2>2. cursor[w] <= led'[w] /\ led'[w] <= upto[w]
        /\ (step'[w] = "idle" => led'[w] = upto[w] /\ Complete(led[w])')
    BY <1>2, <1>3, <1>5, <1>move DEF Ledgers
  <2>. QED
    BY <2>1, <2>2, <1>1, <1>2, <1>4, <1>8 DEF BInv, WorkerBounds, First, End, CallEffect
<1>10. \A q \in Workers : Stored(q)'
  <2>1. ASSUME NEW q \in Workers, q # w PROVE Stored(q)'
    <3>1. Stored(q) /\ led[q] \in Ledgers /\ WrittenBefore(step[q]) \subseteq Tables
      BY <1>1, <2>1, <1>8
         DEF BInv, ProcTypeOK, WrittenBefore, Tables, KeyedTables, SerialTables
    <3>. QED  BY <3>1, <2>1, <1>4, <1>8 DEF Stored, CallEffect
  <2>. QED  BY <2>1, <1>4
<1>11. BatchPrefixComplete'
  <2>1. ASSUME NEW q \in Workers, wstate[q] = "batch", q # w,
               NEW l \in cursor[q] .. led[q] - 1
        PROVE  Complete(l)'
    <3>1. Complete(l) /\ l \in Ledgers
      BY <2>1, <1>1, <1>8, MaxLedgerAssumption
         DEF BInv, BatchPrefixComplete, BackfillTypeOK, ProcTypeOK, Ledgers
    <3>. QED  BY <3>1, <1>5
  <2>2. ASSUME NEW l \in cursor[w] .. led'[w] - 1
        PROVE  Complete(l)'
    <3>1. l \in Ledgers /\ (l < led[w] \/ (l = led[w] /\ Complete(led[w])))
      BY <2>2, <1>3, <1>move, MaxLedgerAssumption DEF Ledgers
    <3>2. Complete(l)
      BY <3>1, <2>2, <1>1, <1>3 DEF BInv, BatchPrefixComplete, Ledgers
    <3>. QED  BY <3>1, <3>2, <1>5
  <2>. QED  BY <2>1, <2>2, <1>1, <1>8 DEF BatchPrefixComplete
<1>12. WorkerPrefixComplete'
  <2>1. ASSUME NEW q \in Workers, wstate[q] # "off", NEW l \in First(q) .. cursor[q] - 1
        PROVE  Complete(l)'
    <3>1. q < Used /\ run # "none"
      BY <2>1 DEF BInv, RunBounds
    <3>2. Complete(l)
      BY <2>1 DEF BInv, WorkerPrefixComplete, First
    <3>3. First(q) \in Ledgers /\ cursor[q] \in 1 .. MaxLedger + 1
      BY <3>1, RunChunks, MaxLedgerAssumption DEF BInv, BackfillTypeOK, Ledgers
    <3>. QED  BY <3>2, <3>3, <2>1, <1>5, MaxLedgerAssumption DEF Ledgers
  <2>. QED  BY <2>1, <1>1 DEF WorkerPrefixComplete, First
<1>13. CursorLedgerComplete'
  <2>1. CASE UNCHANGED ingested
    BY <2>1, <1>1, <1>5 DEF BInv, CursorLedgerComplete, StoreTypeOK, Ledgers
  <2>2. CASE Complete(led[w]) /\ SetLastIngestedLedger(led[w])
    BY <2>2, <1>1, <1>3, <1>5
       DEF BInv, CursorLedgerComplete, SetLastIngestedLedger, StoreTypeOK, Ledgers
  <2>. QED  BY <2>1, <2>2, <1>set
<1>14. ASSUME WantedPrefixComplete PROVE WantedPrefixComplete'
  <2>1. runs # 0
    BY <1>2 DEF BInv, RunBounds
  <2>2. ASSUME workerCount = 1, NEW l \in wanted, l < startLedger \/ l <= ingested'
        PROVE  Complete(l)'
    <3>1. l \in Ledgers /\ ingested \in 0 .. MaxLedger
      BY <2>2, <1>1 DEF BInv, BackfillTypeOK, StoreTypeOK
    <3>2. w = 0 /\ First(w) = startLedger
      BY <2>2, <1>2, RunChunks, SingleChunk DEF Used, First
    <3>3. CASE l < startLedger \/ l <= ingested
      BY <1>14, <3>3, <3>1, <2>2, <1>5 DEF WantedPrefixComplete
    <3>4. CASE ~ (l < startLedger) /\ ~ (l <= ingested)
      <4>1. Complete(led[w]) /\ l <= led[w] /\ startLedger <= l
        BY <3>1, <3>4, <2>2, <1>2, <1>3, <1>set, RunChunks
           DEF SetLastIngestedLedger, Ledgers
      <4>2. Complete(l)
        BY <4>1, <3>1, <3>2, <1>1, <1>2, <1>3, RunChunks
           DEF BInv, WorkerPrefixComplete, BatchPrefixComplete, First, Ledgers
      <4>. QED  BY <4>2, <3>1, <1>5
    <3>. QED  BY <3>3, <3>4
  <2>. QED  BY <1>14, <2>1, <2>2, <1>1 DEF WantedPrefixComplete
<1>. QED  BY <1>6, <1>7, <1>9, <1>10, <1>11, <1>12, <1>13, <1>14 DEF BInv

\* Run starts its workers, each at the start of its chunk.
LEMMA StartInv ==
  ASSUME BInv, NEW src \in {"rpc", "s3"}, NEW s \in Ledgers, NEW e \in Ledgers,
         NEW n \in 1 .. MaxWorkers, Start(src, s, e, n),
         \/ runs = 0
         \/ /\ runs # 0 /\ src = source /\ n = workerCount /\ e = endLedger
            /\ s = ResumePoint
  PROVE  BInv' /\ (WantedPrefixComplete => WantedPrefixComplete')
<1>. DEFINE from == FirstLedger(src, s)
            used == {w \in Workers : w < WorkersFor(from, e, n)}
<1>1. /\ run # "running" /\ runs < MaxRuns /\ from <= e
      /\ run' = "running" /\ source' = src /\ workerCount' = n
      /\ startLedger' = from /\ endLedger' = e
      /\ wstate' = [w \in Workers |-> IF w \in used THEN "fetch" ELSE "off"]
      /\ cursor' = [w \in Workers |-> IF w \in used THEN ChunkStart(from, e, n, w) ELSE 1]
      /\ dry' = {} /\ cancelled' = FALSE
      /\ runs' = runs + 1
      /\ wanted' = IF runs = 0 THEN from .. e ELSE wanted
      /\ UNCHANGED <<storeVars, procVars>>
  BY DEF Start
<1>2. UNCHANGED <<rows, ingested, origin, step, led, upto, published>>
  BY <1>1 DEF storeVars, procVars
<1>3. /\ from \in Ledgers /\ from \in Nat /\ e \in Nat /\ n \in Nat \ {0} /\ runs \in Nat
      /\ from >= s /\ (src = "s3" => from >= 3) /\ (s >= 3 \/ src # "s3" => from = s)
      /\ (from > s => src = "s3" /\ from = 3)
  BY <1>1, MaxLedgerAssumption, MaxWorkersAssumption, MaxRunsAssumption
     DEF FirstLedger, Ledgers, BInv, BackfillTypeOK
<1>4. /\ WorkersFor(from, e, n) \in 1 .. n
      /\ \A w \in Workers :
           w \in used => /\ ChunkStart(from, e, n, w) \in from .. e
                         /\ ChunkEnd(from, e, n, w) \in ChunkStart(from, e, n, w) .. e
  <2>1. from <= e /\ \A w \in Workers : w \in Nat
    BY <1>1, MaxWorkersAssumption DEF Workers
  <2>. HIDE DEF from
  <2>. QED  BY <2>1, <1>3, ChunkFacts
<1>5. \A l \in Ledgers : Complete(l)' = Complete(l)
  BY <1>2 DEF Complete
<1>6. BackfillTypeOK'
  <2>1. cursor' \in [Workers -> 1 .. MaxLedger + 1]
    BY <1>1, <1>3, <1>4, MaxLedgerAssumption DEF Ledgers
  <2>2. wanted' \subseteq Ledgers
    <3>1. from .. e \subseteq Ledgers /\ wanted \subseteq Ledgers
      BY <1>3, MaxLedgerAssumption DEF BInv, BackfillTypeOK, Ledgers
    <3>. QED  BY <3>1, <1>1
  <2>3. runs' \in 0 .. MaxRuns
    BY <1>1, <1>3, MaxRunsAssumption DEF BInv, BackfillTypeOK
  <2>4. StoreTypeOK' /\ ProcTypeOK'
    BY <1>2 DEF BInv, BackfillTypeOK, StoreTypeOK, ProcTypeOK
  <2>. QED
    BY <2>1, <2>2, <2>3, <2>4, <1>1, <1>3 DEF BackfillTypeOK, WorkerStates
<1>7. RunBounds'
  BY <1>1, <1>3 DEF RunBounds, Used
<1>8. WorkerBounds'
  <2>1. ASSUME NEW w \in Workers PROVE step[w] = "idle"
    BY <1>1 DEF BInv, WorkerBounds, RunBounds
  <2>2. ASSUME NEW w \in Workers, wstate'[w] # "off"
        PROVE  wstate'[w] = "fetch" /\ First(w)' <= cursor'[w] /\ cursor'[w] <= End(w)'
    <3>1. w \in used /\ wstate'[w] = "fetch" /\ cursor'[w] = ChunkStart(from, e, n, w)
      BY <1>1, <2>2
    <3>. QED  BY <3>1, <1>1, <1>3, <1>4 DEF First, End
  <2>. QED  BY <2>1, <2>2, <1>2 DEF WorkerBounds
<1>9. \A w \in Workers : Stored(w)'
  BY <1>2 DEF BInv, Stored
<1>10. BatchPrefixComplete'
  BY <1>1 DEF BatchPrefixComplete
<1>11. WorkerPrefixComplete'
  <2>1. ASSUME NEW w \in Workers, wstate'[w] # "off"
        PROVE  First(w)' .. cursor'[w] - 1 = {}
    <3>1. w \in used /\ cursor'[w] = ChunkStart(from, e, n, w)
      BY <1>1, <2>1
    <3>2. First(w)' = ChunkStart(from, e, n, w) /\ ChunkStart(from, e, n, w) \in Int
      BY <3>1, <1>1, <1>3, <1>4 DEF First
    <3>. QED  BY <3>1, <3>2
  <2>. QED  BY <2>1 DEF WorkerPrefixComplete, First
<1>12. ASSUME WantedPrefixComplete PROVE WantedPrefixComplete'
  <2>1. CASE runs = 0
    <3>1. ingested = 0 /\ runs' # 0
      BY <1>12, <2>1, <1>1 DEF WantedPrefixComplete
    <3>. QED
      BY <2>1, <3>1, <1>1, <1>2, <1>3 DEF WantedPrefixComplete, Ledgers
  <2>2. CASE runs # 0
    <3>1. /\ src = source /\ n = workerCount /\ e = endLedger /\ s = ResumePoint
          /\ runs' # 0 /\ wanted' = wanted /\ run # "none"
          /\ wanted \subseteq Ledgers /\ ingested \in 0 .. MaxLedger /\ startLedger \in Ledgers
      BY <2>2, <1>1, <1>3 DEF BInv, RunBounds, BackfillTypeOK, StoreTypeOK
    <3>2. ASSUME workerCount = 1, NEW l \in wanted, l < from \/ l <= ingested
          PROVE  Complete(l)'
      <4>1. l \in Ledgers /\ (source = "s3" => l >= 3)
        BY <1>12, <3>1, <3>2 DEF WantedPrefixComplete
      <4>2. l < startLedger \/ l <= ingested
        BY <1>12, <3>1, <3>2, <4>1, <1>3 DEF ResumePoint, WantedPrefixComplete, Ledgers
      <4>. QED  BY <1>12, <4>1, <4>2, <3>1, <3>2, <1>5 DEF WantedPrefixComplete
    <3>. QED  BY <1>12, <3>1, <3>2, <1>1, <1>2, <1>3 DEF WantedPrefixComplete
  <2>. QED  BY <2>1, <2>2
<1>13. CursorLedgerComplete'
  BY <1>2, <1>5 DEF BInv, CursorLedgerComplete, BackfillTypeOK, StoreTypeOK, Ledgers
<1>. QED  BY <1>6, <1>7, <1>8, <1>9, <1>10, <1>11, <1>12, <1>13 DEF BInv

\* The operator's steps, and the end of Run.
LEMMA OperatorInv ==
  ASSUME BInv, StartFirst \/ Resume \/ Cancel \/ Finish
  PROVE  BInv' /\ (WantedPrefixComplete => WantedPrefixComplete')
<1>1. CASE StartFirst
  BY <1>1, StartInv DEF StartFirst
<1>2. CASE Resume
  <2>1. /\ run # "none" /\ Start(source, ResumePoint, endLedger, workerCount)
        /\ source \in {"rpc", "s3"} /\ endLedger \in Ledgers /\ workerCount \in 1 .. MaxWorkers
        /\ ResumePoint \in Ledgers
    BY <1>2, MaxLedgerAssumption
       DEF Resume, ResumePoint, BInv, BackfillTypeOK, StoreTypeOK, Ledgers
  <2>2. runs # 0
    BY <2>1 DEF BInv, RunBounds
  <2>. QED  BY <2>1, <2>2, StartInv
<1>3. CASE Cancel \/ Finish
  <2>1. /\ UNCHANGED <<rows, ingested, origin, step, led, upto, published, source, workerCount,
                       startLedger, endLedger, runs, wanted, wstate, cursor, dry>>
        /\ run = "running"
        /\ \/ run' = run /\ cancelled' = TRUE
           \/ /\ AllReturned /\ cancelled' = cancelled
              /\ run' = IF \E w \in Workers : wstate[w] = "failed" THEN "error" ELSE "nil"
    BY <1>3 DEF Cancel, Finish, storeVars, procVars, rangeVars
  <2>2. \A l \in Ledgers : Complete(l)' = Complete(l)
    BY <2>1 DEF Complete
  <2>3. BackfillTypeOK'
    BY <2>1 DEF BInv, BackfillTypeOK, StoreTypeOK, ProcTypeOK
  <2>4. RunBounds'
    BY <2>1 DEF BInv, RunBounds, Used, AllReturned
  <2>5. WorkerBounds' /\ \A w \in Workers : Stored(w)'
    BY <2>1 DEF BInv, WorkerBounds, First, End, Stored, Complete
  <2>6. BatchPrefixComplete' /\ WorkerPrefixComplete' /\ CursorLedgerComplete'
    BY <2>1 DEF BInv, BatchPrefixComplete, WorkerPrefixComplete, CursorLedgerComplete, Complete
  <2>7. WantedPrefixComplete => WantedPrefixComplete'
    BY <2>1 DEF WantedPrefixComplete, Complete
  <2>. QED  BY <2>3, <2>4, <2>5, <2>6, <2>7 DEF BInv
<1>. QED  BY <1>1, <1>2, <1>3

\* The steps of a worker around its calls of ProcessOneLedger.
LEMMA WorkerInv ==
  ASSUME BInv, NEW w \in Workers,
         FetchLedgers(w) \/ FetchEmpty(w) \/ BatchProcessed(w) \/ WorkerFails(w)
  PROVE  BInv' /\ (WantedPrefixComplete => WantedPrefixComplete')
<1>1. /\ UNCHANGED <<rows, ingested, origin, published, source, workerCount, startLedger,
                     endLedger, runs, wanted, run, cancelled>>
      /\ wstate[w] \in {"fetch", "batch"}
      /\ w \in Procs /\ w \in Nat
  BY WorkersAssumption, MaxWorkersAssumption
     DEF FetchLedgers, FetchEmpty, BatchProcessed, WorkerFails, storeVars, procVars, rangeVars,
         Begin, Abandon, Workers
<1>2. /\ run = "running" /\ w < Used /\ First(w) \in startLedger .. endLedger
      /\ End(w) \in First(w) .. endLedger /\ endLedger \in Ledgers /\ startLedger \in Ledgers
      /\ cursor[w] \in 1 .. MaxLedger + 1 /\ First(w) <= cursor[w]
      /\ led[w] \in Ledgers /\ upto[w] \in Ledgers
  BY <1>1, RunChunks DEF BInv, RunBounds, WorkerBounds, BackfillTypeOK, ProcTypeOK
<1>chunk. First(w) \in Ledgers /\ End(w) \in Ledgers
  BY <1>2, MaxLedgerAssumption DEF Ledgers
<1>3. \A l \in Ledgers : Complete(l)' = Complete(l)
  BY <1>1 DEF Complete
<1>4. CursorLedgerComplete' /\ (WantedPrefixComplete => WantedPrefixComplete')
  BY <1>1 DEF BInv, CursorLedgerComplete, WantedPrefixComplete, Complete
<1>5. CASE FetchLedgers(w)
  <2>1. PICK count \in FetchSizes(w) : Begin(w, cursor[w], cursor[w] + count - 1)
    BY <1>5 DEF FetchLedgers
  <2>2. wstate' = [wstate EXCEPT ![w] = "batch"] /\ wstate[w] = "fetch" /\ UNCHANGED <<cursor, dry>>
    BY <1>5 DEF FetchLedgers
  <2>3. /\ cursor[w] <= End(w) /\ count \in Nat \ {0} /\ cursor[w] + count - 1 <= End(w)
        /\ cursor[w] \in Ledgers /\ cursor[w] + count - 1 \in Ledgers
    <3>1. cursor[w] <= End(w)
      BY <2>2 DEF BInv, WorkerBounds
    <3>2. count \in 1 .. End(w) - cursor[w] + 1
      BY <3>1, <1>2, FetchSizeAssumption DEF FetchSizes, Smallest
    <3>. QED  BY <3>1, <3>2, <1>2, <1>chunk, MaxLedgerAssumption DEF Ledgers
  <2>4. /\ step' = [step EXCEPT ![w] = "ledgers"] /\ led' = [led EXCEPT ![w] = cursor[w]]
        /\ upto' = [upto EXCEPT ![w] = cursor[w] + count - 1] /\ "ledgers" \in Steps
    BY <2>1 DEF Begin, Steps, WriteSteps, Tables, KeyedTables
  <2>5. BackfillTypeOK'
    BY <2>2, <2>3, <2>4, <1>1
       DEF BInv, BackfillTypeOK, StoreTypeOK, ProcTypeOK, WorkerStates
  <2>6. RunBounds'
    BY <2>2, <1>1, <1>2 DEF BInv, RunBounds, Used, BackfillTypeOK
  <2>7. WorkerBounds'
    BY <2>2, <2>3, <2>4, <1>1, <1>2, WorkersAssumption
       DEF BInv, WorkerBounds, First, End, BackfillTypeOK, ProcTypeOK, Complete
  <2>8. \A q \in Workers : Stored(q)'
    BY <2>4, <1>1, WorkersAssumption
       DEF BInv, BackfillTypeOK, ProcTypeOK, Stored, WrittenBefore
  <2>9. BatchPrefixComplete'
    <3>1. led'[w] = cursor[w] /\ cursor[w] .. cursor[w] - 1 = {}
      BY <2>3, <2>4, <1>1 DEF BInv, BackfillTypeOK, ProcTypeOK, Ledgers
    <3>2. \A q \in Workers \ {w} : wstate'[q] = wstate[q] /\ led'[q] = led[q]
      BY <2>2, <2>4, WorkersAssumption DEF BInv, BackfillTypeOK, ProcTypeOK
    <3>. QED  BY <3>1, <3>2, <2>2, <1>1 DEF BInv, BatchPrefixComplete, Complete
  <2>10. WorkerPrefixComplete'
    BY <2>2, <1>1 DEF BInv, WorkerPrefixComplete, Complete, BackfillTypeOK
  <2>. QED  BY <2>5, <2>6, <2>7, <2>8, <2>9, <2>10, <1>4 DEF BInv
<1>6. CASE FetchEmpty(w) \/ WorkerFails(w)
  <2>1. /\ UNCHANGED <<led, upto, cursor>>
        /\ step'[w] = "idle" /\ step' \in [Procs -> Steps]
        /\ \A q \in Procs \ {w} : step'[q] = step[q]
        /\ dry \subseteq dry' /\ dry' \subseteq Workers
        /\ wstate' \in [Workers -> WorkerStates]
        /\ \A q \in Workers \ {w} : wstate'[q] = wstate[q]
        /\ \/ wstate'[w] = "done" /\ w \in dry'
           \/ wstate'[w] = "failed"
           \/ wstate'[w] = "silent" /\ cancelled
    <3>1. CASE FetchEmpty(w)
      BY <3>1, WorkersAssumption
         DEF FetchEmpty, BInv, BackfillTypeOK, ProcTypeOK, WorkerStates, WorkerBounds, procVars
    <3>2. CASE WorkerFails(w)
      BY <3>2, WorkersAssumption
         DEF WorkerFails, Abandon, BInv, BackfillTypeOK, ProcTypeOK, WorkerStates, Steps
    <3>. QED  BY <1>6, <3>1, <3>2
  <2>2. BackfillTypeOK'
    BY <2>1, <1>1 DEF BInv, BackfillTypeOK, StoreTypeOK, ProcTypeOK
  <2>3. RunBounds'
    BY <2>1, <1>1, <1>2 DEF BInv, RunBounds, Used
  <2>4. WorkerBounds'
    BY <2>1, <1>1, <1>2, WorkersAssumption DEF BInv, WorkerBounds, First, End, Complete
  <2>5. \A q \in Workers : Stored(q)'
    BY <2>1, <1>1, WorkersAssumption DEF BInv, Stored, WrittenBefore, Tables, KeyedTables,
                                         SerialTables
  <2>6. BatchPrefixComplete'
    BY <2>1, <1>1 DEF BInv, BatchPrefixComplete, Complete
  <2>7. WorkerPrefixComplete'
    BY <2>1, <1>1 DEF BInv, WorkerPrefixComplete, Complete
  <2>. QED  BY <2>2, <2>3, <2>4, <2>5, <2>6, <2>7, <1>4 DEF BInv
<1>7. CASE BatchProcessed(w)
  <2>1. /\ wstate[w] = "batch" /\ step[w] = "idle"
        /\ UNCHANGED <<step, led, upto, dry>>
        /\ cursor' = [cursor EXCEPT ![w] = upto[w] + 1]
        /\ wstate' = [wstate EXCEPT ![w] = IF upto[w] < End(w) THEN "fetch" ELSE "done"]
    BY <1>7 DEF BatchProcessed, procVars
  <2>2. /\ led[w] = upto[w] /\ Complete(led[w]) /\ cursor[w] <= led[w] /\ upto[w] <= End(w)
        /\ End(w) \in Ledgers
    BY <2>1, <1>chunk DEF BInv, WorkerBounds
  <2>3. \A q \in Workers \ {w} : wstate'[q] = wstate[q] /\ cursor'[q] = cursor[q]
    BY <2>1 DEF BInv, BackfillTypeOK
  <2>4. /\ cursor'[w] = upto[w] + 1 /\ upto[w] + 1 \in 1 .. MaxLedger + 1
        /\ cursor' \in [Workers -> 1 .. MaxLedger + 1]
        /\ wstate' \in [Workers -> WorkerStates]
        /\ \/ wstate'[w] = "fetch" /\ upto[w] < End(w)
           \/ wstate'[w] = "done" /\ upto[w] = End(w)
    BY <2>1, <2>2, <1>2, MaxLedgerAssumption DEF BInv, BackfillTypeOK, WorkerStates, Ledgers
  <2>5. BackfillTypeOK'
    BY <2>1, <2>4, <1>1 DEF BInv, BackfillTypeOK, StoreTypeOK, ProcTypeOK
  <2>6. RunBounds'
    BY <2>3, <2>4, <1>1, <1>2 DEF BInv, RunBounds, Used
  <2>7. WorkerBounds'
    BY <2>1, <2>2, <2>3, <2>4, <1>1, <1>2 DEF BInv, WorkerBounds, First, End, Complete, Ledgers
  <2>8. \A q \in Workers : Stored(q)'
    BY <2>1, <1>1 DEF BInv, Stored
  <2>9. BatchPrefixComplete'
    BY <2>1, <2>3, <2>4, <1>1 DEF BInv, BatchPrefixComplete, Complete
  <2>10. WorkerPrefixComplete'
    <3>1. ASSUME NEW l \in First(w) .. upto[w] PROVE Complete(l)
      <4>1. CASE l <= cursor[w] - 1
        BY <4>1, <3>1, <2>1, <1>2 DEF BInv, WorkerPrefixComplete, First, Ledgers
      <4>2. CASE cursor[w] <= l /\ l <= led[w] - 1
        BY <4>2, <3>1, <2>1, <1>2 DEF BInv, BatchPrefixComplete, Ledgers
      <4>3. CASE l = led[w]
        BY <4>3, <2>2
      <4>. QED  BY <4>1, <4>2, <4>3, <3>1, <2>2, <1>2 DEF Ledgers
    <3>2. First(w) .. cursor'[w] - 1 = First(w) .. upto[w]
      BY <2>4, <1>2 DEF Ledgers
    <3>3. \A l \in First(w) .. cursor'[w] - 1 : Complete(l)'
      BY <3>1, <3>2, <1>1 DEF Complete
    <3>4. ASSUME NEW q \in Workers, q # w, wstate'[q] # "off",
                 NEW l \in First(q) .. cursor'[q] - 1
          PROVE  Complete(l)'
      BY <3>4, <2>3, <1>1 DEF BInv, WorkerPrefixComplete, First, Complete
    <3>. QED  BY <3>3, <3>4, <1>1 DEF WorkerPrefixComplete, First
  <2>. QED  BY <2>5, <2>6, <2>7, <2>8, <2>9, <2>10, <1>4 DEF BInv
<1>. QED  BY <1>5, <1>6, <1>7

-----------------------------------------------------------------------------
(* The theorems.                                                            *)

\* The invariant holds of empty tables and an operator who has not started yet.
LEMMA BackfillInitInv == BackfillAloneInit => BInv /\ WantedPrefixComplete
<1>. SUFFICES ASSUME BackfillAloneInit PROVE BInv /\ WantedPrefixComplete
  OBVIOUS
<1>. USE DEF BackfillAloneInit, StoreInit, ProcInit, BackfillInit
<1>1. BackfillTypeOK
  <2>1. 1 \in Ledgers /\ 1 \in 1 .. MaxWorkers /\ 1 \in 1 .. MaxLedger + 1
        /\ 0 \in 0 .. MaxLedger /\ 0 \in 0 .. MaxRuns /\ 0 \in 0 .. 2
    BY MaxLedgerAssumption, MaxWorkersAssumption, MaxRunsAssumption DEF Ledgers
  <2>2. StoreTypeOK /\ ProcTypeOK
    BY <2>1 DEF StoreTypeOK, ProcTypeOK, Steps
  <2>. QED  BY <2>1, <2>2 DEF BackfillTypeOK, WorkerStates
<1>2. RunBounds /\ WorkerBounds
  BY WorkersAssumption DEF RunBounds, WorkerBounds
<1>3. \A w \in Workers : Stored(w)
  BY WorkersAssumption
     DEF Stored, WrittenBefore, Tables, KeyedTables, SerialTables
<1>4. /\ BatchPrefixComplete /\ WorkerPrefixComplete
      /\ WantedPrefixComplete /\ CursorLedgerComplete
  BY DEF BatchPrefixComplete, WorkerPrefixComplete, WantedPrefixComplete, CursorLedgerComplete
<1>. QED  BY <1>1, <1>2, <1>3, <1>4 DEF BInv

\* Every step preserves it: one of the operator, of a worker, or none.
LEMMA BackfillStepInv ==
  ASSUME BInv, [Backfill]_<<storeVars, procVars, backfillVars>>
  PROVE  BInv' /\ (WantedPrefixComplete => WantedPrefixComplete')
<1>1. CASE Backfill
  BY <1>1, OperatorInv, WorkerInv, WorkInv DEF Backfill, RunWorker
<1>2. CASE UNCHANGED <<storeVars, procVars, backfillVars>>
  <2>1. UNCHANGED <<rows, ingested, origin, step, led, upto, published, run, source, workerCount,
                    startLedger, endLedger, wstate, cursor, dry, cancelled, runs, wanted>>
    BY <1>2 DEF storeVars, procVars, backfillVars
  <2>. QED
    BY <2>1 DEF BInv, BackfillTypeOK, StoreTypeOK, ProcTypeOK, RunBounds, Used, WorkerBounds,
                First, End, Stored, BatchPrefixComplete, WorkerPrefixComplete,
                WantedPrefixComplete, CursorLedgerComplete, Complete
<1>. QED  BY <1>1, <1>2

\* It holds throughout.
LEMMA BackfillInvariance == BackfillSpec => [](BInv /\ WantedPrefixComplete)
<1>1. /\ BInv /\ WantedPrefixComplete
      /\ [Backfill]_<<storeVars, procVars, backfillVars>>
      => (BInv /\ WantedPrefixComplete)'
  BY BackfillStepInv
<1>. QED  BY <1>1, BackfillInitInv, PTL DEF BackfillSpec

\* The variables of a backfill, of its workers and of the tables keep their
\* types: in particular no worker leaves the ledgers there are.
THEOREM BackfillTypeCorrect == BackfillSpec => []BackfillTypeOK
<1>1. BInv => BackfillTypeOK
  BY DEF BInv
<1>. QED  BY <1>1, BackfillInvariance, PTL

\* What a worker has behind its cursor is whole, whatever the others do.
THEOREM BackfillWorkerPrefix == BackfillSpec => []WorkerPrefixComplete
<1>1. BInv => WorkerPrefixComplete
  BY DEF BInv
<1>. QED  BY <1>1, BackfillInvariance, PTL

\* A run that says it is done, in which no worker stopped at an empty batch and
\* none was silenced, has stored every ledger of its range with all its batches.
LEMMA AllDoneComplete ==
  ASSUME BInv, run = "nil", dry = {}, \A w \in Workers : wstate[w] # "silent",
         NEW l \in startLedger .. endLedger
  PROVE  Complete(l)
<1>1. /\ startLedger \in Nat /\ endLedger \in Nat /\ startLedger <= endLedger
      /\ workerCount \in 1 .. MaxWorkers /\ Used \in 1 .. workerCount
      /\ endLedger \in Ledgers
  BY RunChunks DEF BInv, BackfillTypeOK
<1>2. PICK w \in Nat : w < Used /\ l \in First(w) .. End(w)
  <2>1. workerCount \in Nat \ {0}
    BY <1>1, MaxWorkersAssumption
  <2>. QED  BY <2>1, <1>1, ChunksCover DEF Used, First, End, Chunk
<1>3. w \in Workers
  BY <1>1, <1>2, MaxWorkersAssumption DEF Workers
<1>4. wstate[w] = "done"
  BY <1>2, <1>3 DEF BInv, RunBounds, BackfillTypeOK, WorkerStates
<1>5. cursor[w] - 1 = End(w)
  <2>1. First(w) \in startLedger .. endLedger /\ End(w) \in First(w) .. endLedger
    BY <1>2, <1>3, RunChunks
  <2>. QED  BY <2>1, <1>1, <1>3, <1>4 DEF BInv, WorkerBounds
<1>. QED  BY <1>2, <1>3, <1>4, <1>5 DEF BInv, WorkerPrefixComplete, First

THEOREM BackfillSuccessMeansComplete == BackfillSpec => []SuccessMeansComplete
<1>1. BInv => SuccessMeansComplete
  BY AllDoneComplete DEF SuccessMeansComplete
<1>. QED  BY <1>1, BackfillInvariance, PTL

\* With one worker a run resumed from the cursor leaves out nothing of what was
\* asked for first, however often it was interrupted.
THEOREM BackfillSerialResume == BackfillSpec => []SerialResumeFillsRange
<1>1. ASSUME BInv, WantedPrefixComplete, workerCount = 1, run = "nil", dry = {}, ~ cancelled, NEW l \in wanted
      PROVE  Complete(l)
  <2>1. l \in Ledgers /\ l <= endLedger /\ startLedger \in Ledgers
    BY <1>1 DEF BInv, BackfillTypeOK, WantedPrefixComplete
  <2>2. \A w \in Workers : wstate[w] # "silent"
    BY <1>1 DEF BInv, RunBounds
  <2>3. CASE l < startLedger
    BY <2>3, <1>1 DEF BInv, WantedPrefixComplete
  <2>4. CASE l \in startLedger .. endLedger
    BY <2>2, <2>4, <1>1, AllDoneComplete
  <2>. QED  BY <2>1, <2>3, <2>4 DEF Ledgers
<1>2. BInv /\ WantedPrefixComplete => SerialResumeFillsRange
  BY <1>1 DEF SerialResumeFillsRange
<1>. QED  BY <1>2, BackfillInvariance, PTL

-----------------------------------------------------------------------------
(* Both programs on one database.                                            *)

\* Where the live pipeline is.  The cursor may be anywhere: the backfill moves
\* it too.
LivePosition ==
  /\ led[Live] <= upto[Live]
  /\ pc = "resume" => target \in Ledgers
  /\ pc = "fetch" => next <= target
  /\ step[Live] # "idle" => pc \in {"batch", "fill"}
  /\ pc = "batch" /\ step[Live] = "idle" => led[Live] = upto[Live]

\* As long as the backfill was started once, it was asked for its range.
OneRunWanted ==
  /\ runs = 0 => wanted = {}
  /\ runs = 1 => wanted = startLedger .. endLedger

SharedInv ==
  /\ BInv
  /\ LiveTypeOK
  /\ LivePosition
  /\ Stored(Live)
  /\ OneRunWanted
  /\ RowFirst

-----------------------------------------------------------------------------
(* Steps of the two programs as each sees the other.                        *)

LEMMA LiveIsNoWorker == Live \in Procs /\ Live \in Publishers /\ Live \notin Workers
BY LiveAssumption, WorkersAssumption

\* A call of ProcessOneLedger stores a ledger's row before anything else.
LEMMA CallRowFirst ==
  ASSUME RowFirst, StoreTypeOK, ProcTypeOK, NEW p \in Procs, Stored(p)', CallEffect(p)
  PROVE  RowFirst'
<1>1. led[p] \in Ledgers /\ "ledgers" \in Tables
  BY DEF ProcTypeOK, Tables, KeyedTables
<1>2. CASE step[p] \in Tables
  <2>1. step'[p] \in WriteSteps \ {"ledgers"} /\ led'[p] = led[p]
    BY <1>2 DEF CallEffect
  <2>2. "ledgers" \in WrittenBefore(step'[p])
    BY <2>1 DEF WrittenBefore, WriteSteps, Tables, KeyedTables, SerialTables
  <2>3. rows'[led[p]]["ledgers"] > 0
    BY <2>1, <2>2 DEF Stored
  <2>4. \A l \in Ledgers \ {led[p]} : rows'[l] = rows[l]
    BY DEF CallEffect
  <2>5. ASSUME NEW l \in Ledgers \ {led[p]}, NEW t \in Tables, rows'[l][t] > 0
        PROVE  HasRow(l)'
    BY <2>4, <2>5 DEF RowFirst, HasRow
  <2>. QED  BY <2>3, <2>5, <1>1 DEF RowFirst, HasRow
<1>3. CASE step[p] \notin Tables
  BY <1>3 DEF CallEffect, RowFirst, HasRow
<1>. QED  BY <1>2, <1>3

\* A call of ProcessOneLedger that moves the cursor moves it to a whole ledger.
LEMMA CallCursor ==
  ASSUME CursorLedgerComplete, StoreTypeOK, ProcTypeOK, NEW p \in Procs, CallEffect(p)
  PROVE  CursorLedgerComplete' /\ ingested' >= ingested
<1>1. led[p] \in Ledgers /\ ingested \in 0 .. MaxLedger /\ "cursor" \notin Tables
  BY DEF StoreTypeOK, ProcTypeOK, Tables, KeyedTables, SerialTables
<1>2. \A l \in Ledgers : Complete(l) => Complete(l)'
  BY DEF CallEffect, Complete
<1>3. CASE step[p] = "cursor"
  <2>1. Complete(led[p]) /\ SetLastIngestedLedger(led[p])
    BY <1>1, <1>3 DEF CallEffect
  <2>. QED
    BY <2>1, <1>1, <1>2, MaxLedgerAssumption
       DEF CursorLedgerComplete, SetLastIngestedLedger, Ledgers
<1>4. CASE step[p] # "cursor"
  BY <1>1, <1>2, <1>4, MaxLedgerAssumption DEF CallEffect, CursorLedgerComplete, Ledgers
<1>. QED  BY <1>3, <1>4

\* The backfill's part of the invariant while the live pipeline takes a step.
LEMMA BackfillFrame ==
  ASSUME BInv, UNCHANGED backfillVars,
         StoreTypeOK', ProcTypeOK', CursorLedgerComplete',
         \A l \in Ledgers, t \in Tables : rows[l][t] > 0 => rows'[l][t] > 0,
         \A w \in Workers : step'[w] = step[w] /\ led'[w] = led[w] /\ upto'[w] = upto[w]
  PROVE  BInv'
<1>1. UNCHANGED <<run, source, workerCount, startLedger, endLedger, wstate, cursor, dry,
                  cancelled, runs, wanted>>
  BY DEF backfillVars
<1>2. \A l \in Ledgers : Complete(l) => Complete(l)'
  BY DEF Complete
<1>3. \A w \in Workers : /\ led[w] \in Ledgers /\ cursor[w] \in 1 .. MaxLedger + 1
                         /\ WrittenBefore(step[w]) \subseteq Tables
  BY WorkersAssumption
     DEF BInv, BackfillTypeOK, ProcTypeOK, WrittenBefore, Tables, KeyedTables, SerialTables
<1>4. BackfillTypeOK' /\ RunBounds'
  BY <1>1 DEF BInv, BackfillTypeOK, RunBounds, Used
<1>5. WorkerBounds'
  BY <1>1, <1>2, <1>3 DEF BInv, WorkerBounds, First, End
<1>6. \A w \in Workers : Stored(w)'
  BY <1>3 DEF BInv, Stored
<1>7. BatchPrefixComplete'
  <2>1. ASSUME NEW w \in Workers, NEW l \in cursor[w] .. led[w] - 1 PROVE l \in Ledgers
    BY <2>1, <1>3, MaxLedgerAssumption DEF Ledgers
  <2>. QED  BY <2>1, <1>1, <1>2 DEF BInv, BatchPrefixComplete
<1>8. WorkerPrefixComplete'
  <2>1. ASSUME NEW w \in Workers, wstate[w] # "off", NEW l \in First(w) .. cursor[w] - 1
        PROVE  l \in Ledgers
    <3>1. First(w) \in startLedger .. endLedger /\ startLedger \in Ledgers
      BY <2>1, RunChunks DEF BInv, RunBounds, BackfillTypeOK
    <3>. QED  BY <3>1, <2>1, <1>3, MaxLedgerAssumption DEF Ledgers
  <2>. QED  BY <2>1, <1>1, <1>2 DEF BInv, WorkerPrefixComplete, First
<1>. QED  BY <1>4, <1>5, <1>6, <1>7, <1>8 DEF BInv

-----------------------------------------------------------------------------
(* The invariant both keep.                                                 *)

\* What one call of the live pipeline does while a backfill is about.
LEMMA LiveCallFacts ==
  ASSUME SharedInv, Process
  PROVE  /\ StoreTypeOK' /\ ProcTypeOK' /\ Stored(Live)' /\ CallEffect(Live)
         /\ RowFirst' /\ CursorLedgerComplete' /\ ingested' >= ingested
         /\ UNCHANGED liveVars /\ pc \in {"batch", "fill"} /\ pc' = pc /\ failures' = failures
         /\ \A w \in Workers : step'[w] = step[w] /\ led'[w] = led[w] /\ upto'[w] = upto[w]
<1>1. /\ ProcessOneLedger(Live) /\ UNCHANGED liveVars /\ pc \in {"batch", "fill"}
      /\ StoreTypeOK /\ ProcTypeOK /\ led[Live] <= upto[Live] /\ Stored(Live)
      /\ RowFirst /\ CursorLedgerComplete
  BY DEF Process, SharedInv, BInv, BackfillTypeOK, LivePosition
<1>2. StoreTypeOK' /\ ProcTypeOK' /\ Stored(Live)' /\ CallEffect(Live)
  BY <1>1, LiveIsNoWorker, CallFacts
<1>3. RowFirst' /\ CursorLedgerComplete' /\ ingested' >= ingested
  BY <1>1, <1>2, LiveIsNoWorker, CallRowFirst, CallCursor
<1>4. \A w \in Workers : step'[w] = step[w] /\ led'[w] = led[w] /\ upto'[w] = upto[w]
  BY <1>2, LiveIsNoWorker, WorkersAssumption DEF CallEffect
<1>. QED  BY <1>1, <1>2, <1>3, <1>4 DEF liveVars

LEMMA SharedProcess ==
  ASSUME SharedInv, Process, UNCHANGED backfillVars
  PROVE  SharedInv'
<1>1. /\ StoreTypeOK' /\ ProcTypeOK' /\ Stored(Live)' /\ CallEffect(Live)
      /\ RowFirst' /\ CursorLedgerComplete' /\ ingested' >= ingested
      /\ UNCHANGED liveVars /\ pc \in {"batch", "fill"}
      /\ \A w \in Workers : step'[w] = step[w] /\ led'[w] = led[w] /\ upto'[w] = upto[w]
  BY LiveCallFacts
<1>2. BInv'
  BY <1>1, BackfillFrame DEF SharedInv, CallEffect
<1>3. LiveTypeOK' /\ OneRunWanted'
  BY <1>1 DEF SharedInv, LiveTypeOK, OneRunWanted, liveVars, backfillVars
<1>4. LivePosition'
  <2>1. led[Live] \in Ledgers /\ upto[Live] \in Ledgers /\ led[Live] <= upto[Live]
    BY LiveIsNoWorker DEF SharedInv, BInv, BackfillTypeOK, ProcTypeOK, LivePosition
  <2>2. upto' = upto /\ led'[Live] <= upto[Live]
        /\ (step'[Live] = "idle" => led'[Live] = upto[Live])
    BY <1>1, <2>1, MaxLedgerAssumption DEF CallEffect, Ledgers
  <2>. QED  BY <2>1, <2>2, <1>1 DEF SharedInv, LivePosition, liveVars
<1>. QED  BY <1>1, <1>2, <1>3, <1>4 DEF SharedInv

\* Control moves of the live pipeline leave tables, cursor and workers alone.
LEMMA SharedControlFrame ==
  ASSUME SharedInv, UNCHANGED <<storeVars, published, backfillVars>>,
         ProcTypeOK', LiveTypeOK', LivePosition',
         \A w \in Workers : step'[w] = step[w] /\ led'[w] = led[w] /\ upto'[w] = upto[w],
         \/ step'[Live] = "idle"
         \/ step'[Live] = "ledgers"
         \/ UNCHANGED <<step, led>>
  PROVE  SharedInv'
<1>1. UNCHANGED <<rows, ingested, origin>>
  BY DEF storeVars
<1>2. BInv'
  <2>1. StoreTypeOK' /\ CursorLedgerComplete'
    BY <1>1 DEF SharedInv, BInv, BackfillTypeOK, StoreTypeOK, CursorLedgerComplete, Complete
  <2>. QED  BY <1>1, <2>1, BackfillFrame DEF SharedInv
<1>3. Stored(Live)'
  BY <1>1 DEF SharedInv, Stored, WrittenBefore, Tables, KeyedTables, SerialTables
<1>4. OneRunWanted' /\ RowFirst'
  BY <1>1 DEF SharedInv, OneRunWanted, RowFirst, HasRow, backfillVars
<1>. QED  BY <1>2, <1>3, <1>4 DEF SharedInv

LEMMA SharedControl ==
  ASSUME SharedInv, Tail \/ Gap \/ GapTick \/ Interrupt \/ GapFailure \/ CloseLedger,
         UNCHANGED backfillVars
  PROVE  SharedInv'
<1>. USE DEF Goto, liveVars, procVars, storeVars
<1>1. /\ LiveTypeOK /\ LivePosition /\ ProcTypeOK /\ StoreTypeOK /\ Live \in Procs
      /\ \A w \in Workers : w \in Procs /\ w # Live
  BY LiveIsNoWorker, WorkersAssumption DEF SharedInv, BInv, BackfillTypeOK
<1>2. CASE \/ GetLatestLedger \/ FetchRefused \/ BatchDone \/ GapTick
           \/ GapRefused \/ FillDone \/ CloseLedger
  <2>1. /\ UNCHANGED <<rows, ingested, origin, step, led, upto, published>>
    BY <1>2 DEF GetLatestLedger, FetchRefused, BatchDone, GapTick, GapRefused,
                FillDone, CloseLedger
  <2>2. LiveTypeOK'
    <3>1. CASE BatchDone
      BY <3>1, <1>1, MaxLedgerAssumption DEF BatchDone, LiveTypeOK, PCs, ProcTypeOK, Ledgers
    <3>2. CASE CloseLedger
      BY <3>2, <1>1, MaxLedgerAssumption DEF CloseLedger, LiveTypeOK, Ledgers
    <3>3. CASE GetLatestLedger \/ GapTick
      <4>1. pc' \in PCs /\ UNCHANGED <<tip, next, todo, failures>>
        BY <3>3 DEF GetLatestLedger, GapTick, PCs
      <4>2. target' \in 0 .. MaxLedger
        BY <3>3, <1>1, MaxLedgerAssumption
           DEF GetLatestLedger, GapTick, LiveTypeOK, StoreTypeOK, Ledgers
      <4>. QED  BY <4>1, <4>2, <1>1 DEF LiveTypeOK
    <3>4. CASE FetchRefused \/ GapRefused \/ FillDone
      BY <3>4, <1>1 DEF FetchRefused, GapRefused, FillDone, LiveTypeOK, PCs
    <3>. QED  BY <1>2, <3>1, <3>2, <3>3, <3>4
  <2>3. LivePosition'
    <3>1. CASE BatchDone
      BY <3>1, <2>1, <1>1 DEF BatchDone, LivePosition, LiveTypeOK, ProcTypeOK, Ledgers
    <3>2. CASE CloseLedger
      BY <3>2, <2>1, <1>1 DEF CloseLedger, LivePosition
    <3>3. CASE GetLatestLedger
      BY <3>3, <2>1, <1>1 DEF GetLatestLedger, LivePosition, LiveTypeOK
    <3>4. CASE FetchRefused \/ GapTick \/ GapRefused \/ FillDone
      BY <3>4, <2>1, <1>1 DEF FetchRefused, GapTick, GapRefused, FillDone, LivePosition
    <3>. QED  BY <1>2, <3>1, <3>2, <3>3, <3>4
  <2>4. ProcTypeOK'
    BY <2>1, <1>1 DEF ProcTypeOK
  <2>. QED  BY <2>1, <2>2, <2>3, <2>4, SharedControlFrame
<1>3. CASE ResumeFromCursor
  <2>1. /\ UNCHANGED <<rows, ingested, origin, step, led, upto, published, tip, target, todo,
                       failures>>
        /\ pc = "resume" /\ target \in Ledgers /\ ingested \in 0 .. MaxLedger
    BY <1>3, <1>1 DEF ResumeFromCursor, LivePosition, StoreTypeOK
  <2>2. \/ pc' = "select" /\ next' = next
        \/ pc' = "fetch" /\ next' \in 1 .. MaxLedger + 1 /\ next' <= target
    BY <1>3, <2>1, MaxLedgerAssumption
       DEF ResumeFromCursor, UpToDate, LastIngested, Ledgers
  <2>3. LiveTypeOK' /\ LivePosition' /\ ProcTypeOK'
    BY <2>1, <2>2, <1>1 DEF LiveTypeOK, PCs, LivePosition, ProcTypeOK
  <2>. QED  BY <2>1, <2>3, SharedControlFrame
<1>4. CASE FetchBatch
  <2>1. PICK count \in 1 .. Smaller(BatchSize, target - next + 1) :
          Begin(Live, next, next + count - 1)
    BY <1>4 DEF FetchBatch
  <2>2. /\ next \in Ledgers /\ next + count - 1 \in Ledgers /\ next <= next + count - 1
        /\ pc' = "batch" /\ UNCHANGED <<rows, ingested, origin, tip, target, next, todo, failures>>
    BY <1>4, <2>1, <1>1, BatchSizeAssumption, MaxLedgerAssumption
       DEF FetchBatch, Smaller, LivePosition, LiveTypeOK, Ledgers
  <2>3. /\ step' = [step EXCEPT ![Live] = "ledgers"] /\ step'[Live] = "ledgers"
        /\ led' = [led EXCEPT ![Live] = next]
        /\ upto' = [upto EXCEPT ![Live] = next + count - 1]
        /\ "ledgers" \in Steps /\ UNCHANGED published
    BY <2>1, <1>1 DEF Begin, ProcTypeOK, Steps, WriteSteps, Tables, KeyedTables
  <2>4. LiveTypeOK' /\ LivePosition' /\ ProcTypeOK'
    BY <2>2, <2>3, <1>1 DEF LiveTypeOK, PCs, LivePosition, ProcTypeOK
  <2>5. \A w \in Workers : step'[w] = step[w] /\ led'[w] = led[w] /\ upto'[w] = upto[w]
    BY <2>3, <1>1 DEF ProcTypeOK
  <2>. QED  BY <2>2, <2>3, <2>4, <2>5, SharedControlFrame
<1>5. CASE FindGaps
  <2>1. todo' \subseteq Ledgers
    <3>1. target \in 0 .. MaxLedger /\ GapScanStart \in Nat \ {0}
      BY <1>1, GapWindowAssumption DEF LiveTypeOK, GapScanStart
    <3>2. todo' \subseteq GapScanStart .. target
      BY <1>5 DEF FindGaps, FindMissingLedgerSequences
    <3>. QED  BY <3>1, <3>2, MaxLedgerAssumption DEF Ledgers
  <2>2. LiveTypeOK' /\ LivePosition' /\ ProcTypeOK'
    BY <1>5, <2>1, <1>1 DEF FindGaps, LiveTypeOK, PCs, LivePosition, ProcTypeOK
  <2>. QED  BY <1>5, <2>2, SharedControlFrame DEF FindGaps
<1>6. CASE FetchGap
  <2>1. PICK first \in FirstRun, last \in FirstRun : first <= last /\ Begin(Live, first, last)
    BY <1>6 DEF FetchGap
  <2>2. first \in Ledgers /\ last \in Ledgers
    BY <2>1, <1>1 DEF FirstRun, LiveTypeOK
  <2>3. /\ step' = [step EXCEPT ![Live] = "ledgers"] /\ step'[Live] = "ledgers"
        /\ led' = [led EXCEPT ![Live] = first] /\ upto' = [upto EXCEPT ![Live] = last]
        /\ "ledgers" \in Steps /\ UNCHANGED published
    BY <2>1, <1>1 DEF Begin, ProcTypeOK, Steps, WriteSteps, Tables, KeyedTables
  <2>4. LiveTypeOK' /\ LivePosition' /\ ProcTypeOK'
    BY <1>6, <2>1, <2>2, <2>3, <1>1 DEF FetchGap, LiveTypeOK, PCs, LivePosition, ProcTypeOK
  <2>5. \A w \in Workers : step'[w] = step[w] /\ led'[w] = led[w] /\ upto'[w] = upto[w]
    BY <2>3, <1>1 DEF ProcTypeOK
  <2>. QED  BY <1>6, <2>3, <2>4, <2>5, SharedControlFrame DEF FetchGap
<1>7. CASE Interrupt \/ GapFailure
  <2>1. /\ step' = [step EXCEPT ![Live] = "idle"] /\ step'[Live] = "idle" /\ "idle" \in Steps
        /\ failures' = failures + 1 /\ failures < MaxFailures
        /\ todo' = {} /\ pc' \in {"select", "poll"}
        /\ UNCHANGED <<rows, ingested, origin, led, upto, published, tip, target, next>>
    BY <1>7, <1>1 DEF Interrupt, GapFailure, Abandon, ProcTypeOK, Steps
  <2>2. LiveTypeOK' /\ LivePosition' /\ ProcTypeOK'
    BY <2>1, <1>1, MaxFailuresAssumption DEF LiveTypeOK, PCs, LivePosition, ProcTypeOK
  <2>3. \A w \in Workers : step'[w] = step[w] /\ led'[w] = led[w] /\ upto'[w] = upto[w]
    BY <2>1, <1>1 DEF ProcTypeOK
  <2>. QED  BY <2>1, <2>2, <2>3, SharedControlFrame
<1>. QED  BY <1>2, <1>3, <1>4, <1>5, <1>6, <1>7 DEF Tail, Gap

\* What a step of the backfill does that the live pipeline can see: rows of the
\* range, and the cursor further up.
LEMMA BackfillEffect ==
  ASSUME SharedInv, Backfill
  PROVE  /\ step'[Live] = step[Live] /\ led'[Live] = led[Live] /\ upto'[Live] = upto[Live]
         /\ \A l \in Ledgers, t \in Tables : rows[l][t] > 0 => rows'[l][t] > 0
         /\ \A l \in Ledgers : rows'[l] = rows[l] \/ (l \in startLedger .. endLedger /\ runs # 0)
         /\ ingested' >= ingested
         /\ runs' >= runs /\ runs \in Nat
         /\ \/ UNCHANGED <<runs, wanted, startLedger, endLedger>>
            \/ runs' = runs + 1 /\ UNCHANGED rows
         /\ OneRunWanted' /\ RowFirst'
<1>1. /\ StoreTypeOK /\ ProcTypeOK /\ Live \in Procs /\ Live \notin Workers /\ runs \in Nat
      /\ ingested \in 0 .. MaxLedger
  BY LiveIsNoWorker, MaxRunsAssumption DEF SharedInv, BInv, BackfillTypeOK, StoreTypeOK
<1>2. CASE StartFirst \/ Resume
  <2>1. PICK src \in {"rpc", "s3"}, s \in 0 .. MaxLedger, e \in Ledgers, n \in 1 .. MaxWorkers :
          Start(src, s, e, n)
    <3>1. ResumePoint \in 0 .. MaxLedger /\ Ledgers \subseteq 0 .. MaxLedger
      BY <1>1, MaxLedgerAssumption DEF ResumePoint, SharedInv, BInv, BackfillTypeOK, Ledgers
    <3>. QED
      BY <1>2, <3>1 DEF StartFirst, Resume, SharedInv, BInv, BackfillTypeOK
  <2>2. /\ runs' = runs + 1 /\ UNCHANGED <<rows, ingested, step, led, upto>>
        /\ startLedger' = FirstLedger(src, s) /\ endLedger' = e
        /\ wanted' = IF runs = 0 THEN startLedger' .. endLedger' ELSE wanted
    BY <2>1 DEF Start, storeVars, procVars
  <2>3. OneRunWanted'
    BY <2>2, <1>1 DEF OneRunWanted
  <2>4. RowFirst'
    BY <2>2 DEF SharedInv, RowFirst, HasRow
  <2>5. ingested' >= ingested /\ runs' >= runs
    BY <2>2, <1>1
  <2>. QED  BY <2>2, <2>3, <2>4, <2>5, <1>1
<1>3. CASE \E w \in Workers : Work(w)
  <2>1. PICK w \in Workers : Work(w)
    BY <1>3
  <2>2. /\ wstate[w] = "batch" /\ ProcessOneLedger(w) /\ w \in Procs /\ w # Live
        /\ UNCHANGED <<runs, wanted, startLedger, endLedger>>
        /\ led[w] <= upto[w] /\ cursor[w] <= led[w] /\ upto[w] <= End(w)
        /\ First(w) <= cursor[w] /\ run = "running" /\ w < Used /\ Stored(w)
    BY <2>1, <1>1, WorkersAssumption
       DEF Work, backfillVars, SharedInv, BInv, RunBounds, WorkerBounds
  <2>3. led[w] \in startLedger .. endLedger /\ runs # 0
    <3>1. /\ First(w) \in startLedger .. endLedger /\ End(w) \in First(w) .. endLedger
          /\ startLedger \in Ledgers /\ endLedger \in Ledgers /\ runs # 0
      BY <2>2, RunChunks DEF SharedInv, BInv, BackfillTypeOK, RunBounds
    <3>2. led[w] \in Ledgers /\ upto[w] \in Ledgers /\ cursor[w] \in 1 .. MaxLedger + 1
      BY <2>2, <1>1 DEF ProcTypeOK, SharedInv, BInv, BackfillTypeOK
    <3>. QED  BY <3>1, <3>2, <2>2, MaxLedgerAssumption DEF Ledgers
  <2>4. Stored(w)' /\ CallEffect(w) /\ StoreTypeOK' /\ ProcTypeOK'
    BY <2>2, <1>1, CallFacts
  <2>5. RowFirst' /\ ingested' >= ingested
    BY <2>2, <2>4, <1>1, CallRowFirst, CallCursor DEF SharedInv, BInv
  <2>6. OneRunWanted'
    BY <2>2 DEF SharedInv, OneRunWanted
  <2>. QED  BY <2>2, <2>3, <2>4, <2>5, <2>6, <1>1 DEF CallEffect
<1>4. CASE \/ Cancel \/ Finish
           \/ \E w \in Workers :
                FetchLedgers(w) \/ FetchEmpty(w) \/ BatchProcessed(w) \/ WorkerFails(w)
  <2>1. /\ UNCHANGED <<rows, ingested, runs, wanted, startLedger, endLedger>>
        /\ step'[Live] = step[Live] /\ led'[Live] = led[Live] /\ upto'[Live] = upto[Live]
    BY <1>4, <1>1
       DEF Cancel, Finish, FetchLedgers, FetchEmpty, BatchProcessed, WorkerFails, Begin, Abandon,
           storeVars, procVars, rangeVars, ProcTypeOK
  <2>2. OneRunWanted' /\ RowFirst'
    BY <2>1 DEF SharedInv, OneRunWanted, RowFirst, HasRow
  <2>3. ingested' >= ingested /\ runs' >= runs
    BY <2>1, <1>1
  <2>. QED  BY <2>1, <2>2, <2>3, <1>1
<1>. QED  BY <1>2, <1>3, <1>4 DEF Backfill, RunWorker

LEMMA SharedBackfill ==
  ASSUME SharedInv, Backfill, UNCHANGED liveVars
  PROVE  SharedInv'
<1>1. /\ step'[Live] = step[Live] /\ led'[Live] = led[Live] /\ upto'[Live] = upto[Live]
      /\ \A l \in Ledgers, t \in Tables : rows[l][t] > 0 => rows'[l][t] > 0
      /\ OneRunWanted' /\ RowFirst'
  BY BackfillEffect
<1>2. BInv'
  BY BackfillStepInv DEF SharedInv
<1>3. LiveTypeOK' /\ LivePosition'
  BY <1>1 DEF SharedInv, LiveTypeOK, LivePosition, liveVars
<1>4. Stored(Live)'
  <2>1. led[Live] \in Ledgers /\ WrittenBefore(step[Live]) \subseteq Tables
    BY LiveIsNoWorker DEF SharedInv, BInv, BackfillTypeOK, ProcTypeOK, WrittenBefore, Tables,
                          KeyedTables, SerialTables
  <2>. QED  BY <2>1, <1>1 DEF SharedInv, Stored
<1>. QED  BY <1>1, <1>2, <1>3, <1>4 DEF SharedInv

LEMMA SharedInitInv == IndexerInit => SharedInv
<1>. SUFFICES ASSUME IndexerInit PROVE SharedInv
  OBVIOUS
<1>1. BInv
  BY BackfillInitInv DEF IndexerInit, Init, BackfillAloneInit
<1>2. /\ step[Live] = "idle" /\ led[Live] = 1 /\ upto[Live] = 1
      /\ \A l \in Ledgers, t \in Tables : rows[l][t] = 0
  BY LiveIsNoWorker DEF IndexerInit, Init, StoreInit, ProcInit
<1>3. LiveTypeOK /\ LivePosition
  BY <1>2, MaxLedgerAssumption, MaxFailuresAssumption
     DEF IndexerInit, Init, LiveInit, LiveTypeOK, PCs, LivePosition
<1>4. Stored(Live) /\ RowFirst
  BY <1>2 DEF Stored, WrittenBefore, Tables, KeyedTables, SerialTables, RowFirst
<1>5. OneRunWanted
  BY DEF IndexerInit, BackfillInit, OneRunWanted
<1>. QED  BY <1>1, <1>3, <1>4, <1>5 DEF SharedInv

LEMMA SharedNextInv == SharedInv /\ [IndexerNext]_indexerVars => SharedInv'
<1>. SUFFICES ASSUME SharedInv, [IndexerNext]_indexerVars PROVE SharedInv'
  OBVIOUS
<1>1. CASE Next /\ UNCHANGED backfillVars
  BY <1>1, SharedProcess, SharedControl DEF Next, LiveStep
<1>2. CASE BackfillOfClosedLedgers /\ UNCHANGED liveVars
  BY <1>2, SharedBackfill DEF BackfillOfClosedLedgers
<1>3. CASE UNCHANGED indexerVars
  <2>1. UNCHANGED <<storeVars, procVars, liveVars, backfillVars>>
    BY <1>3 DEF indexerVars, vars
  <2>2. ProcTypeOK' /\ LiveTypeOK' /\ LivePosition'
    BY <2>1 DEF SharedInv, BInv, BackfillTypeOK, ProcTypeOK, LiveTypeOK, LivePosition,
                procVars, liveVars
  <2>. QED  BY <2>1, <2>2, SharedControlFrame DEF procVars
<1>. QED  BY <1>1, <1>2, <1>3 DEF IndexerNext

LEMMA SharedInvariance == IndexerSpec => []SharedInv
BY SharedInitInv, SharedNextInv, PTL DEF IndexerSpec

\* The one cursor that two programs move names a ledger with all its batches,
\* whatever fails and however often the backfill is started.
THEOREM SharedCursorLedger == IndexerSpec => []CursorLedgerComplete
<1>1. SharedInv => CursorLedgerComplete
  BY DEF SharedInv, BInv
<1>. QED  BY <1>1, SharedInvariance, PTL

\* A live indexer on the same tables takes nothing away from what a backfill
\* promises: what its workers have behind them is whole, and its range is when
\* it says so.
THEOREM SharedBackfillPromises == IndexerSpec => [](WorkerPrefixComplete /\ SuccessMeansComplete)
<1>1. SharedInv => WorkerPrefixComplete /\ SuccessMeansComplete
  BY AllDoneComplete DEF SharedInv, BInv, SuccessMeansComplete
<1>. QED  BY <1>1, SharedInvariance, PTL

-----------------------------------------------------------------------------
(* A ledger with a row that lacks a batch is being written.                 *)

BeingWritten ==
  \A l \in Ledgers :
    HasRow(l) /\ ~ Complete(l) =>
      \E p \in Procs : led[p] = l /\ step[p] \in WriteSteps \ {"ledgers", "cursor"}

\* The call that stores the row makes its process a writer, the one that stores
\* the last batch completes the ledger.
LEMMA CallBeingWritten ==
  ASSUME BeingWritten, ProcTypeOK, NEW p \in Procs, CallEffect(p), Stored(p)'
  PROVE  BeingWritten'
<1>1. /\ led[p] \in Ledgers
      /\ \A l \in Ledgers \ {led[p]} : rows'[l] = rows[l]
      /\ \A q \in Procs \ {p} : step'[q] = step[q] /\ led'[q] = led[q]
  BY DEF ProcTypeOK, CallEffect
<1>2. ASSUME NEW l \in Ledgers, HasRow(l)', ~ Complete(l)'
      PROVE  \E q \in Procs : led'[q] = l /\ step'[q] \in WriteSteps \ {"ledgers", "cursor"}
  <2>1. CASE l # led[p]
    <3>1. HasRow(l) /\ ~ Complete(l)
      BY <2>1, <1>1, <1>2 DEF HasRow, Complete
    <3>. QED  BY <3>1, <2>1, <1>1 DEF BeingWritten
  <2>2. CASE l = led[p] /\ step[p] \in Tables
    <3>1. led'[p] = l /\ step'[p] \in WriteSteps \ {"ledgers"}
      BY <2>2 DEF CallEffect
    <3>2. step'[p] = "cursor" => Complete(l)'
      BY <3>1 DEF Stored, WrittenBefore, Complete
    <3>. QED  BY <3>1, <3>2, <1>2
  <2>3. CASE l = led[p] /\ step[p] \notin Tables
    <3>1. rows' = rows /\ Complete(l)
      BY <2>3 DEF CallEffect
    <3>. QED  BY <3>1, <1>2 DEF Complete
  <2>. QED  BY <2>1, <2>2, <2>3
<1>. QED  BY <1>2 DEF BeingWritten

\* Where no batch is inserted, a process between two inserts stays where it is.
LEMMA FrameBeingWritten ==
  ASSUME BeingWritten, UNCHANGED rows,
         \A p \in Procs : step[p] # "idle" => step'[p] = step[p] /\ led'[p] = led[p]
  PROVE  BeingWritten'
<1>1. "idle" \notin WriteSteps
  BY DEF WriteSteps, Tables, KeyedTables, SerialTables
<1>. QED  BY <1>1 DEF BeingWritten, HasRow, Complete

LEMMA HalfWrittenNext ==
  ASSUME SharedInv, NothingFailed => BeingWritten, [IndexerNext]_indexerVars
  PROVE  (NothingFailed => BeingWritten)'
<1>. SUFFICES ASSUME NothingFailed' PROVE BeingWritten'
  OBVIOUS
<1>1. /\ ProcTypeOK /\ runs \in Nat /\ failures \in Nat
      /\ Live \in Procs /\ \A w \in Workers : w \in Procs
  BY LiveIsNoWorker, WorkersAssumption, MaxRunsAssumption, MaxFailuresAssumption
     DEF SharedInv, BInv, BackfillTypeOK, LiveTypeOK
<1>2. CASE Next /\ UNCHANGED backfillVars
  <2>1. CASE Process
    <3>1. BeingWritten
      BY <2>1, <1>2 DEF NothingFailed, Process, liveVars, backfillVars
    <3>. QED  BY <3>1, <2>1, <1>1, LiveCallFacts, CallBeingWritten
  <2>2. CASE Interrupt \/ GapFailure
    BY <2>2, <1>1 DEF Interrupt, GapFailure, NothingFailed
  <2>3. CASE Tail \/ Gap \/ GapTick \/ CloseLedger
    <3>1. UNCHANGED <<rows, failures>>
      BY <2>3 DEF Tail, Gap, GetLatestLedger, ResumeFromCursor, FetchBatch, FetchRefused, BatchDone,
           FindGaps, FetchGap, GapRefused, FillDone, GapTick, CloseLedger, storeVars
    <3>2. BeingWritten
      BY <3>1, <1>2 DEF NothingFailed, backfillVars
    <3>3. \A p \in Procs : step[p] # "idle" => step'[p] = step[p] /\ led'[p] = led[p]
      <4>1. CASE UNCHANGED procVars
        BY <4>1 DEF procVars
      <4>2. CASE FetchBatch \/ FetchGap
        <5>1. step[Live] = "idle"
          BY <4>2 DEF FetchBatch, FetchGap, SharedInv, LivePosition
        <5>2. PICK first, last : Begin(Live, first, last)
          BY <4>2 DEF FetchBatch, FetchGap
        <5>. QED  BY <5>1, <5>2, <1>1 DEF Begin, ProcTypeOK
      <4>. QED
        BY <2>3, <4>1, <4>2 DEF Tail, Gap, GetLatestLedger, ResumeFromCursor, FetchRefused,
             BatchDone, FindGaps, GapRefused, FillDone, GapTick, CloseLedger
    <3>. QED  BY <3>1, <3>2, <3>3, FrameBeingWritten
  <2>. QED  BY <1>2, <2>1, <2>2, <2>3 DEF Next, LiveStep
<1>3. CASE BackfillOfClosedLedgers /\ UNCHANGED liveVars
  <2>1. failures = 0 /\ runs' <= 1
    BY <1>3 DEF NothingFailed, liveVars
  <2>2. CASE StartFirst \/ Resume
    <3>1. runs = 0 /\ UNCHANGED <<storeVars, procVars>>
      BY <2>1, <2>2, <1>1 DEF StartFirst, Resume, Start
    <3>2. \A w \in Workers : wstate[w] = "off"
      BY <3>1 DEF SharedInv, BInv, RunBounds
    <3>3. BeingWritten
      BY <3>1, <3>2, <2>1 DEF NothingFailed
    <3>. QED  BY <3>1, <3>3, FrameBeingWritten DEF storeVars, procVars
  <2>3. ASSUME NEW w \in Workers, WorkerFails(w) PROVE FALSE
    BY <2>3 DEF WorkerFails, NothingFailed, SharedInv, BInv, BackfillTypeOK
  <2>4. CASE Cancel \/ Finish
    BY <2>4, FrameBeingWritten, <2>1
       DEF Cancel, Finish, storeVars, procVars, rangeVars, NothingFailed
  <2>5. ASSUME NEW w \in Workers,
               Work(w) \/ FetchLedgers(w) \/ FetchEmpty(w) \/ BatchProcessed(w)
        PROVE  BeingWritten'
    <3>1. NothingFailed
      <4>1. runs' = runs /\ \A q \in Workers \ {w} : wstate'[q] = wstate[q]
        BY <2>5 DEF Work, FetchLedgers, FetchEmpty, BatchProcessed, backfillVars, rangeVars,
                    SharedInv, BInv, BackfillTypeOK
      <4>2. wstate[w] \in {"fetch", "batch"}
        BY <2>5 DEF Work, FetchLedgers, FetchEmpty, BatchProcessed
      <4>. QED  BY <4>1, <4>2, <2>1 DEF NothingFailed
    <3>2. CASE Work(w)
      <4>1. CallEffect(w) /\ Stored(w)'
        BY <3>2, <1>1, CallFacts
           DEF Work, SharedInv, BInv, BackfillTypeOK, WorkerBounds
      <4>. QED  BY <4>1, <3>1, <1>1, CallBeingWritten
    <3>3. CASE FetchLedgers(w)
      <4>1. step[w] = "idle" /\ UNCHANGED rows
        BY <3>3 DEF FetchLedgers, SharedInv, BInv, WorkerBounds, storeVars
      <4>2. PICK first, last : Begin(w, first, last)
        BY <3>3 DEF FetchLedgers
      <4>3. \A p \in Procs : step[p] # "idle" => step'[p] = step[p] /\ led'[p] = led[p]
        BY <4>1, <4>2, <1>1 DEF Begin, ProcTypeOK
      <4>. QED  BY <4>1, <4>3, <3>1, FrameBeingWritten
    <3>4. CASE FetchEmpty(w) \/ BatchProcessed(w)
      BY <3>4, <3>1, FrameBeingWritten DEF FetchEmpty, BatchProcessed, storeVars, procVars
    <3>. QED  BY <2>5, <3>2, <3>3, <3>4
  <2>. QED
    BY <1>3, <2>2, <2>3, <2>4, <2>5 DEF BackfillOfClosedLedgers, Backfill, RunWorker
<1>4. CASE UNCHANGED indexerVars
  BY <1>4, FrameBeingWritten
     DEF indexerVars, vars, storeVars, procVars, liveVars, backfillVars, NothingFailed
<1>. QED  BY <1>2, <1>3, <1>4 DEF IndexerNext

\* As long as neither program has failed, the gap scan's test - is there a row? -
\* misses only ledgers that some process is about to finish.
THEOREM SharedHalfWritten == IndexerSpec => []HalfWrittenHasWriter
<1>1. IndexerInit => BeingWritten
  <2>1. ASSUME IndexerInit PROVE \A l \in Ledgers : ~ HasRow(l)
    BY <2>1 DEF IndexerInit, Init, StoreInit, HasRow, Tables, KeyedTables
  <2>. QED  BY <2>1 DEF BeingWritten
<1>2. SharedInv /\ (NothingFailed => BeingWritten) /\ [IndexerNext]_indexerVars
      => (NothingFailed => BeingWritten)'
  BY HalfWrittenNext
<1>3. (NothingFailed => BeingWritten) => HalfWrittenHasWriter
  BY DEF BeingWritten, HalfWrittenHasWriter
<1>. QED  BY <1>1, <1>2, <1>3, SharedInvariance, PTL DEF IndexerSpec

-----------------------------------------------------------------------------
(* Outside the backfill's range the live pipeline stores each batch once.   *)

Outside == Ledgers \ wanted

\* Above the cursor there is only what the tail has written of its ledger, and
\* a tail round has nothing stored from the ledger it will fetch next on.
OutsideTail ==
  \A l \in Outside :
    HasRow(l) =>
      /\ l > ingested =>
           pc = "batch" /\ l = led[Live] /\ step[Live] \in WriteSteps \ {"ledgers"}
      /\ pc = "fetch" => l < next
      /\ pc = "batch" => l <= led[Live] /\ (step[Live] = "ledgers" => l # led[Live])

\* What the gap scan has still to fetch or to process has no row.
OutsideFill ==
  /\ pc \in {"scan", "gaps", "fill"} => target <= ingested
  /\ pc \in {"gaps", "fill"} =>
       \A l \in todo : l <= ingested /\ (l \in Outside => ~ HasRow(l))
  /\ pc = "fill" =>
       /\ upto[Live] <= ingested
       /\ \A l \in led[Live] .. upto[Live] : l \notin todo
       /\ \A l \in led[Live] + 1 .. upto[Live] : l \in Outside => ~ HasRow(l)
       /\ step[Live] = "ledgers" /\ led[Live] \in Outside => ~ HasRow(led[Live])

\* What is still to be written of the ledger at hand is not there yet.
OutsideUnwritten ==
  step[Live] \in WriteSteps /\ led[Live] \in Outside =>
    \A t \in Tables \ WrittenBefore(step[Live]) : rows[led[Live]][t] = 0

OutsideOnce == \A l \in Outside, t \in Tables : rows[l][t] <= 1

OutsideInv ==
  (failures = 0 /\ runs <= 1) => OutsideTail /\ OutsideFill /\ OutsideUnwritten /\ OutsideOnce

\* The two kinds of row: those of the range and those of the live pipeline.
LEMMA OutsideBackfill ==
  ASSUME SharedInv, OutsideTail, OutsideFill, OutsideUnwritten, OutsideOnce,
         Backfill, UNCHANGED liveVars, runs' <= 1
  PROVE  OutsideTail' /\ OutsideFill' /\ OutsideUnwritten' /\ OutsideOnce'
<1>1. /\ step'[Live] = step[Live] /\ led'[Live] = led[Live] /\ upto'[Live] = upto[Live]
      /\ \A l \in Ledgers : rows'[l] = rows[l] \/ (l \in startLedger .. endLedger /\ runs # 0)
      /\ ingested' >= ingested /\ runs' >= runs /\ runs \in Nat
      /\ \/ UNCHANGED <<runs, wanted, startLedger, endLedger>>
         \/ runs' = runs + 1 /\ UNCHANGED rows
      /\ UNCHANGED <<tip, pc, target, next, todo, failures>>
  BY BackfillEffect DEF liveVars
<1>2. /\ ingested \in 0 .. MaxLedger /\ ingested' \in 0 .. MaxLedger /\ target \in 0 .. MaxLedger
      /\ led[Live] \in Ledgers /\ upto[Live] \in Ledgers /\ todo \subseteq Ledgers
  BY SharedBackfill, LiveIsNoWorker
     DEF SharedInv, BInv, BackfillTypeOK, StoreTypeOK, ProcTypeOK, LiveTypeOK
<1>3. /\ Outside' \subseteq Outside
      /\ \A l \in Outside' : rows'[l] = rows[l]
  <2>1. CASE UNCHANGED <<runs, wanted, startLedger, endLedger>>
    <3>1. runs # 0 => wanted = startLedger .. endLedger
      BY <2>1, <1>1 DEF SharedInv, OneRunWanted
    <3>. QED  BY <2>1, <3>1, <1>1 DEF Outside
  <2>2. CASE runs' = runs + 1 /\ UNCHANGED rows
    <3>1. wanted = {}
      BY <2>2, <1>1 DEF SharedInv, OneRunWanted
    <3>. QED  BY <2>2, <3>1 DEF Outside
  <2>. QED  BY <1>1, <2>1, <2>2
<1>4. \A l \in Outside' : l \in Ledgers /\ HasRow(l)' = HasRow(l)
  BY <1>3 DEF Outside, HasRow
<1>5. OutsideTail'
  BY <1>1, <1>2, <1>3, <1>4, MaxLedgerAssumption DEF OutsideTail, Ledgers
<1>6. OutsideFill'
  <2>1. pc \in {"gaps", "fill"} => \A l \in todo : l <= ingested'
    BY <1>1, <1>2, MaxLedgerAssumption DEF OutsideFill, Ledgers
  <2>2. pc = "fill" => upto[Live] <= ingested'
    BY <1>1, <1>2, MaxLedgerAssumption DEF OutsideFill, Ledgers
  <2>3. pc \in {"scan", "gaps", "fill"} => target <= ingested'
    BY <1>1, <1>2, MaxLedgerAssumption DEF OutsideFill
  <2>. QED  BY <2>1, <2>2, <2>3, <1>1, <1>3, <1>4 DEF OutsideFill
<1>7. OutsideUnwritten' /\ OutsideOnce'
  BY <1>1, <1>3 DEF OutsideUnwritten, OutsideOnce
<1>. QED  BY <1>5, <1>6, <1>7

\* A call of the live pipeline stores a batch that is not there, or moves on.
LEMMA OutsideProcess ==
  ASSUME SharedInv, OutsideTail, OutsideFill, OutsideUnwritten, OutsideOnce,
         Process, UNCHANGED backfillVars
  PROVE  OutsideTail' /\ OutsideFill' /\ OutsideUnwritten' /\ OutsideOnce'
<1>. DEFINE d == led[Live]
<1>1. /\ StoreTypeOK' /\ ProcTypeOK' /\ CallEffect(Live) /\ RowFirst'
      /\ ingested' >= ingested /\ UNCHANGED <<tip, pc, target, next, todo, failures>>
      /\ pc \in {"batch", "fill"} /\ wanted' = wanted
  BY LiveCallFacts DEF liveVars, backfillVars
<1>2. /\ ingested \in 0 .. MaxLedger /\ ingested' \in 0 .. MaxLedger /\ target \in 0 .. MaxLedger
      /\ d \in Ledgers /\ upto[Live] \in Ledgers /\ todo \subseteq Ledgers
      /\ d <= upto[Live] /\ led'[Live] \in Ledgers
      /\ rows \in [Ledgers -> [Tables -> 0 .. 2]]
  BY <1>1, LiveIsNoWorker
     DEF SharedInv, BInv, BackfillTypeOK, StoreTypeOK, ProcTypeOK, LiveTypeOK, LivePosition
<1>3. /\ upto' = upto /\ Outside' = Outside /\ Outside \subseteq Ledgers
      /\ \A l \in Ledgers \ {d} : rows'[l] = rows[l] /\ HasRow(l)' = HasRow(l)
  BY <1>1 DEF CallEffect, Outside, HasRow
<1>4. CASE step[Live] \in Tables
  <2>1. /\ led'[Live] = d /\ step'[Live] \in WriteSteps \ {"ledgers"}
        /\ WrittenBefore(step'[Live]) = WrittenBefore(step[Live]) \cup {step[Live]}
        /\ \A t \in Tables : rows[d][t] = 0 => rows'[d][t] <= 1
        /\ \A t \in Tables \ {step[Live]} : rows'[d][t] = rows[d][t]
        /\ UNCHANGED ingested /\ step[Live] \in WriteSteps
    BY <1>1, <1>4 DEF CallEffect, WriteSteps, Tables, KeyedTables, SerialTables
  <2>2. step[Live] \notin WrittenBefore(step[Live])
    BY <1>4 DEF WrittenBefore, Tables, KeyedTables, SerialTables
  <2>3. OutsideTail'
    <3>1. pc = "fill" => d <= ingested
      BY <1>2, MaxLedgerAssumption DEF OutsideFill, Ledgers
    <3>2. d \in Int /\ \A l \in Outside : l \in Int
      BY <1>2, <1>3, MaxLedgerAssumption DEF Ledgers
    <3>3. ASSUME NEW l \in Outside, HasRow(l)', l # d
          PROVE  /\ l > ingested' => FALSE
                 /\ pc' = "fetch" => l < next'
                 /\ pc' = "batch" => l <= d
      <4>1. HasRow(l)
        BY <3>3, <1>3
      <4>. QED  BY <4>1, <3>3, <2>1, <1>1 DEF OutsideTail
    <3>4. d \in Outside /\ d > ingested => pc = "batch"
      BY <3>1, <1>1, <1>2, <3>2
    <3>. QED  BY <3>2, <3>3, <3>4, <2>1, <1>1, <1>3 DEF OutsideTail
  <2>4. OutsideFill'
    <3>1. \A l \in d + 1 .. upto[Live] : l # d /\ l \in Ledgers
      BY <1>2, MaxLedgerAssumption DEF Ledgers
    <3>2. pc = "fill" => d \notin todo
      BY <1>2 DEF OutsideFill, Ledgers
    <3>. QED  BY <2>1, <3>1, <3>2, <1>1, <1>2, <1>3 DEF OutsideFill
  <2>5. OutsideUnwritten'
    BY <2>1, <1>3 DEF OutsideUnwritten
  <2>6. OutsideOnce'
    <3>1. d \in Outside => rows'[d][step[Live]] <= 1
      BY <2>1, <2>2, <1>4 DEF OutsideUnwritten
    <3>. QED  BY <2>1, <3>1, <1>3 DEF OutsideOnce
  <2>. QED  BY <2>3, <2>4, <2>5, <2>6
<1>5. CASE step[Live] \notin Tables
  <2>1. /\ rows' = rows /\ step'[Live] \notin WriteSteps \ {"ledgers"}
        /\ \/ led'[Live] = d /\ step'[Live] \notin {"idle", "ledgers"}
           \/ step'[Live] = "ledgers" /\ led'[Live] = d + 1 /\ d < upto[Live]
           \/ step'[Live] = "idle" /\ led'[Live] = d
        /\ step[Live] = "cursor" => ingested' >= d
    BY <1>1, <1>2, <1>5, MaxLedgerAssumption DEF CallEffect, SetLastIngestedLedger, Ledgers
  <2>2. \A l \in Outside : HasRow(l)' = HasRow(l) /\ (HasRow(l) => l <= ingested')
    <3>1. ASSUME NEW l \in Outside, HasRow(l) PROVE l <= ingested'
      <4>1. CASE l <= ingested
        BY <4>1, <1>1, <1>2, <1>3, MaxLedgerAssumption DEF Ledgers
      <4>2. CASE l > ingested
        <5>1. l = d /\ step[Live] \in WriteSteps \ {"ledgers"}
          BY <3>1, <4>2 DEF OutsideTail
        <5>2. step[Live] = "cursor"
          BY <5>1, <1>5 DEF WriteSteps
        <5>. QED  BY <5>1, <5>2, <2>1, <1>2 DEF Ledgers
      <4>. QED  BY <4>1, <4>2, <1>2, <1>3 DEF Ledgers
    <3>. QED  BY <3>1, <2>1 DEF HasRow
  <2>3. OutsideTail'
    <3>1. ASSUME NEW l \in Outside, HasRow(l), pc = "batch"
          PROVE  l <= led'[Live] /\ (step'[Live] = "ledgers" => l # led'[Live])
      <4>1. l <= d /\ l \in Int /\ d \in Int
        BY <3>1, <1>2, <1>3 DEF OutsideTail, Ledgers
      <4>. QED  BY <4>1, <2>1
    <3>2. \A l \in Outside : HasRow(l) => ~ (l > ingested')
      BY <2>2, <1>2, <1>3, MaxLedgerAssumption DEF Ledgers
    <3>. QED  BY <3>1, <3>2, <2>2, <1>1, <1>3 DEF OutsideTail
  <2>4. OutsideFill'
    <3>1. pc = "fill" => upto[Live] <= ingested' /\ target <= ingested'
      BY <1>1, <1>2, MaxLedgerAssumption DEF OutsideFill, Ledgers
    <3>2. pc = "fill" => \A l \in todo : l <= ingested'
      BY <1>1, <1>2, MaxLedgerAssumption DEF OutsideFill, Ledgers
    <3>3. /\ led'[Live] .. upto[Live] \subseteq d .. upto[Live]
          /\ led'[Live] + 1 .. upto[Live] \subseteq d + 1 .. upto[Live]
          /\ step'[Live] = "ledgers" => led'[Live] \in d + 1 .. upto[Live]
      BY <2>1, <1>2 DEF Ledgers
    <3>4. pc = "fill" =>
            /\ \A l \in led'[Live] .. upto[Live] : l \notin todo
            /\ \A l \in led'[Live] + 1 .. upto[Live] : l \in Outside => ~ HasRow(l)
            /\ step'[Live] = "ledgers" /\ led'[Live] \in Outside => ~ HasRow(led'[Live])
      BY <3>3 DEF OutsideFill
    <3>. QED  BY <3>1, <3>2, <3>4, <2>1, <1>1, <1>3 DEF OutsideFill, HasRow
  <2>5. OutsideUnwritten'
    <3>1. CASE step'[Live] = "ledgers" /\ led'[Live] \in Outside
      <4>1. ~ (rows[led'[Live]]["ledgers"] > 0)
        <5>1. CASE pc = "batch"
          BY <5>1, <3>1, <2>1, <1>2, <1>3 DEF OutsideTail, HasRow, Ledgers
        <5>2. CASE pc = "fill"
          BY <5>2, <3>1, <2>1, <1>2, <1>3 DEF OutsideFill, HasRow, Ledgers
        <5>. QED  BY <5>1, <5>2, <1>1
      <4>2. \A t \in Tables : rows[led'[Live]][t] = 0
        BY <4>1, <3>1, <1>2, <1>3 DEF SharedInv, RowFirst, HasRow
      <4>. QED  BY <4>2, <2>1 DEF OutsideUnwritten
    <3>2. CASE step'[Live] # "ledgers" \/ led'[Live] \notin Outside
      BY <3>2, <2>1, <1>3 DEF OutsideUnwritten
    <3>. QED  BY <3>1, <3>2
  <2>6. OutsideOnce'
    BY <2>1, <1>3 DEF OutsideOnce
  <2>. QED  BY <2>3, <2>4, <2>5, <2>6
<1>. QED  BY <1>4, <1>5

\* Control moves of the live pipeline: rows, cursor and range stand still.
LEMMA OutsideControl ==
  ASSUME SharedInv, OutsideTail, OutsideFill, OutsideUnwritten, OutsideOnce,
         Tail \/ Gap \/ GapTick \/ CloseLedger, UNCHANGED backfillVars
  PROVE  OutsideTail' /\ OutsideFill' /\ OutsideUnwritten' /\ OutsideOnce'
<1>. USE DEF Goto, liveVars, procVars, storeVars
<1>1. /\ UNCHANGED <<rows, ingested>> /\ wanted' = wanted
  BY DEF backfillVars, Tail, Gap, GetLatestLedger, ResumeFromCursor, FetchBatch, FetchRefused,
         BatchDone, FindGaps, FetchGap, GapRefused, FillDone, GapTick, CloseLedger
<1>2. /\ ingested \in 0 .. MaxLedger /\ target \in 0 .. MaxLedger /\ todo \subseteq Ledgers
      /\ led[Live] \in Ledgers /\ upto[Live] \in Ledgers /\ Live \in Procs
      /\ Outside \subseteq Ledgers /\ "idle" \notin WriteSteps /\ "ledgers" \in WriteSteps
      /\ step \in [Procs -> Steps] /\ led \in [Procs -> Ledgers] /\ upto \in [Procs -> Ledgers]
  BY LiveIsNoWorker
     DEF SharedInv, BInv, BackfillTypeOK, StoreTypeOK, ProcTypeOK, LiveTypeOK, Outside,
         WriteSteps, Tables, KeyedTables, SerialTables
<1>3. /\ Outside' = Outside /\ \A l \in Ledgers : HasRow(l)' = HasRow(l)
      /\ OutsideOnce'
  BY <1>1 DEF Outside, HasRow, OutsideOnce
<1>4. CASE CloseLedger
  <2>1. UNCHANGED <<step, led, upto, pc, target, next, todo>>
    BY <1>4 DEF CloseLedger
  <2>2. OutsideTail' /\ OutsideUnwritten'
    BY <2>1, <1>1, <1>2, <1>3 DEF OutsideTail, OutsideUnwritten
  <2>3. OutsideFill'
    BY <2>1, <1>1, <1>2, <1>3 DEF OutsideFill
  <2>. QED  BY <2>2, <2>3, <1>3
<1>5. ~ CloseLedger => /\ step[Live] = "idle"
                       /\ \A l \in Outside : HasRow(l) => ~ (l > ingested)
  <2>1. ~ CloseLedger => step[Live] = "idle"
    BY DEF Tail, Gap, GetLatestLedger, ResumeFromCursor, FetchBatch, FetchRefused,
           BatchDone, FindGaps, FetchGap, GapRefused, FillDone, GapTick, SharedInv, LivePosition
  <2>. QED  BY <2>1, <1>2 DEF OutsideTail
<1>6. CASE \/ GetLatestLedger \/ FetchRefused \/ GapTick \/ GapRefused \/ FillDone
           \/ (ResumeFromCursor /\ pc' = "select") \/ (BatchDone /\ pc' = "select")
  <2>1. /\ step' = step /\ step[Live] = "idle" /\ UNCHANGED <<led, upto>>
        /\ pc' \in {"select", "poll", "resume", "scan", "gaps"}
        /\ pc' = "scan" => target' = ingested
        /\ pc' = "gaps" => pc = "fill" /\ UNCHANGED <<target, todo>>
        /\ \A l \in Outside : HasRow(l) => ~ (l > ingested)
    BY <1>5, <1>6 DEF GetLatestLedger, ResumeFromCursor, FetchRefused, BatchDone, GapRefused,
                      FillDone, GapTick, CloseLedger
  <2>2. OutsideTail' /\ OutsideUnwritten'
    BY <2>1, <1>1, <1>2, <1>3 DEF OutsideTail, OutsideUnwritten
  <2>3. OutsideFill'
    <3>1. CASE pc' = "scan"
      BY <3>1, <2>1, <1>1, <1>2 DEF OutsideFill
    <3>2. CASE pc' = "gaps"
      BY <3>2, <2>1, <1>1, <1>2, <1>3 DEF OutsideFill
    <3>3. CASE pc' \notin {"scan", "gaps"}
      BY <3>3, <2>1 DEF OutsideFill
    <3>. QED  BY <3>1, <3>2, <3>3
  <2>. QED  BY <2>2, <2>3, <1>3
<1>7. CASE (ResumeFromCursor \/ BatchDone) /\ pc' = "fetch"
  <2>1. /\ step' = step /\ step[Live] = "idle" /\ UNCHANGED <<led, upto>>
        /\ \A l \in Outside : HasRow(l) => ~ (l > ingested)
    BY <1>5, <1>7 DEF ResumeFromCursor, BatchDone, CloseLedger
  <2>2. \A l \in Outside : HasRow(l) => l < next'
    <3>1. CASE ResumeFromCursor
      <4>1. ingested # 0 => next' = ingested + 1
        BY <3>1, <1>7 DEF ResumeFromCursor, LastIngested
      <4>. QED  BY <4>1, <2>1, <1>2, MaxLedgerAssumption DEF Ledgers
    <3>2. CASE BatchDone
      <4>1. pc = "batch" /\ next' = upto[Live] + 1 /\ led[Live] = upto[Live]
        BY <3>2 DEF BatchDone, SharedInv, LivePosition
      <4>. QED  BY <4>1, <1>2, MaxLedgerAssumption DEF OutsideTail, Ledgers
    <3>. QED  BY <1>7, <3>1, <3>2
  <2>3. OutsideTail' /\ OutsideUnwritten'
    BY <2>1, <2>2, <1>1, <1>2, <1>3, <1>7 DEF OutsideTail, OutsideUnwritten
  <2>4. OutsideFill'
    BY <1>7 DEF OutsideFill
  <2>. QED  BY <2>3, <2>4, <1>3
<1>8. CASE FetchBatch
  <2>1. PICK count \in 1 .. Smaller(BatchSize, target - next + 1) :
          Begin(Live, next, next + count - 1)
    BY <1>8 DEF FetchBatch
  <2>2. /\ step'[Live] = "ledgers" /\ led'[Live] = next /\ pc = "fetch" /\ pc' = "batch"
    BY <1>8, <2>1, <1>2 DEF FetchBatch, Begin
  <2>3. /\ \A l \in Outside : HasRow(l) => l < next /\ ~ (l > ingested)
        /\ next \in Int
    BY <1>5, <1>8, <2>2 DEF OutsideTail, FetchBatch, CloseLedger, SharedInv, LiveTypeOK
  <2>4. OutsideTail'
    <3>1. \A l \in Outside : HasRow(l)' =>
            ~ (l > ingested') /\ l <= led'[Live] /\ l # led'[Live]
      <4>1. \A l \in Outside : l \in Int
        BY <1>2, <1>3, MaxLedgerAssumption DEF Ledgers
      <4>. QED  BY <4>1, <2>2, <2>3, <1>1, <1>2, <1>3
    <3>. QED  BY <3>1, <2>2, <1>1, <1>2, <1>3 DEF OutsideTail
  <2>5. OutsideUnwritten'
    <3>1. next \in Outside => \A t \in Tables : ~ (rows[next][t] > 0)
      BY <2>3, <1>2 DEF SharedInv, RowFirst
    <3>2. \A t \in Tables, l \in Ledgers : rows[l][t] \in 0 .. 2
      BY DEF SharedInv, BInv, BackfillTypeOK, StoreTypeOK
    <3>. QED  BY <2>2, <3>1, <3>2, <1>1, <1>2, <1>3 DEF OutsideUnwritten
  <2>6. OutsideFill'
    BY <2>2 DEF OutsideFill
  <2>. QED  BY <2>4, <2>5, <2>6, <1>3
<1>9. CASE FindGaps
  <2>1. /\ step' = step /\ step[Live] = "idle" /\ pc = "scan" /\ pc' \in {"poll", "gaps"}
        /\ target' = target /\ target <= ingested
        /\ \A l \in Outside : HasRow(l) => ~ (l > ingested)
    BY <1>5, <1>9 DEF FindGaps, CloseLedger, OutsideFill
  <2>2. \A l \in todo' : l \in GapScanStart .. target /\ ~ HasRow(l)
    BY <1>9 DEF FindGaps, FindMissingLedgerSequences
  <2>3. \A l \in todo' : l <= ingested /\ ~ HasRow(l) /\ l \in Ledgers
    <3>1. GapScanStart \in Nat \ {0}
      BY <1>2, GapWindowAssumption DEF GapScanStart
    <3>. QED  BY <2>1, <2>2, <3>1, <1>2, MaxLedgerAssumption DEF Ledgers
  <2>4. OutsideTail' /\ OutsideUnwritten'
    BY <2>1, <1>1, <1>2, <1>3 DEF OutsideTail, OutsideUnwritten
  <2>5. OutsideFill'
    BY <2>1, <2>3, <1>1, <1>3 DEF OutsideFill
  <2>. QED  BY <2>4, <2>5, <1>3
<1>10. CASE FetchGap
  <2>1. PICK first \in FirstRun, last \in FirstRun :
          /\ \A l \in FirstRun : first <= l
          /\ first <= last
          /\ Begin(Live, first, last)
    BY <1>10 DEF FetchGap
  <2>2. /\ pc = "gaps" /\ pc' = "fill" /\ todo' = todo \ FirstRun /\ UNCHANGED target
        /\ step'[Live] = "ledgers" /\ led'[Live] = first /\ upto'[Live] = last
        /\ \A l \in Outside : HasRow(l) => ~ (l > ingested)
    <3>1. first \in Ledgers /\ last \in Ledgers
      BY <2>1, <1>2 DEF FirstRun
    <3>. QED  BY <1>5, <1>10, <2>1, <3>1, <1>2 DEF FetchGap, Begin, CloseLedger
  <2>3. first .. last \subseteq FirstRun /\ FirstRun \subseteq todo
    BY <2>1, <1>2, FirstRunContiguous
  <2>4. first \in todo /\ last \in todo /\ first \in Ledgers /\ last \in Ledgers
    BY <2>3, <1>2
  <2>5. \A l \in first .. last : l \in todo /\ l \notin todo' /\ (l \in Outside => ~ HasRow(l))
    BY <2>2, <2>3 DEF OutsideFill
  <2>6. OutsideTail'
    BY <2>2, <1>1, <1>2, <1>3 DEF OutsideTail
  <2>7. OutsideFill'
    <3>1. first + 1 .. last \subseteq first .. last /\ first \in first .. last
      BY <2>1, <2>4 DEF Ledgers
    <3>2. \A l \in todo' : l \in todo /\ l \in Ledgers
      BY <2>2, <1>2
    <3>. QED  BY <2>2, <2>4, <2>5, <3>1, <3>2, <1>1, <1>3 DEF OutsideFill, HasRow
  <2>8. OutsideUnwritten'
    <3>1. first \in Outside => \A t \in Tables : ~ (rows[first][t] > 0)
      BY <2>2, <2>4 DEF OutsideFill, SharedInv, RowFirst
    <3>2. \A t \in Tables, l \in Ledgers : rows[l][t] \in 0 .. 2
      BY DEF SharedInv, BInv, BackfillTypeOK, StoreTypeOK
    <3>. QED  BY <2>2, <2>4, <3>1, <3>2, <1>1, <1>3 DEF OutsideUnwritten
  <2>. QED  BY <2>6, <2>7, <2>8, <1>3
<1>11. (ResumeFromCursor \/ BatchDone) => pc' \in {"select", "fetch"}
  BY DEF ResumeFromCursor, BatchDone
<1>. QED
  BY <1>4, <1>6, <1>7, <1>8, <1>9, <1>10, <1>11 DEF Tail, Gap

\* Every step preserves it.
LEMMA OutsideNext ==
  ASSUME SharedInv, OutsideInv, [IndexerNext]_indexerVars
  PROVE  OutsideInv'
<1>. SUFFICES ASSUME failures' = 0, runs' <= 1
              PROVE  OutsideTail' /\ OutsideFill' /\ OutsideUnwritten' /\ OutsideOnce'
  BY DEF OutsideInv
<1>1. failures \in Nat
  BY MaxFailuresAssumption DEF SharedInv, LiveTypeOK
<1>2. CASE Next /\ UNCHANGED backfillVars
  <2>1. CASE Interrupt \/ GapFailure
    BY <2>1, <1>1 DEF Interrupt, GapFailure
  <2>2. CASE Process \/ Tail \/ Gap \/ GapTick \/ CloseLedger
    <3>1. failures' = failures /\ runs' = runs
      BY <1>2, <2>2 DEF Process, Tail, Gap, GetLatestLedger, ResumeFromCursor, FetchBatch,
           FetchRefused, BatchDone, FindGaps, FetchGap, GapRefused, FillDone, GapTick,
           CloseLedger, liveVars, backfillVars
    <3>2. OutsideTail /\ OutsideFill /\ OutsideUnwritten /\ OutsideOnce
      BY <3>1 DEF OutsideInv
    <3>. QED  BY <1>2, <2>2, <3>2, OutsideProcess, OutsideControl
  <2>. QED  BY <1>2, <2>1, <2>2 DEF Next, LiveStep
<1>3. CASE BackfillOfClosedLedgers /\ UNCHANGED liveVars
  <2>1. failures' = failures /\ runs <= 1 /\ Backfill
    BY <1>3, BackfillEffect DEF BackfillOfClosedLedgers, liveVars
  <2>. QED  BY <2>1, <1>3, OutsideBackfill DEF OutsideInv
<1>4. CASE UNCHANGED indexerVars
  <2>1. UNCHANGED <<rows, ingested, step, led, upto, pc, target, next, todo, failures, runs, wanted>>
    BY <1>4 DEF indexerVars, vars, storeVars, procVars, liveVars, backfillVars
  <2>2. OutsideTail /\ OutsideFill /\ OutsideUnwritten /\ OutsideOnce
    BY <2>1 DEF OutsideInv
  <2>. QED
    BY <2>1, <2>2 DEF OutsideTail, OutsideFill, OutsideUnwritten, OutsideOnce, Outside, HasRow
<1>. QED  BY <1>2, <1>3, <1>4 DEF IndexerNext

\* Where tail, gap scan and backfill meet, only the ledgers the backfill was
\* asked for can have a batch twice.
THEOREM SharedDuplicates == IndexerSpec => []DuplicatesOnlyInBackfill
<1>1. IndexerInit => OutsideInv
  <2>1. ASSUME IndexerInit
        PROVE  /\ \A l \in Ledgers, t \in Tables : rows[l][t] = 0
               /\ step[Live] = "idle" /\ pc = "select" /\ "ledgers" \in Tables
               /\ "idle" \notin WriteSteps /\ "ledgers" \in WriteSteps
    BY <2>1, LiveIsNoWorker
       DEF IndexerInit, Init, StoreInit, ProcInit, LiveInit, WriteSteps, Tables, KeyedTables,
           SerialTables
  <2>. QED
    BY <2>1 DEF OutsideInv, OutsideTail, OutsideFill, OutsideUnwritten, OutsideOnce, Outside,
                HasRow
<1>2. SharedInv /\ OutsideInv /\ [IndexerNext]_indexerVars => OutsideInv'
  BY OutsideNext
<1>3. OutsideInv => DuplicatesOnlyInBackfill
  BY DEF OutsideInv, OutsideOnce, Outside, DuplicatesOnlyInBackfill
<1>. QED  BY <1>1, <1>2, <1>3, SharedInvariance, PTL DEF IndexerSpec

-----------------------------------------------------------------------------
(* The read API.  What an answer may be relied on for, although ledgers are *)
(* written between its queries.  The live pipeline's IInv says what a query *)
(* finds, and that its steps take nothing of it away; ReadInv says what a   *)
(* handler half way through its queries already has.                        *)

Results == [cursor : 0 .. MaxLedger, latest : 0 .. MaxLedger, tip : 0 .. MaxLedger,
            row : SUBSET Ledgers, txs : SUBSET Ledgers, ops : SUBSET Ledgers,
            events : SUBSET Ledgers, spec : BOOLEAN]

ApiTypeOK ==
  /\ request \in [op : Operations \cup {"none"}, ledger : 0 .. MaxLedger,
                  promised : SUBSET Ledgers, at : 1 .. 5, got : Results]
  /\ request.op # "none" => /\ request.ledger \in Ledgers
                            /\ request.at \in DOMAIN Queries(request.op)
  /\ answer \in [status : Nat, op : Operations \cup {"none"}, ledger : 0 .. MaxLedger,
                 promised : SUBSET Ledgers, got : Results]
  /\ known \in 0 .. MaxLedger
  /\ described \in BOOLEAN

\* No cursor a client has seen, or is about to see, is ahead of the table's.
CursorsBehind ==
  /\ known <= ingested
  /\ request.got.cursor <= ingested
  /\ answer.got.cursor <= ingested

\* What the client was promised when it asked is whole in the tables.
PromiseKept == \A l \in request.promised : Complete(l)

\* What the queries before the at-th one have found, of a request about ledger
\* l and the promised ledgers P.
Found(op, l, P, at, got) ==
  /\ op = "summary" =>
       /\ at >= 3 => got.latest >= got.cursor
       /\ (at >= 4 /\ got.cursor > 0) =>
            /\ Covers(got.txs, origin .. got.cursor)
            /\ got.txs \cap (origin .. got.cursor) \subseteq got.ops
  /\ (op \in {"ledger", "transaction"} /\ l \in P) =>
       /\ at >= 2 => l \in got.row
       /\ at >= 3 => l \in got.ops
  /\ op = "contract" =>
       /\ at >= 2 => described /\ got.row # {}
       /\ at >= 3 => Covers(got.txs, P) /\ P \cap got.txs \subseteq got.ops
       /\ at >= 4 => Covers(got.events, P)
       /\ at >= 5 => got.spec

ReadSoFar == Found(request.op, request.ledger, request.promised, request.at, request.got)

ReadInv ==
  /\ ApiTypeOK
  /\ CursorsBehind
  /\ PromiseKept
  /\ ReadSoFar
  /\ SummaryCoversCursor
  /\ PromisedIsWhole

-----------------------------------------------------------------------------
(* Lists that show the newest rows of a table.                              *)

\* A finite set of numbers has a highest one: the elements above it are a
\* minimal one among the sets of elements above an element.
LEMMA HighestOfSet ==
  ASSUME NEW S, S \subseteq Int, IsFiniteSet(S), S # {}
  PROVE  \E x \in S : \A y \in S : x >= y
<1>. DEFINE Above(x) == {y \in S : y > x}
            Tails == {Above(x) : x \in S}
<1>1. Tails # {} /\ Tails \subseteq FiniteSubsetsOf(S)
  <2>1. \A x \in S : Above(x) \subseteq S /\ IsFiniteSet(Above(x))
    BY FS_Subset
  <2>. QED  BY <2>1 DEF FiniteSubsetsOf
<1>2. PICK T \in Tails : \A U \in Tails : ~ (<<U, T>> \in StrictSubsetOrdering(S))
  <2>. HIDE DEF Tails
  <2>. QED  BY <1>1, FS_StrictSubsetOrderingWellFounded, WFMin
<1>3. PICK x \in S : T = Above(x)
  BY <1>2
<1>4. ASSUME NEW y \in S, y > x PROVE FALSE
  <2>1. x \in Int /\ y \in Int /\ \A z \in S : z \in Int
    OBVIOUS
  <2>2. ASSUME NEW z \in Above(y) PROVE z \in Above(x)
    <3>1. z \in S /\ z > y /\ z \in Int
      BY <2>1
    <3>. QED  BY <3>1, <2>1, <1>4
  <2>3. y \in Above(x) /\ y \notin Above(y)
    BY <1>4, <2>1
  <2>4. <<Above(y), Above(x)>> \in StrictSubsetOrdering(S)
    BY <2>2, <2>3 DEF StrictSubsetOrdering
  <2>. QED  BY <2>4, <1>2, <1>3
<1>. QED  BY <1>4

\* The n newest of S: one that is not among them has n newer ones that are.
\* Were it not so, the highest of those above it that are left out would have
\* fewer than n above it.
LEMMA TopCovers ==
  ASSUME NEW S, S \subseteq Int, IsFiniteSet(S), NEW n \in Nat, NEW l \in S
  PROVE  l \in Top(S, n) \/ Cardinality({m \in Top(S, n) : m > l}) >= n
<1>. DEFINE Above(k) == {m \in S : m > k}
            Shown == {m \in Top(S, n) : m > l}
<1>1. \A k \in S : IsFiniteSet(Above(k)) /\ Cardinality(Above(k)) \in Nat
  BY FS_Subset, FS_CardinalityType
<1>2. Shown \subseteq Above(l) /\ IsFiniteSet(Shown) /\ Cardinality(Shown) \in Nat
  <2>1. Shown \subseteq Above(l) /\ Shown \subseteq S
    BY DEF Top
  <2>. QED  BY <2>1, FS_Subset, FS_CardinalityType
<1>3. SUFFICES ASSUME Cardinality(Above(l)) >= n, Cardinality(Shown) < n
               PROVE  FALSE
  <2>1. ASSUME Cardinality(Above(l)) < n PROVE l \in Top(S, n)
    BY <2>1 DEF Top
  <2>2. ASSUME ~ Cardinality(Above(l)) < n, ~ Cardinality(Shown) < n
        PROVE  Cardinality(Shown) >= n
    BY <2>2, <1>2
  <2>. HIDE DEF Above, Shown
  <2>3. Cardinality(Above(l)) < n \/ Cardinality(Above(l)) >= n
    BY <1>1
  <2>4. l \in Top(S, n) \/ Cardinality(Shown) >= n
    BY <2>1, <2>2, <2>3, <1>1, <1>2, <1>3
  <2>. QED  BY <2>4 DEF Shown
<1>4. PICK x \in Above(l) \ Shown : \A y \in Above(l) \ Shown : x >= y
  <2>1. Above(l) \ Shown # {}
    <3>. HIDE DEF Above, Shown
    <3>. QED  BY <1>1, <1>2, <1>3
  <2>2. Above(l) \ Shown \subseteq Int /\ IsFiniteSet(Above(l) \ Shown)
    BY FS_Subset
  <2>. HIDE DEF Above, Shown
  <2>. QED  BY <2>1, <2>2, HighestOfSet
<1>5. Above(x) \subseteq Shown
  <2>1. ASSUME NEW y \in Above(x), y \notin Shown PROVE FALSE
    <3>1. y \in Int /\ x \in Int /\ l \in Int /\ y > x /\ x > l /\ y \in S
      BY <1>4
    <3>2. y \in Above(l) \ Shown
      BY <3>1, <2>1
    <3>3. x >= y
      BY <3>2, <1>4
    <3>. QED  BY <3>1, <3>3
  <2>. QED  BY <2>1
<1>6. Cardinality(Above(x)) < n
  <2>1. Cardinality(Above(x)) <= Cardinality(Shown)
    BY <1>2, <1>5, FS_Subset
  <2>2. x \in S
    BY <1>4
  <2>. HIDE DEF Above, Shown
  <2>. QED  BY <2>1, <2>2, <1>1, <1>2, <1>3
<1>. QED
  BY <1>4, <1>6 DEF Top

\* A list of the newest rows covers every ledger that has such a row.
LEMMA ListCovers ==
  ASSUME NEW S \in SUBSET Ledgers, NEW P \in SUBSET S
  PROVE  Top(S, RecentLimit) \subseteq S /\ Covers(Top(S, RecentLimit), P)
<1>1. S \subseteq Int /\ IsFiniteSet(S) /\ RecentLimit \in Nat
  <2>1. IsFiniteSet(Ledgers) /\ Ledgers \subseteq Int
    BY MaxLedgerAssumption, FS_Interval DEF Ledgers
  <2>2. IsFiniteSet(S)
    BY <2>1, FS_Subset
  <2>. QED  BY <2>1, <2>2, RecentLimitAssumption
<1>2. \A l \in P : \/ l \in Top(S, RecentLimit)
                   \/ Cardinality({m \in Top(S, RecentLimit) : m > l}) >= RecentLimit
  BY <1>1, TopCovers
<1>. QED  BY <1>2 DEF Covers, Top

-----------------------------------------------------------------------------
(* What a query finds, in any state of the live pipeline.                   *)

\* The rows of a whole ledger are found by every query.
LEMMA WholeIsFound ==
  ASSUME NEW l \in Ledgers, Complete(l)
  PROVE  \A t \in Tables : l \in Having(t)
BY DEF Complete, Having

\* The latest ledger with a row is not below the cursor.
LEMMA LatestFacts ==
  ASSUME IInv
  PROVE  GetLatestLedgerSummary \in 0 .. MaxLedger /\ GetLatestLedgerSummary >= ingested
<1>. DEFINE S == {0} \cup Having("ledgers")
<1>1. S \subseteq 0 .. MaxLedger /\ S \subseteq Int /\ IsFiniteSet(S) /\ S # {}
  <2>1. S \subseteq 0 .. MaxLedger
    BY MaxLedgerAssumption DEF Having, Ledgers
  <2>2. IsFiniteSet(0 .. MaxLedger) /\ S \in SUBSET (0 .. MaxLedger)
    BY <2>1, MaxLedgerAssumption, FS_Interval
  <2>3. IsFiniteSet(S)
    <3>. HIDE DEF S
    <3>. QED  BY <2>2, FS_Subset
  <2>. QED  BY <2>1, <2>3, MaxLedgerAssumption
<1>2. Max(S) \in S /\ \A y \in S : Max(S) >= y
  <2>. HIDE DEF S
  <2>1. \E x \in S : \A y \in S : x >= y
    BY <1>1, HighestOfSet
  <2>. QED  BY <2>1 DEF Max
<1>3. ingested \in S
  <2>1. ingested \in Ledgers => Complete(ingested)
    BY MaxLedgerAssumption
       DEF IInv, TypeOK, StoreTypeOK, TailContiguous, Ledgers
  <2>2. ingested = 0 \/ ingested \in Ledgers
    BY MaxLedgerAssumption DEF IInv, TypeOK, StoreTypeOK, Ledgers
  <2>. QED  BY <2>1, <2>2, WholeIsFound DEF Tables, KeyedTables
<1>. QED  BY <1>1, <1>2, <1>3 DEF GetLatestLedgerSummary

\* What a client may expect when it asks is whole.
LEMMA PromisedFacts ==
  ASSUME IInv, known \in 0 .. MaxLedger, known <= ingested
  PROVE  Promised \subseteq Ledgers /\ \A l \in Promised : Complete(l)
<1>1. \A l \in Announced : Complete(l)
  BY DEF Announced, IInv, PublishedComplete
<1>2. ASSUME NEW l \in Ledgers, origin > 0, l \in origin .. known PROVE Complete(l)
  <2>1. ingested # 0 /\ l \in origin .. ingested
    BY <1>2, MaxLedgerAssumption DEF IInv, TypeOK, StoreTypeOK, Ledgers
  <2>. QED  BY <2>1 DEF IInv, TailContiguous
<1>. QED  BY <1>1, <1>2 DEF Promised, Announced

\* The indexer's steps, seen in the abstract log: the cursor never goes back,
\* where it started stays known, and a whole ledger stays whole.
LEMMA LiveGrows ==
  ASSUME IInv, [Next]_vars
  PROVE  /\ ingested' >= ingested
         /\ ingested > 0 => origin' = origin
         /\ \A l \in Ledgers : Complete(l) => Complete(l)'
<1>1. [Log!LogNext]_(Log!logVars)
  BY StepToLog
<1>2. ingested \in Nat
  BY MaxLedgerAssumption DEF IInv, TypeOK, StoreTypeOK
<1>3. {l \in Ledgers : Complete(l)} \subseteq {l \in Ledgers : Complete(l)}'
  BY <1>1 DEF Log!LogNext, Log!Store, Log!MoveHead, Log!Announce, Log!logVars
<1>4. ingested' >= ingested /\ (ingested > 0 => origin' = origin)
  BY <1>1, <1>2, MaxLedgerAssumption
     DEF Log!LogNext, Log!Store, Log!MoveHead, Log!Announce, Log!logVars, Ledgers
<1>. QED  BY <1>3, <1>4

-----------------------------------------------------------------------------
(* The steps of the indexer, and the answers.                               *)

\* A step of the indexer takes nothing away that an answer relied on, nor does
\* the contract's row when it comes.
LEMMA LiveReadInv ==
  ASSUME IInv, ReadInv, [Next]_vars, UNCHANGED <<request, answer, known>>,
         described' \in BOOLEAN, described => described'
  PROVE  ReadInv'
<1>2. /\ ingested' >= ingested
      /\ ingested > 0 => origin' = origin
      /\ \A l \in Ledgers : Complete(l) => Complete(l)'
  BY LiveGrows
<1>3. ingested \in Nat /\ ingested' \in Nat
  BY NextInv, MaxLedgerAssumption DEF IInv, TypeOK, StoreTypeOK
<1>4. /\ known \in Nat /\ request.promised \subseteq Ledgers
      /\ request.got.cursor \in Nat /\ answer.got.cursor \in Nat
  BY MaxLedgerAssumption DEF ReadInv, ApiTypeOK, Results
<1>5. ApiTypeOK' /\ PromisedIsWhole'
  BY DEF ReadInv, ApiTypeOK, PromisedIsWhole, Covers, Answered
<1>6. CursorsBehind'
  BY <1>2, <1>3, <1>4 DEF ReadInv, CursorsBehind
<1>7. PromiseKept'
  BY <1>2, <1>4 DEF ReadInv, PromiseKept
<1>8. ReadSoFar'
  <2>1. request.op = "summary" => request.at \in 1 .. 3
    BY DEF ReadInv, ApiTypeOK, Queries
  <2>. QED  BY <2>1 DEF ReadInv, ReadSoFar, Found, Covers
<1>9. SummaryCoversCursor'
  <2>1. CASE answer.got.cursor > 0
    <3>1. origin' = origin
      BY <2>1, <1>2, <1>3, <1>4 DEF ReadInv, CursorsBehind
    <3>. QED  BY <3>1 DEF ReadInv, SummaryCoversCursor, Covers, Answered
  <2>2. CASE ~ answer.got.cursor > 0
    BY <2>2 DEF ReadInv, SummaryCoversCursor, Answered
  <2>. QED  BY <2>1, <2>2
<1>. QED  BY <1>5, <1>6, <1>7, <1>8, <1>9 DEF ReadInv

\* A request begins: what it is promised is whole.
LEMMA ReceiveInv ==
  ASSUME IInv, ReadInv, Receive
  PROVE  ReadInv'
<1>1. PICK op \in Operations, l \in Ledgers :
        request' = [op |-> op, ledger |-> l, promised |-> Promised,
                    at |-> 1, got |-> Nothing]
  BY DEF Receive
<1>2. answer' = NoAnswer /\ UNCHANGED <<rows, ingested, origin, known, described>>
  BY DEF Receive, vars, storeVars
<1>3. Promised \subseteq Ledgers /\ \A k \in Promised : Complete(k)
  BY PromisedFacts DEF ReadInv, ApiTypeOK, CursorsBehind
<1>4. /\ Nothing \in Results /\ Nothing.cursor = 0
      /\ l \in 0 .. MaxLedger /\ ingested \in Nat
  BY MaxLedgerAssumption DEF Nothing, Results, Ledgers, IInv, TypeOK, StoreTypeOK
<1>5. /\ request'.op = op /\ request'.promised = Promised /\ request'.at = 1
      /\ request'.got = Nothing
  BY <1>1
<1>6. ApiTypeOK'
  <2>1. request' \in [op : Operations \cup {"none"}, ledger : 0 .. MaxLedger,
                      promised : SUBSET Ledgers, at : 1 .. 5, got : Results]
    BY <1>1, <1>3, <1>4
  <2>2. 1 \in DOMAIN Queries(op)
    BY DEF Queries, Operations
  <2>3. answer' \in [status : Nat, op : Operations \cup {"none"}, ledger : 0 .. MaxLedger,
                     promised : SUBSET Ledgers, got : Results]
    BY <1>2, <1>4, MaxLedgerAssumption DEF NoAnswer
  <2>4. (request.op # "none" => /\ request.ledger \in Ledgers
                                /\ request.at \in DOMAIN Queries(request.op))'
    <3>1. request'.ledger = l
      BY <1>1
    <3>. QED  BY <3>1, <2>2, <1>5
  <2>. QED  BY <2>1, <2>3, <2>4, <1>2 DEF ReadInv, ApiTypeOK
<1>7. CursorsBehind' /\ PromiseKept' /\ ReadSoFar'
  <2>1. CursorsBehind'
    BY <1>2, <1>4, <1>5 DEF ReadInv, CursorsBehind, NoAnswer
  <2>2. PromiseKept'
    BY <1>2, <1>3, <1>5 DEF PromiseKept, Complete
  <2>. QED  BY <2>1, <2>2, <1>5 DEF ReadSoFar, Found
<1>8. SummaryCoversCursor' /\ PromisedIsWhole'
  BY <1>2 DEF SummaryCoversCursor, PromisedIsWhole, Answered, NoAnswer
<1>. QED  BY <1>6, <1>7, <1>8 DEF ReadInv

\* An answer is given: it is as good as what the queries have found, all of
\* them made.
LEMMA ReplyInv ==
  ASSUME IInv, ReadInv, request.op # "none", NEW status \in Nat, NEW got \in Results,
         Reply(status, got), got.cursor <= ingested, NEW at \in Nat \ {0},
         status = 200 => /\ at \notin DOMAIN Queries(request.op)
                         /\ Found(request.op, request.ledger, request.promised, at, got),
         (request.op \in {"ledger", "transaction"} /\ request.ledger \in request.promised) =>
           status # 404
  PROVE  ReadInv'
<1>1. /\ answer' = [status |-> status, op |-> request.op, ledger |-> request.ledger,
                    promised |-> request.promised, got |-> got]
      /\ known' = IF status = 200 /\ got.cursor > known THEN got.cursor ELSE known
      /\ request' = NoRequest
      /\ UNCHANGED <<rows, ingested, origin, described>>
  BY DEF Reply, vars, storeVars
<1>2. /\ answer'.status = status /\ answer'.op = request.op /\ answer'.ledger = request.ledger
      /\ answer'.promised = request.promised /\ answer'.got = got
      /\ request'.op = "none" /\ request'.promised = {} /\ request'.at = 1
      /\ request'.got.cursor = 0
  BY <1>1 DEF NoRequest, Nothing
<1>3. ApiTypeOK'
  <2>1. request' \in [op : Operations \cup {"none"}, ledger : 0 .. MaxLedger,
                      promised : SUBSET Ledgers, at : 1 .. 5, got : Results]
    BY <1>1, MaxLedgerAssumption DEF NoRequest, Nothing, Results
  <2>2. answer' \in [status : Nat, op : Operations \cup {"none"}, ledger : 0 .. MaxLedger,
                     promised : SUBSET Ledgers, got : Results]
    BY <1>1 DEF ReadInv, ApiTypeOK
  <2>3. known' \in 0 .. MaxLedger /\ described' \in BOOLEAN
    BY <1>1 DEF ReadInv, ApiTypeOK, Results
  <2>. QED  BY <2>1, <2>2, <2>3, <1>2 DEF ApiTypeOK, Results
<1>4. CursorsBehind' /\ PromiseKept' /\ ReadSoFar'
  <2>1. known' <= ingested' /\ 0 <= ingested'
    BY <1>1, MaxLedgerAssumption DEF ReadInv, CursorsBehind, IInv, TypeOK, StoreTypeOK
  <2>. QED  BY <2>1, <1>1, <1>2 DEF CursorsBehind, PromiseKept, ReadSoFar, Found
<1>5. status = 200 => /\ request.op = "summary" => at >= 4
                      /\ request.op \in {"ledger", "transaction"} => at >= 3
                      /\ request.op = "contract" => at >= 6
  BY DEF Queries
<1>6. SummaryCoversCursor'
  BY <1>1, <1>2, <1>5 DEF SummaryCoversCursor, Answered, Covers, Found
<1>7. PromisedIsWhole'
  BY <1>2, <1>5 DEF PromisedIsWhole, Answered, Covers, Found
<1>. QED  BY <1>3, <1>4, <1>6, <1>7 DEF ReadInv

\* One query of several is answered.
LEMMA GoOnInv ==
  ASSUME IInv, ReadInv, NEW got \in Results, got.cursor <= ingested,
         request.op # "none", request.at + 1 \in DOMAIN Queries(request.op),
         request' = [request EXCEPT !.at = @ + 1, !.got = got],
         UNCHANGED <<vars, answer, known, described>>,
         Found(request.op, request.ledger, request.promised, request.at + 1, got)
  PROVE  ReadInv'
<1>1. UNCHANGED <<rows, ingested, origin, answer, known, described>>
  BY DEF vars, storeVars
<1>2. /\ request'.op = request.op /\ request'.ledger = request.ledger
      /\ request'.promised = request.promised /\ request'.got = got
      /\ request'.at = request.at + 1
  BY DEF ReadInv, ApiTypeOK
<1>3. ApiTypeOK'
  <2>1. request' \in [op : Operations \cup {"none"}, ledger : 0 .. MaxLedger,
                      promised : SUBSET Ledgers, at : 1 .. 5, got : Results]
    <3>1. request.at + 1 \in 1 .. 5
      BY DEF ReadInv, ApiTypeOK, Operations, Queries
    <3>. QED  BY <3>1 DEF ReadInv, ApiTypeOK
  <2>. QED  BY <2>1, <1>1, <1>2 DEF ReadInv, ApiTypeOK, Results, Queries
<1>4. CursorsBehind' /\ PromiseKept' /\ ReadSoFar'
  <2>1. CursorsBehind' /\ PromiseKept'
    BY <1>1, <1>2 DEF ReadInv, CursorsBehind, PromiseKept, Complete
  <2>. QED  BY <2>1, <1>1, <1>2 DEF ReadSoFar, Found, Covers
<1>5. SummaryCoversCursor' /\ PromisedIsWhole'
  BY <1>1 DEF ReadInv, SummaryCoversCursor, PromisedIsWhole, Answered, Covers
<1>. QED  BY <1>3, <1>4, <1>5 DEF ReadInv

-----------------------------------------------------------------------------
(* The handlers.                                                            *)

\* The answer to one query is added, or the page is not there.
LEMMA QueryInv ==
  ASSUME IInv, ReadInv, Query,
         NEW query, query = Queries(request.op)[request.at],
         NEW got \in Results, got = Read(query, request.ledger, request.got),
         got.cursor <= ingested,
         (query \in MayLack /\ got.row = {}) =>
           request.op = "contract" \/ request.ledger \notin request.promised,
         (query \notin MayLack \/ got.row # {}) =>
           Found(request.op, request.ledger, request.promised, request.at + 1, got)
  PROVE  ReadInv'
<1>1. request.op # "none" /\ request.at \in 1 .. 5 /\ request.at + 1 \in Nat \ {0}
  BY DEF Query, ReadInv, ApiTypeOK
<1>. DEFINE Lacks == query \in MayLack /\ got.row = {}
<1>2. CASE Lacks
  <2>1. Reply(404, Nothing)
    BY <1>2 DEF Query
  <2>2. Nothing \in Results /\ Nothing.cursor <= ingested
    BY MaxLedgerAssumption DEF Nothing, Results, IInv, TypeOK, StoreTypeOK
  <2>. QED  BY <2>1, <2>2, <1>1, <1>2, ReplyInv
<1>3. CASE ~ Lacks
  <2>0. Found(request.op, request.ledger, request.promised, request.at + 1, got)
    BY <1>3
  <2>1. CASE request.at + 1 \notin DOMAIN Queries(request.op)
    <3>1. Reply(200, got)
      BY <1>3, <2>1 DEF Query
    <3>2. 200 \in Nat /\ 200 # 404
      OBVIOUS
    <3>. HIDE DEF Lacks
    <3>. QED  BY <3>1, <3>2, <2>0, <2>1, <1>1, ReplyInv
  <2>2. CASE request.at + 1 \in DOMAIN Queries(request.op)
    <3>1. /\ request' = [request EXCEPT !.at = @ + 1, !.got = got]
          /\ UNCHANGED <<vars, answer, known, described>>
      BY <1>3, <2>2 DEF Query
    <3>. QED  BY <3>1, <2>0, <2>2, <1>1, GoOnInv
  <2>. QED  BY <2>1, <2>2
<1>. QED  BY <1>2, <1>3

\* What a handler half way through its queries has.
LEMMA RequestFacts ==
  ASSUME IInv, ReadInv, Query
  PROVE  /\ request.op \in Operations /\ request.at \in DOMAIN Queries(request.op)
         /\ request.got \in Results /\ request.got.cursor <= ingested
         /\ request.got.cursor \in 0 .. MaxLedger
         /\ ingested \in 0 .. MaxLedger /\ tip \in 0 .. MaxLedger
         /\ described \in BOOLEAN /\ request.ledger \in Ledgers
         /\ request.promised \subseteq Ledgers
         /\ \A k \in request.promised, t \in Tables : k \in Having(t)
         /\ Found(request.op, request.ledger, request.promised, request.at, request.got)
<1>1. /\ request.op \in Operations /\ request.at \in DOMAIN Queries(request.op)
      /\ request.got \in Results /\ request.got.cursor <= ingested
      /\ request.got.cursor \in 0 .. MaxLedger /\ request.promised \subseteq Ledgers
      /\ described \in BOOLEAN /\ request.ledger \in Ledgers
  BY DEF Query, ReadInv, ApiTypeOK, CursorsBehind, Results
<1>2. ingested \in 0 .. MaxLedger /\ tip \in 0 .. MaxLedger
  BY MaxLedgerAssumption DEF IInv, TypeOK, StoreTypeOK, LiveTypeOK, Ledgers
<1>3. \A k \in request.promised, t \in Tables : k \in Having(t)
  BY <1>1, WholeIsFound DEF ReadInv, PromiseKept
<1>. QED  BY <1>1, <1>2, <1>3 DEF ReadInv, ReadSoFar

\* A list of transactions with their first operations.
LEMMA WithOperationFacts ==
  ASSUME NEW got \in Results, NEW S \in SUBSET Ledgers
  PROVE  LET all == WithOperation(got, S)
         IN  /\ all \in Results
             /\ all.txs = S /\ all.ops = S \cap Having("operations")
             /\ all.cursor = got.cursor /\ all.latest = got.latest /\ all.row = got.row
BY DEF WithOperation, Results

\* The summary: the cursor is read first, so that all it covers is there when
\* the rows are read.
LEMMA SummaryInv ==
  ASSUME IInv, ReadInv, request.op = "summary", Query
  PROVE  ReadInv'
<1>. DEFINE got(query) == Read(query, request.ledger, request.got)
<1>q. Queries(request.op) = <<"cursor", "latest", "recent">>
  BY DEF Queries
<1>1. request.at \in 1 .. 3
  BY <1>q, RequestFacts
<1>2. CASE request.at = 1
  <2>1. got("cursor") = [request.got EXCEPT !.cursor = ingested]
    BY DEF Read
  <2>2. got("cursor") \in Results /\ got("cursor").cursor <= ingested
    <3>. HIDE DEF got
    <3>. QED  BY <2>1, RequestFacts, MaxLedgerAssumption DEF Results
  <2>3. Found(request.op, request.ledger, request.promised, request.at + 1, got("cursor"))
    BY <1>2 DEF Found
  <2>4. "cursor" = Queries(request.op)[request.at] /\ "cursor" \notin MayLack
    BY <1>2, <1>q DEF MayLack
  <2>. QED  BY <2>2, <2>3, <2>4, QueryInv
<1>3. CASE request.at = 2
  <2>1. got("latest") = [request.got EXCEPT !.latest = GetLatestLedgerSummary]
    BY DEF Read
  <2>2. /\ got("latest") \in Results
        /\ got("latest").cursor = request.got.cursor
        /\ got("latest").latest = GetLatestLedgerSummary
    <3>. HIDE DEF got
    <3>. QED  BY <2>1, RequestFacts, LatestFacts DEF Results
  <2>3. got("latest").cursor <= ingested /\ got("latest").latest >= got("latest").cursor
    BY <2>2, RequestFacts, LatestFacts, MaxLedgerAssumption
  <2>4. Found(request.op, request.ledger, request.promised, request.at + 1, got("latest"))
    <3>. HIDE DEF got
    <3>. QED  BY <2>3, <1>3 DEF Found
  <2>5. "latest" = Queries(request.op)[request.at] /\ "latest" \notin MayLack
    BY <1>3, <1>q DEF MayLack
  <2>. QED  BY <2>2, <2>3, <2>4, <2>5, QueryInv
<1>4. CASE request.at = 3
  <2>. DEFINE S == Having("transactions")
  <2>2. S \in SUBSET Ledgers /\ ListRecentTransactionSummaries = Top(S, RecentLimit)
    BY DEF Having, ListRecentTransactionSummaries
  <2>3. ASSUME NEW P \in SUBSET S
        PROVE  Top(S, RecentLimit) \subseteq S /\ Covers(Top(S, RecentLimit), P)
    BY <2>2, ListCovers
  <2>4. Top(S, RecentLimit) \in SUBSET Ledgers
    BY <2>2, <2>3
  <2>5. /\ got("recent") \in Results
        /\ got("recent").txs = Top(S, RecentLimit)
        /\ got("recent").ops = Top(S, RecentLimit) \cap Having("operations")
        /\ got("recent").cursor = request.got.cursor
        /\ got("recent").latest = request.got.latest
    <3>1. got("recent") = WithOperation(request.got, ListRecentTransactionSummaries)
      BY DEF Read
    <3>. HIDE DEF got
    <3>. QED  BY <2>2, <2>4, RequestFacts, <3>1, WithOperationFacts
  <2>6. got("recent").latest >= got("recent").cursor
    BY <2>5, <1>4, RequestFacts DEF Found
  <2>7. ASSUME request.got.cursor > 0
        PROVE  origin .. request.got.cursor \subseteq S \cap Having("operations")
    <3>1. ASSUME NEW k \in origin .. request.got.cursor PROVE k \in Ledgers /\ Complete(k)
      <4>1. ingested # 0 /\ k \in origin .. ingested /\ origin \in 1 .. ingested
        BY <2>7, <3>1, RequestFacts, MaxLedgerAssumption
           DEF IInv, TailContiguous, TypeOK, StoreTypeOK
      <4>2. k \in Ledgers
        BY <4>1, RequestFacts, MaxLedgerAssumption DEF Ledgers
      <4>. QED  BY <4>1, <4>2 DEF IInv, TailContiguous
    <3>. QED  BY <3>1, WholeIsFound DEF Tables, KeyedTables, SerialTables
  <2>8. got("recent").cursor > 0 =>
          /\ Covers(got("recent").txs, origin .. got("recent").cursor)
          /\ got("recent").txs \cap (origin .. got("recent").cursor) \subseteq got("recent").ops
    BY <2>3, <2>5, <2>7
  <2>9. Found(request.op, request.ledger, request.promised, request.at + 1, got("recent"))
    <3>. HIDE DEF got
    <3>. QED  BY <2>6, <2>8 DEF Found
  <2>10. "recent" = Queries(request.op)[request.at] /\ "recent" \notin MayLack
    BY <1>4, <1>q DEF MayLack
  <2>11. got("recent").cursor <= ingested
    BY <2>5, RequestFacts
  <2>. QED  BY <2>5, <2>9, <2>10, <2>11, QueryInv
<1>. QED  BY <1>1, <1>2, <1>3, <1>4

\* The health check shows the cursor, and promises with it.
LEMMA HealthInv ==
  ASSUME IInv, ReadInv, request.op = "health", Query
  PROVE  ReadInv'
<1>. DEFINE got(query) == Read(query, request.ledger, request.got)
<1>q. Queries(request.op) = <<"cursor", "tip">>
  BY DEF Queries
<1>1. request.at \in 1 .. 2
  BY <1>q, RequestFacts
<1>2. \A g : Found(request.op, request.ledger, request.promised, request.at + 1, g)
  BY DEF Found
<1>3. CASE request.at = 1
  <2>1. got("cursor") = [request.got EXCEPT !.cursor = ingested]
    BY DEF Read
  <2>2. got("cursor") \in Results /\ got("cursor").cursor <= ingested
    <3>. HIDE DEF got
    <3>. QED  BY <2>1, RequestFacts, MaxLedgerAssumption DEF Results
  <2>3. "cursor" = Queries(request.op)[request.at] /\ "cursor" \notin MayLack
    BY <1>3, <1>q DEF MayLack
  <2>. QED  BY <1>2, <2>2, <2>3, QueryInv
<1>4. CASE request.at = 2
  <2>1. got("tip") = [request.got EXCEPT !.tip = tip]
    BY DEF Read
  <2>2. got("tip") \in Results /\ got("tip").cursor <= ingested
    <3>. HIDE DEF got
    <3>. QED  BY <2>1, RequestFacts DEF Results
  <2>3. "tip" = Queries(request.op)[request.at] /\ "tip" \notin MayLack
    BY <1>4, <1>q DEF MayLack
  <2>. QED  BY <1>2, <2>2, <2>3, QueryInv
<1>. QED  BY <1>1, <1>3, <1>4

\* A ledger or a transaction that was promised is found, and then its rows are.
LEMMA EntityInv ==
  ASSUME IInv, ReadInv, request.op \in {"ledger", "transaction"}, Query
  PROVE  ReadInv'
<1>. DEFINE l == request.ledger
            P == request.promised
            got(query) == Read(query, l, request.got)
            first == request.op
            second == IF request.op = "ledger" THEN "transactions" ELSE "operations"
<1>q. /\ request.op = "ledger" => Queries(request.op) = <<first, second>>
      /\ request.op = "transaction" => Queries(request.op) = <<first, second, "effects">>
  BY DEF Queries
<1>1. request.at \in 1 .. 3 /\ (request.at = 3 => request.op = "transaction")
  BY <1>q, RequestFacts
<1>2. l \in P => l \in Ledgers /\ \A t \in Tables : l \in Having(t)
  BY RequestFacts
<1>h. \A t : {l} \cap Having(t) \in SUBSET Ledgers
  BY DEF Having
<1>3. CASE request.at = 1
  <2>1. first = Queries(request.op)[request.at]
    BY <1>3, <1>q
  <2>2. /\ got(first) \in Results /\ got(first).cursor <= ingested
        /\ l \in P => l \in got(first).row
    <3>1. \/ /\ request.op = "ledger"
             /\ got(first) = [request.got EXCEPT !.row = {l} \cap Having("ledgers")]
          \/ /\ request.op = "transaction"
             /\ got(first) = [request.got EXCEPT !.row = {l} \cap Having("transactions")]
      BY DEF Read, GetLedgerSummaryBySequence, GetTransactionByHash
    <3>. HIDE DEF got
    <3>. QED  BY <3>1, <1>h, RequestFacts, <1>2 DEF Results, Tables, KeyedTables
  <2>3. Found(request.op, l, P, request.at + 1, got(first))
    <3>. HIDE DEF got
    <3>. QED  BY <2>2, <1>3 DEF Found
  <2>4. got(first).row = {} => l \notin P
    BY <2>2
  <2>. QED  BY <2>1, <2>2, <2>3, <2>4, QueryInv
<1>4. CASE request.at = 2
  <2>1. second = Queries(request.op)[request.at] /\ second \notin MayLack
    BY <1>4, <1>q DEF MayLack
  <2>2. l \in P => l \in request.got.row
    BY <1>4, RequestFacts DEF Found
  <2>3. /\ got(second) \in Results /\ got(second).cursor <= ingested
        /\ l \in P => l \in got(second).row \cap got(second).ops
    <3>2. CASE request.op = "ledger"
      <4>1. got(second) = WithOperation(request.got, {l} \cap Having("transactions"))
        BY <3>2 DEF Read, ListTransactionSummariesByLedger
      <4>. HIDE DEF got, second
      <4>. QED
        BY <4>1, <1>h, <2>2, RequestFacts, <1>2, WithOperationFacts
           DEF Tables, KeyedTables, SerialTables
    <3>3. CASE request.op = "transaction"
      <4>1. got(second) = [request.got EXCEPT !.ops = {l} \cap Having("operations")]
        BY <3>3 DEF Read, ListOperationsByTransactionHash
      <4>. HIDE DEF got, second
      <4>. QED
        BY <4>1, <1>h, <2>2, RequestFacts, <1>2 DEF Results, Tables, SerialTables
    <3>. QED  BY <3>2, <3>3
  <2>4. Found(request.op, l, P, request.at + 1, got(second))
    <3>. HIDE DEF got, second
    <3>. QED  BY <2>3 DEF Found
  <2>. QED  BY <2>1, <2>3, <2>4, QueryInv
<1>5. CASE request.at = 3
  <2>1. "effects" = Queries(request.op)[request.at] /\ "effects" \notin MayLack
    BY <1>1, <1>5, <1>q DEF MayLack
  <2>2. got("effects") = request.got
    BY DEF Read
  <2>3. Found(request.op, l, P, request.at + 1, request.got)
    BY <1>1, <1>5, RequestFacts DEF Found
  <2>4. request.got \in Results /\ request.got.cursor <= ingested
    BY RequestFacts
  <2>. QED  BY <2>1, <2>2, <2>3, <2>4, QueryInv
<1>. QED  BY <1>1, <1>3, <1>4, <1>5

\* The contract's page, once its row is found: calls and events of every
\* promised ledger are listed, as far as the lists reach.
LEMMA ContractInv ==
  ASSUME IInv, ReadInv, request.op = "contract", Query
  PROVE  ReadInv'
<1>. DEFINE got(query) == Read(query, request.ledger, request.got)
            P == request.promised
            Calls == Having("operations") \cap Having("transactions")
            Events == Having("contract_events")
<1>q. Queries(request.op) = <<"contract", "calls", "events", "spec", "storage">>
  BY DEF Queries
<1>1. request.at \in 1 .. 5
  BY <1>q, RequestFacts
<1>2. /\ request.at >= 2 => described /\ request.got.row # {}
      /\ request.at >= 3 => /\ Covers(request.got.txs, P)
                            /\ P \cap request.got.txs \subseteq request.got.ops
      /\ request.at >= 4 => Covers(request.got.events, P)
      /\ request.at >= 5 => request.got.spec
  BY RequestFacts DEF Found
<1>3. /\ Calls \in SUBSET Ledgers /\ P \in SUBSET Calls
      /\ Events \in SUBSET Ledgers /\ P \in SUBSET Events
      /\ P \subseteq Having("operations")
  <2>1. \A t : Having(t) \subseteq Ledgers
    BY DEF Having
  <2>. QED  BY <2>1, RequestFacts DEF Tables, KeyedTables, SerialTables
<1>4. /\ Top(Calls, RecentLimit) \in SUBSET Ledgers /\ Covers(Top(Calls, RecentLimit), P)
      /\ Top(Events, RecentLimit) \in SUBSET Ledgers /\ Covers(Top(Events, RecentLimit), P)
  <2>. HIDE DEF Calls, Events, P
  <2>. QED  BY <1>3, ListCovers
<1>5. CASE request.at = 1
  <2>1. "contract" = Queries(request.op)[request.at]
    BY <1>5, <1>q
  <2>2. got("contract") = [request.got EXCEPT
                             !.row = IF described THEN {request.ledger} ELSE {}]
    BY DEF Read, GetContractByID
  <2>3. /\ got("contract") \in Results /\ got("contract").cursor <= ingested
        /\ got("contract").row # {} => described
    <3>. HIDE DEF got
    <3>. QED  BY <2>2, RequestFacts DEF Results
  <2>4. got("contract").row # {} =>
          Found(request.op, request.ledger, request.promised, request.at + 1, got("contract"))
    <3>. HIDE DEF got
    <3>. QED  BY <2>3, <1>5 DEF Found
  <2>5. "contract" \in MayLack
    BY DEF MayLack
  <2>. HIDE DEF got, P
  <2>. QED  BY <2>1, <2>3, <2>4, <2>5, QueryInv DEF got
<1>6. CASE request.at = 2
  <2>1. "calls" = Queries(request.op)[request.at] /\ "calls" \notin MayLack
    BY <1>6, <1>q DEF MayLack
  <2>2. /\ got("calls") \in Results /\ got("calls").cursor <= ingested
        /\ got("calls").txs = Top(Calls, RecentLimit)
        /\ got("calls").ops = Top(Calls, RecentLimit) \cap Having("operations")
        /\ got("calls").row = request.got.row
    <3>1. got("calls") = WithOperation(request.got, Top(Calls, RecentLimit))
      BY DEF Read, ListTransactionSummariesByContract
    <3>. HIDE DEF got, Calls
    <3>. QED  BY <3>1, RequestFacts, <1>4, WithOperationFacts
  <2>3. Covers(got("calls").txs, P) /\ P \cap got("calls").txs \subseteq got("calls").ops
    <3>. HIDE DEF got, Calls
    <3>. QED  BY <2>2, <1>3, <1>4
  <2>4. Found(request.op, request.ledger, P, request.at + 1, got("calls"))
    <3>. HIDE DEF got, P
    <3>. QED  BY <2>2, <2>3, <1>2, <1>6 DEF Found
  <2>. QED  BY <2>1, <2>2, <2>4, QueryInv
<1>7. CASE request.at = 3
  <2>1. "events" = Queries(request.op)[request.at] /\ "events" \notin MayLack
    BY <1>7, <1>q DEF MayLack
  <2>2. /\ got("events") \in Results /\ got("events").cursor <= ingested
        /\ got("events").txs = request.got.txs /\ got("events").ops = request.got.ops
        /\ got("events").row = request.got.row
        /\ got("events").events = Top(Events, RecentLimit)
    <3>1. got("events") = [request.got EXCEPT !.events = Top(Events, RecentLimit)]
      BY DEF Read, ListContractEventSummariesByContractID
    <3>. HIDE DEF got, Events
    <3>. QED  BY <3>1, RequestFacts, <1>4 DEF Results
  <2>3. Covers(got("events").events, P)
    BY <2>2, <1>4
  <2>4. Found(request.op, request.ledger, P, request.at + 1, got("events"))
    <3>. HIDE DEF got, P
    <3>. QED  BY <2>2, <2>3, <1>2, <1>7 DEF Found
  <2>. QED  BY <2>1, <2>2, <2>4, QueryInv
<1>8. CASE request.at = 4
  <2>1. "spec" = Queries(request.op)[request.at] /\ "spec" \notin MayLack
    BY <1>8, <1>q DEF MayLack
  <2>2. got("spec") = [request.got EXCEPT !.spec = described]
    BY DEF Read, GetContractSpecByID
  <2>3. /\ got("spec") \in Results /\ got("spec").cursor <= ingested
        /\ got("spec").txs = request.got.txs /\ got("spec").ops = request.got.ops
        /\ got("spec").row = request.got.row /\ got("spec").events = request.got.events
        /\ got("spec").spec = described
    <3>. HIDE DEF got
    <3>. QED  BY <2>2, RequestFacts DEF Results
  <2>4. Found(request.op, request.ledger, P, request.at + 1, got("spec"))
    <3>. HIDE DEF got, P
    <3>1. request.at >= 2 /\ request.at >= 3 /\ request.at >= 4
      BY <1>8
    <3>2. /\ described /\ got("spec").row # {}
          /\ Covers(got("spec").txs, request.promised)
          /\ request.promised \cap got("spec").txs \subseteq got("spec").ops
          /\ Covers(got("spec").events, request.promised)
          /\ got("spec").spec
      BY <3>1, <2>3, <1>2 DEF P
    <3>. QED  BY <3>2 DEF Found, P
  <2>. QED  BY <2>1, <2>3, <2>4, QueryInv
<1>9. CASE request.at = 5
  <2>1. "storage" = Queries(request.op)[request.at] /\ "storage" \notin MayLack
    BY <1>9, <1>q DEF MayLack
  <2>2. got("storage") = request.got
    BY DEF Read
  <2>3. Found(request.op, request.ledger, P, request.at + 1, request.got)
    BY <1>2, <1>9 DEF Found
  <2>. QED  BY <2>1, <2>2, <2>3, RequestFacts, QueryInv
<1>. QED  BY <1>1, <1>5, <1>6, <1>7, <1>8, <1>9

\* A request that fails answers nothing, whichever query it had come to.
LEMMA RefuseInv ==
  ASSUME IInv, ReadInv, Refuse
  PROVE  ReadInv'
<1>1. /\ request.op # "none"
      /\ \/ Reply(503, Nothing)
         \/ Reply(500, Nothing)
  BY DEF Refuse
<1>2. Nothing \in Results /\ Nothing.cursor <= ingested
  BY MaxLedgerAssumption DEF Nothing, Results, IInv, TypeOK, StoreTypeOK
<1>. QED  BY <1>1, <1>2, ReplyInv

-----------------------------------------------------------------------------

LEMMA ApiInitInv == ApiInit => IInv /\ ReadInv
<1>1. SUFFICES ASSUME ApiInit PROVE ReadInv
  BY InitInv DEF ApiInit
<1>2. Nothing \in Results /\ ingested = 0
  BY <1>1, MaxLedgerAssumption DEF ApiInit, Init, StoreInit, Nothing, Results
<1>3. ApiTypeOK
  <2>1. request = NoRequest /\ answer = NoAnswer /\ known = 0 /\ described = FALSE
    BY <1>1 DEF ApiInit
  <2>2. /\ request \in [op : Operations \cup {"none"}, ledger : 0 .. MaxLedger,
                        promised : SUBSET Ledgers, at : 1 .. 5, got : Results]
        /\ request.op = "none"
    BY <1>2, <2>1, MaxLedgerAssumption DEF NoRequest
  <2>3. answer \in [status : Nat, op : Operations \cup {"none"}, ledger : 0 .. MaxLedger,
                    promised : SUBSET Ledgers, got : Results]
    BY <1>2, <2>1, MaxLedgerAssumption DEF NoAnswer
  <2>4. known \in 0 .. MaxLedger
    BY <2>1, MaxLedgerAssumption
  <2>6. described \in BOOLEAN
    BY <2>1
  <2>5. request.op # "none" => /\ request.ledger \in Ledgers
                               /\ request.at \in DOMAIN Queries(request.op)
    BY <2>2
  <2>. QED  BY <2>2, <2>3, <2>4, <2>5, <2>6 DEF ApiTypeOK
<1>4. CursorsBehind /\ PromiseKept /\ ReadSoFar
  BY <1>1, <1>2
     DEF ApiInit, CursorsBehind, PromiseKept, ReadSoFar, Found, NoRequest, NoAnswer, Nothing
<1>5. SummaryCoversCursor /\ PromisedIsWhole
  BY <1>1 DEF ApiInit, SummaryCoversCursor, PromisedIsWhole, Answered, NoAnswer
<1>. QED  BY <1>3, <1>4, <1>5 DEF ReadInv

LEMMA ApiNextInv == IInv /\ ReadInv /\ [ApiNext]_allVars => IInv' /\ ReadInv'
<1>. SUFFICES ASSUME IInv, ReadInv, [ApiNext]_allVars PROVE IInv' /\ ReadInv'
  OBVIOUS
<1>1. CASE Next /\ UNCHANGED apiVars
  BY <1>1, NextInv, LiveReadInv DEF apiVars, ReadInv, ApiTypeOK
<1>2. CASE Serve
  <2>1. UNCHANGED vars
    BY <1>2 DEF Serve, Receive, Query, Refuse, Reply
  <2>2. IInv'
    BY <2>1, NextInv
  <2>3. ReadInv'
    <3>1. CASE Query
      <4>1. request.op \in {"summary", "health", "ledger", "transaction", "contract"}
        BY <3>1 DEF Query, ReadInv, ApiTypeOK, Operations
      <4>. QED  BY <3>1, <4>1, SummaryInv, HealthInv, EntityInv, ContractInv
    <3>. QED  BY <3>1, <1>2, ReceiveInv, RefuseInv DEF Serve
  <2>. QED  BY <2>2, <2>3
<1>3. CASE ProcessContractSpec
  BY <1>3, NextInv, LiveReadInv DEF ProcessContractSpec
<1>4. CASE UNCHANGED allVars
  <2>1. UNCHANGED vars /\ UNCHANGED apiVars
    BY <1>4 DEF allVars
  <2>. QED  BY <2>1, NextInv, LiveReadInv DEF apiVars, ReadInv, ApiTypeOK
<1>. QED  BY <1>1, <1>2, <1>3, <1>4 DEF ApiNext

LEMMA ApiInvariance == ApiSpec => [](IInv /\ ReadInv)
BY ApiInitInv, ApiNextInv, PTL DEF ApiSpec

\* A summary shows all that its own cursor covers, whatever was written between
\* its queries and whatever failed.
THEOREM SummariesCoverCursor == ApiSpec => []SummaryCoversCursor
<1>1. ReadInv => SummaryCoversCursor
  BY DEF ReadInv
<1>. QED  BY <1>1, ApiInvariance, PTL

\* What was announced, or lies at or below a cursor shown before, is found
\* whole: a client never sees a 404 or half of it.  A contract's page may be a
\* 404, since nothing waits for its row; one that is found has the calls and
\* the events of all that was promised.
THEOREM PromisesAreKept == ApiSpec => []PromisedIsWhole
<1>1. ReadInv => PromisedIsWhole
  BY DEF ReadInv
<1>. QED  BY <1>1, ApiInvariance, PTL
===============================================================================
