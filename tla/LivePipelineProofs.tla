-------------------------- MODULE LivePipelineProofs --------------------------
(***************************************************************************)
(* For every number of ledgers, batch size, gap window and retention, and  *)
(* any number of failures: what the live pipeline's cursor and messages    *)
(* mean.  IInv is the inductive invariant; each action preserves it.       *)
(***************************************************************************)
EXTENDS LivePipeline, TLAPS

\* Where the ledgers at hand lie relative to each other.
Bounds ==
  /\ origin <= ingested
  /\ origin = 0 <=> ingested = 0
  /\ led[Live] <= upto[Live]
  /\ pc = "resume" => target \in Ledgers
  /\ pc = "fetch" => next <= target /\ target \in Ledgers
  /\ pc = "batch" => upto[Live] <= target
  /\ step[Live] # "idle" => pc \in {"batch", "fill"}

\* A tail round works on the ledger right after the cursor.
TailPosition ==
  /\ pc = "fetch" /\ ingested # 0 => next = ingested + 1
  /\ pc = "batch" /\ step[Live] \in WriteSteps /\ ingested # 0 =>
        led[Live] = ingested + 1
  /\ pc = "batch" /\ step[Live] \in {"publish_ledger", "publish_transactions"} =>
        led[Live] = ingested
  /\ pc = "batch" /\ step[Live] = "idle" => upto[Live] = ingested

\* A gap scan works below the cursor, on ledgers that have no row.
FillPosition ==
  /\ pc = "scan" => target = ingested
  /\ pc \in {"gaps", "fill"} => \A l \in todo : l <= ingested /\ ~ HasRow(l)
  /\ pc = "fill" => upto[Live] <= ingested
  /\ pc = "fill" => \A l \in led[Live] + 1 .. upto[Live] : ~ HasRow(l)
  /\ pc = "fill" => \A l \in led[Live] .. upto[Live] : l \notin todo
  /\ pc = "fill" /\ step[Live] = "ledgers" => ~ HasRow(led[Live])

Written == \A t \in WrittenBefore(step[Live]) : rows[led[Live]][t] > 0

\* The ledger at hand has not been announced yet.
Unpublished ==
  /\ step[Live] \in WriteSteps \cup {"publish_ledger"} =>
        published["ledgers"][led[Live]] = 0
  /\ step[Live] \in WriteSteps \cup {"publish_ledger", "publish_transactions"} =>
        published["transactions"][led[Live]] = 0

IInv ==
  /\ TypeOK
  /\ Bounds
  /\ TailPosition
  /\ FillPosition
  /\ Written
  /\ Unpublished
  /\ TailContiguous
  /\ PublishedComplete
  /\ PublishedOnce

-----------------------------------------------------------------------------
(* Lemmas about the helpers of the model.                                   *)

\* A batch inserted leaves the counts in range, is there afterwards, and leaves
\* every other batch as it was.
LEMMA InsertBatchFacts ==
  ASSUME StoreTypeOK, NEW t \in Tables, NEW l \in Ledgers, InsertBatch(t, l)
  PROVE  /\ rows' \in [Ledgers -> [Tables -> 0 .. 2]]
         /\ rows'[l][t] > 0
         /\ \A k \in Ledgers, u \in Tables : rows[k][u] > 0 => rows'[k][u] > 0
         /\ \A k \in Ledgers \ {l} : rows'[k] = rows[k]
         /\ \A u \in Tables \ {t} : rows'[l][u] = rows[l][u]
BY DEF StoreTypeOK, InsertBatch, CopiesAfterInsert

\* The cursor ends no lower than it was and no lower than the ledger it is set
\* to, and is one of the two.
LEMMA SetLastIngestedLedgerFacts ==
  ASSUME StoreTypeOK, NEW seq \in Ledgers, SetLastIngestedLedger(seq)
  PROVE  /\ ingested' \in Ledgers
         /\ ingested' >= ingested /\ ingested' >= seq
         /\ ingested' = ingested \/ ingested' = seq
         /\ origin' \in 0 .. MaxLedger
BY MaxLedgerAssumption DEF StoreTypeOK, SetLastIngestedLedger, Ledgers

\* What the gap scan takes is contiguous: between two ledgers of the first run
\* that begin with its lowest, every ledger is of the run.
LEMMA FirstRunContiguous ==
  ASSUME todo \subseteq Ledgers,
         NEW first \in FirstRun, NEW last \in FirstRun,
         \A l \in FirstRun : first <= l
  PROVE  first .. last \subseteq FirstRun /\ FirstRun \subseteq todo
<1>1. PICK f \in todo : (\A m \in todo : f <= m) /\ f .. last \subseteq todo
  BY DEF FirstRun
<1>2. f \in Int /\ first \in Int /\ last \in Int
  BY <1>1 DEF FirstRun, Ledgers
<1>3. f .. f \subseteq todo
  BY <1>1, <1>2
<1>4. f \in FirstRun
  BY <1>1, <1>3 DEF FirstRun
<1>5. first = f
  <2>1. first <= f /\ f <= first
    BY <1>1, <1>4 DEF FirstRun
  <2>. QED  BY <2>1, <1>2
<1>6. ASSUME NEW l \in first .. last PROVE l \in FirstRun
  <2>1. l \in todo /\ f .. l \subseteq todo
    BY <1>1, <1>2, <1>5, <1>6
  <2>. QED  BY <2>1, <1>1 DEF FirstRun
<1>. QED  BY <1>6 DEF FirstRun

-----------------------------------------------------------------------------
(* The calls of ProcessOneLedger.                                           *)

\* Where the process may go from here once its ledger is done.
LEMMA ReturnFacts ==
  ASSUME ProcTypeOK, led[Live] <= upto[Live], Return(Live)
  PROVE  /\ led' \in [Procs -> Ledgers] /\ upto' = upto
         /\ step' \in [Procs -> Steps]
         /\ \/ /\ step'[Live] = "ledgers"
               /\ led'[Live] = led[Live] + 1
               /\ led[Live] < upto[Live]
            \/ /\ step'[Live] = "idle"
               /\ led'[Live] = led[Live]
               /\ led[Live] = upto[Live]
<1>1. /\ Live \in Procs /\ led[Live] \in Ledgers /\ upto[Live] \in Ledgers
      /\ "ledgers" \in Steps /\ "idle" \in Steps
  BY LiveAssumption DEF ProcTypeOK, Steps, WriteSteps, Tables, KeyedTables
<1>2. CASE led[Live] < upto[Live]
  <2>1. led[Live] + 1 \in Ledgers
    BY <1>1, <1>2, MaxLedgerAssumption DEF Ledgers
  <2>. QED  BY <1>1, <1>2, <2>1 DEF ProcTypeOK, Return
<1>3. CASE led[Live] = upto[Live]
  BY <1>1, <1>3, MaxLedgerAssumption DEF ProcTypeOK, Return, Ledgers
<1>. QED  BY <1>1, <1>2, <1>3, MaxLedgerAssumption DEF Ledgers

\* A ledger at most one of whose messages was sent is one a reader finds: what
\* has no row, or lies above the cursor, was never announced.
LEMMA UnannouncedFacts ==
  ASSUME IInv, NEW l \in Ledgers, ~ HasRow(l) \/ l > ingested
  PROVE  \A c \in Channels : published[c][l] = 0
<1>1. "ledgers" \in Tables
  BY DEF Tables, KeyedTables
<1>2. \A c \in Channels : published[c][l] \in 0 .. 2
  BY DEF IInv, TypeOK, ProcTypeOK
<1>3. ASSUME NEW c \in Channels, published[c][l] > 0 PROVE FALSE
  <2>1. Complete(l) /\ l <= ingested
    BY <1>3 DEF IInv, PublishedComplete
  <2>. QED
    BY <2>1, <1>1, MaxLedgerAssumption
       DEF Complete, HasRow, IInv, TypeOK, StoreTypeOK, Ledgers
<1>. QED  BY <1>2, <1>3

\* One of the five inserts, followed by the call nxt.
LEMMA WriteInv ==
  ASSUME IInv, pc \in {"batch", "fill"},
         NEW t \in Tables, NEW nxt \in WriteSteps \ {"ledgers"},
         WrittenBefore(nxt) \subseteq WrittenBefore(t) \cup {t},
         Write(Live, t, nxt), UNCHANGED liveVars
  PROVE  IInv'
<1>1. /\ Live \in Procs /\ led[Live] \in Ledgers /\ step[Live] = t
      /\ InsertBatch(t, led[Live])
      /\ step' = [step EXCEPT ![Live] = nxt]
      /\ UNCHANGED <<led, upto, published, ingested, origin>>
      /\ UNCHANGED <<tip, pc, target, next, todo, failures>>
  BY LiveAssumption DEF Write, InsertBatch, liveVars, IInv, TypeOK, ProcTypeOK
<1>2. step'[Live] = nxt /\ nxt \in Steps /\ nxt \in WriteSteps /\ t \in WriteSteps
  BY <1>1 DEF IInv, TypeOK, ProcTypeOK, Steps, WriteSteps
<1>3. /\ rows' \in [Ledgers -> [Tables -> 0 .. 2]]
      /\ rows'[led[Live]][t] > 0
      /\ \A k \in Ledgers, u \in Tables : rows[k][u] > 0 => rows'[k][u] > 0
      /\ \A k \in Ledgers \ {led[Live]} : rows'[k] = rows[k]
  BY <1>1, InsertBatchFacts DEF IInv, TypeOK
<1>4. \A k \in Ledgers : Complete(k) => Complete(k)'
  BY <1>3 DEF Complete
<1>5. \A k \in Ledgers \ {led[Live]} : HasRow(k)' = HasRow(k)
  BY <1>3 DEF HasRow
<1>6. TypeOK'
  BY <1>1, <1>2, <1>3 DEF IInv, TypeOK, StoreTypeOK, ProcTypeOK, LiveTypeOK
<1>7. Bounds'
  BY <1>1 DEF IInv, Bounds
<1>8. TailPosition'
  BY <1>1, <1>2 DEF IInv, TailPosition, WriteSteps, Tables, KeyedTables, SerialTables
<1>9. FillPosition'
  <2>1. pc = "fill" => \A l \in todo : l \in Ledgers \ {led[Live]}
    BY <1>1, MaxLedgerAssumption
       DEF IInv, FillPosition, Bounds, TypeOK, LiveTypeOK, ProcTypeOK, Ledgers
  <2>2. \A l \in led[Live] + 1 .. upto[Live] : l \in Ledgers \ {led[Live]}
    BY <1>1, LiveAssumption, MaxLedgerAssumption DEF IInv, TypeOK, ProcTypeOK, Ledgers
  <2>. QED  BY <1>1, <1>2, <1>5, <2>1, <2>2 DEF IInv, FillPosition
<1>10. Written'
  BY <1>1, <1>2, <1>3 DEF IInv, Written, WrittenBefore, Tables, KeyedTables, SerialTables
<1>11. Unpublished'
  BY <1>1, <1>2 DEF IInv, Unpublished
<1>12. TailContiguous'
  BY <1>1, <1>4, MaxLedgerAssumption
     DEF IInv, TailContiguous, TypeOK, StoreTypeOK, Ledgers
<1>13. PublishedComplete' /\ PublishedOnce'
  BY <1>1, <1>4 DEF IInv, PublishedComplete, PublishedOnce
<1>. QED
  BY <1>6, <1>7, <1>8, <1>9, <1>10, <1>11, <1>12, <1>13 DEF IInv

\* The cursor is set to a ledger that has all its batches.
LEMMA AdvanceCursorInv ==
  ASSUME IInv, pc \in {"batch", "fill"}, AdvanceCursor(Live), UNCHANGED liveVars
  PROVE  IInv'
<1>1. /\ Live \in Procs /\ led[Live] \in Ledgers /\ step[Live] = "cursor"
      /\ SetLastIngestedLedger(led[Live])
      /\ step' = [step EXCEPT ![Live] = "publish_ledger"]
      /\ UNCHANGED <<led, upto, published, rows>>
      /\ UNCHANGED <<tip, pc, target, next, todo, failures>>
  BY LiveAssumption DEF AdvanceCursor, liveVars, IInv, TypeOK, ProcTypeOK
<1>2. /\ step'[Live] = "publish_ledger" /\ step' \in [Procs -> Steps]
      /\ "cursor" \in WriteSteps /\ "publish_ledger" \notin WriteSteps
  BY <1>1 DEF IInv, TypeOK, ProcTypeOK, Steps, WriteSteps, Tables, KeyedTables, SerialTables
<1>3. /\ ingested' \in Ledgers
      /\ ingested' >= ingested /\ ingested' >= led[Live]
      /\ ingested' = ingested \/ ingested' = led[Live]
      /\ origin' \in 0 .. MaxLedger
  BY <1>1, SetLastIngestedLedgerFacts DEF IInv, TypeOK
<1>4. Complete(led[Live])
  BY <1>1 DEF IInv, Written, WrittenBefore, Complete
<1>5. /\ \A k \in Ledgers : Complete(k)' = Complete(k)
      /\ \A k \in Ledgers : HasRow(k)' = HasRow(k)
  BY <1>1 DEF Complete, HasRow
<1>6. TypeOK'
  BY <1>1, <1>2, <1>3, MaxLedgerAssumption
     DEF IInv, TypeOK, StoreTypeOK, ProcTypeOK, LiveTypeOK, Ledgers
<1>7. Bounds'
  BY <1>1, <1>2, <1>3, MaxLedgerAssumption
     DEF IInv, Bounds, TypeOK, StoreTypeOK, ProcTypeOK, SetLastIngestedLedger, Ledgers
<1>8. pc = "batch" => ingested' = led[Live]
  BY <1>1, <1>2, <1>3, MaxLedgerAssumption
     DEF IInv, TailPosition, SetLastIngestedLedger, TypeOK, StoreTypeOK, Ledgers
<1>9. pc = "fill" => ingested' = ingested /\ origin' = origin
  BY <1>1, <1>3, LiveAssumption, MaxLedgerAssumption
     DEF IInv, FillPosition, Bounds, SetLastIngestedLedger, TypeOK, StoreTypeOK,
         ProcTypeOK, Ledgers
<1>10. TailPosition'
  BY <1>1, <1>2, <1>8 DEF TailPosition
<1>11. FillPosition'
  BY <1>1, <1>2, <1>5, <1>9, MaxLedgerAssumption
     DEF IInv, FillPosition, TypeOK, LiveTypeOK, ProcTypeOK, HasRow
<1>12. Written'
  BY <1>1, <1>2, <1>4 DEF Written, WrittenBefore, Complete
<1>13. Unpublished'
  BY <1>1, <1>2 DEF IInv, Unpublished
<1>14. TailContiguous'
  <2>1. CASE pc = "fill"
    BY <2>1, <1>1, <1>5, <1>9, MaxLedgerAssumption
       DEF IInv, TailContiguous, TypeOK, StoreTypeOK, Ledgers
  <2>2. CASE pc = "batch" /\ ingested = 0
    BY <2>2, <1>1, <1>4, <1>5, <1>8, MaxLedgerAssumption
       DEF TailContiguous, SetLastIngestedLedger, Ledgers
  <2>3. CASE pc = "batch" /\ ingested # 0
    <3>1. ingested' = ingested + 1 /\ origin' = origin
      BY <2>3, <1>1, <1>2, <1>8, MaxLedgerAssumption
         DEF IInv, TailPosition, SetLastIngestedLedger
    <3>. QED
      BY <2>3, <3>1, <1>1, <1>4, <1>5, <1>8, MaxLedgerAssumption
         DEF IInv, TailContiguous, TypeOK, StoreTypeOK, Ledgers
  <2>. QED  BY <2>1, <2>2, <2>3
<1>15. PublishedComplete'
  BY <1>1, <1>3, <1>5, MaxLedgerAssumption
     DEF IInv, PublishedComplete, TypeOK, StoreTypeOK, Ledgers
<1>16. PublishedOnce'
  BY <1>1 DEF IInv, PublishedOnce
<1>. QED
  BY <1>6, <1>7, <1>10, <1>11, <1>12, <1>13, <1>14, <1>15, <1>16 DEF IInv

\* What Deliver does to a ledger not announced on its channel yet.
LEMMA DeliverFacts ==
  ASSUME ProcTypeOK, NEW c \in Channels, NEW l \in Ledgers,
         published[c][l] = 0, Deliver(c, l)
  PROVE  /\ published' \in [Channels -> [Ledgers -> 0 .. 2]]
         /\ published'[c][l] <= 1
         /\ \A d \in Channels, k \in Ledgers :
               d # c \/ k # l => published'[d][k] = published[d][k]
BY DEF ProcTypeOK, Deliver

\* A message about a ledger that has all its batches and lies at or below the
\* cursor keeps what the messages promise.
LEMMA DeliverInv ==
  ASSUME IInv, NEW c \in Channels, NEW l \in Ledgers, published[c][l] = 0,
         Deliver(c, l), Complete(l), l <= ingested, UNCHANGED storeVars
  PROVE  PublishedComplete' /\ PublishedOnce'
<1>1. /\ published' \in [Channels -> [Ledgers -> 0 .. 2]]
      /\ published'[c][l] <= 1
      /\ \A d \in Channels, k \in Ledgers :
            d # c \/ k # l => published'[d][k] = published[d][k]
  BY DeliverFacts DEF IInv, TypeOK
<1>2. rows' = rows /\ ingested' = ingested
  BY DEF storeVars
<1>3. PublishedComplete'
  BY <1>1, <1>2 DEF IInv, PublishedComplete, Complete
<1>4. PublishedOnce'
  BY <1>1 DEF IInv, PublishedOnce
<1>. QED  BY <1>3, <1>4

\* Announcing a ledger: it is complete, below the cursor, and not yet announced.
LEMMA PublishLedgerInv ==
  ASSUME IInv, pc \in {"batch", "fill"}, PublishLedger(Live), UNCHANGED liveVars
  PROVE  IInv'
<1>1. /\ Live \in Procs /\ led[Live] \in Ledgers /\ step[Live] = "publish_ledger"
      /\ Deliver("ledgers", led[Live])
      /\ step' = [step EXCEPT ![Live] = "publish_transactions"]
      /\ UNCHANGED <<led, upto, rows, ingested, origin>>
      /\ UNCHANGED <<tip, pc, target, next, todo, failures>>
  BY LiveAssumption DEF PublishLedger, liveVars, storeVars, IInv, TypeOK, ProcTypeOK
<1>2. /\ step'[Live] = "publish_transactions" /\ step' \in [Procs -> Steps]
      /\ "ledgers" \in Channels /\ "transactions" \in Channels
      /\ "publish_ledger" \notin WriteSteps /\ "publish_transactions" \notin WriteSteps
  BY <1>1 DEF IInv, TypeOK, ProcTypeOK, Steps, WriteSteps, Tables, KeyedTables,
              SerialTables, Channels
<1>3. Complete(led[Live])
  BY <1>1 DEF IInv, Written, WrittenBefore, Complete
<1>4. led[Live] <= ingested
  BY <1>1, LiveAssumption, MaxLedgerAssumption
     DEF IInv, TailPosition, FillPosition, Bounds, TypeOK, ProcTypeOK, StoreTypeOK, Ledgers
<1>5. published["ledgers"][led[Live]] = 0 /\ published["transactions"][led[Live]] = 0
  BY <1>1 DEF IInv, Unpublished
<1>6. PublishedComplete' /\ PublishedOnce'
  BY <1>1, <1>2, <1>3, <1>4, <1>5, DeliverInv DEF storeVars
<1>7. /\ published' \in [Channels -> [Ledgers -> 0 .. 2]]
      /\ published'["transactions"][led[Live]] = published["transactions"][led[Live]]
  BY <1>1, <1>2, <1>5, DeliverFacts DEF IInv, TypeOK
<1>8. TypeOK'
  BY <1>1, <1>2, <1>7 DEF IInv, TypeOK, StoreTypeOK, ProcTypeOK, LiveTypeOK
<1>9. Bounds' /\ TailPosition'
  BY <1>1, <1>2 DEF IInv, Bounds, TailPosition
<1>10. FillPosition'
  BY <1>1, <1>2 DEF IInv, FillPosition, HasRow
<1>11. Written'
  BY <1>1, <1>2, <1>3 DEF Written, WrittenBefore, Complete
<1>12. Unpublished'
  BY <1>1, <1>2, <1>5, <1>7 DEF Unpublished
<1>13. TailContiguous'
  BY <1>1 DEF IInv, TailContiguous, Complete
<1>. QED
  BY <1>6, <1>8, <1>9, <1>10, <1>11, <1>12, <1>13 DEF IInv

\* The last call: the process goes to the next ledger of its batch, which has
\* not been announced, or is done with the batch.
LEMMA PublishTransactionsInv ==
  ASSUME IInv, pc \in {"batch", "fill"}, PublishTransactions(Live), UNCHANGED liveVars
  PROVE  IInv'
<1>1. /\ Live \in Procs /\ led[Live] \in Ledgers /\ upto[Live] \in Ledgers
      /\ step[Live] = "publish_transactions"
      /\ Deliver("transactions", led[Live])
      /\ Return(Live)
      /\ UNCHANGED <<rows, ingested, origin>>
      /\ UNCHANGED <<tip, pc, target, next, todo, failures>>
  BY LiveAssumption
     DEF PublishTransactions, liveVars, storeVars, IInv, TypeOK, ProcTypeOK
<1>2. /\ "ledgers" \in Channels /\ "transactions" \in Channels
      /\ "ledgers" \in WriteSteps /\ "idle" \notin WriteSteps
      /\ "publish_transactions" \notin WriteSteps
  BY DEF WriteSteps, Tables, KeyedTables, SerialTables, Channels
<1>3. /\ led' \in [Procs -> Ledgers] /\ upto' = upto /\ step' \in [Procs -> Steps]
      /\ \/ /\ step'[Live] = "ledgers" /\ led'[Live] = led[Live] + 1
            /\ led[Live] < upto[Live]
         \/ /\ step'[Live] = "idle" /\ led'[Live] = led[Live]
            /\ led[Live] = upto[Live]
  BY <1>1, ReturnFacts DEF IInv, TypeOK, Bounds
<1>4. Complete(led[Live])
  BY <1>1 DEF IInv, Written, WrittenBefore, Complete
<1>5. /\ pc = "batch" => led[Live] = ingested
      /\ pc = "fill" => upto[Live] <= ingested
  BY <1>1 DEF IInv, TailPosition, FillPosition
<1>6. led[Live] <= ingested
  BY <1>1, <1>5, MaxLedgerAssumption DEF IInv, Bounds, TypeOK, StoreTypeOK, Ledgers
<1>7. published["transactions"][led[Live]] = 0
  BY <1>1 DEF IInv, Unpublished
<1>8. PublishedComplete' /\ PublishedOnce'
  BY <1>1, <1>2, <1>4, <1>6, <1>7, DeliverInv DEF storeVars
<1>9. /\ published' \in [Channels -> [Ledgers -> 0 .. 2]]
      /\ \A d \in Channels, k \in Ledgers :
            d # "transactions" \/ k # led[Live] => published'[d][k] = published[d][k]
  BY <1>1, <1>2, <1>7, DeliverFacts DEF IInv, TypeOK
<1>10. TypeOK'
  BY <1>1, <1>3, <1>9 DEF IInv, TypeOK, StoreTypeOK, ProcTypeOK, LiveTypeOK
<1>11. Bounds'
  BY <1>1, <1>3, MaxLedgerAssumption DEF IInv, Bounds, TypeOK, ProcTypeOK, Ledgers
<1>12. TailPosition'
  BY <1>1, <1>2, <1>3, <1>5, MaxLedgerAssumption
     DEF IInv, TailPosition, TypeOK, StoreTypeOK, Ledgers
<1>13. FillPosition'
  BY <1>1, <1>3, <1>5, MaxLedgerAssumption
     DEF IInv, FillPosition, Bounds, HasRow, TypeOK, StoreTypeOK, ProcTypeOK,
         LiveTypeOK, Ledgers
<1>14. Written'
  BY <1>3 DEF Written, WrittenBefore
<1>15. Unpublished'
  <2>1. CASE step'[Live] = "idle"
    BY <2>1, <1>2 DEF Unpublished
  <2>2. CASE step'[Live] = "ledgers"
    <3>1. /\ led'[Live] \in Ledgers /\ led'[Live] # led[Live]
          /\ ~ HasRow(led'[Live]) \/ led'[Live] > ingested
      BY <2>2, <1>1, <1>3, <1>5, MaxLedgerAssumption
         DEF IInv, FillPosition, TypeOK, StoreTypeOK, Ledgers
    <3>2. \A c \in Channels : published[c][led'[Live]] = 0
      BY <3>1, UnannouncedFacts
    <3>. QED  BY <2>2, <3>1, <3>2, <1>2, <1>9 DEF Unpublished
  <2>. QED  BY <2>1, <2>2, <1>3
<1>16. TailContiguous'
  BY <1>1 DEF IInv, TailContiguous, Complete
<1>. QED
  BY <1>8, <1>10, <1>11, <1>12, <1>13, <1>14, <1>15, <1>16 DEF IInv

\* Whatever call of ProcessOneLedger succeeds next.
LEMMA ProcessInv ==
  ASSUME IInv, Process
  PROVE  IInv'
<1>1. pc \in {"batch", "fill"} /\ ProcessOneLedger(Live) /\ UNCHANGED liveVars
  BY DEF Process
<1>. USE DEF WriteSteps, Tables, KeyedTables, SerialTables, WrittenBefore
<1>2. CASE InsertLedger(Live)
  BY <1>1, <1>2, WriteInv DEF InsertLedger
<1>3. CASE InsertTransactions(Live)
  BY <1>1, <1>3, WriteInv DEF InsertTransactions
<1>4. CASE InsertOperations(Live)
  BY <1>1, <1>4, WriteInv DEF InsertOperations
<1>5. CASE InsertTokenEvents(Live)
  BY <1>1, <1>5, WriteInv DEF InsertTokenEvents
<1>6. CASE InsertContractEvents(Live)
  BY <1>1, <1>6, WriteInv DEF InsertContractEvents
<1>7. CASE AdvanceCursor(Live)
  BY <1>1, <1>7, AdvanceCursorInv
<1>8. CASE PublishLedger(Live)
  BY <1>1, <1>8, PublishLedgerInv
<1>9. CASE PublishTransactions(Live)
  BY <1>1, <1>9, PublishTransactionsInv
<1>. QED
  BY <1>1, <1>2, <1>3, <1>4, <1>5, <1>6, <1>7, <1>8, <1>9 DEF ProcessOneLedger

-----------------------------------------------------------------------------
(* The steps of Run.                                                        *)

\* A step that touches neither the tables nor the messages keeps what they say;
\* it has to keep the process where its position says it is.
LEMMA ControlFrame ==
  ASSUME IInv, UNCHANGED <<storeVars, published>>,
         TypeOK', Bounds', TailPosition', FillPosition',
         \/ step'[Live] = "idle"
         \/ UNCHANGED <<step, led>>
         \/ /\ step'[Live] = "ledgers" /\ led'[Live] \in Ledgers
            /\ ~ HasRow(led'[Live]) \/ led'[Live] > ingested
  PROVE  IInv'
<1>1. UNCHANGED <<rows, ingested, origin, published>>
  BY DEF storeVars
<1>2. TailContiguous' /\ PublishedComplete' /\ PublishedOnce'
  BY <1>1 DEF IInv, TailContiguous, PublishedComplete, PublishedOnce, Complete
<1>3. Written' /\ Unpublished'
  <2>1. CASE step'[Live] = "idle"
    BY <2>1 DEF Written, WrittenBefore, Unpublished, WriteSteps, Tables, KeyedTables,
                SerialTables
  <2>2. CASE UNCHANGED <<step, led>>
    BY <2>2, <1>1 DEF IInv, Written, Unpublished
  <2>3. CASE /\ step'[Live] = "ledgers" /\ led'[Live] \in Ledgers
             /\ ~ HasRow(led'[Live]) \/ led'[Live] > ingested
    <3>1. \A c \in Channels : published[c][led'[Live]] = 0
      BY <2>3, UnannouncedFacts
    <3>. QED  BY <2>3, <3>1, <1>1 DEF Written, WrittenBefore, Unpublished, Channels
  <2>. QED  BY <2>1, <2>2, <2>3
<1>. QED  BY <1>2, <1>3 DEF IInv

\* The tail round up to the fetch, and its end.
LEMMA TailInv ==
  ASSUME IInv, Tail
  PROVE  IInv'
<1>. USE MaxLedgerAssumption, BatchSizeAssumption, LiveAssumption
     DEF IInv, Goto, liveVars, procVars, storeVars
<1>1. CASE GetLatestLedger
  <2>1. TypeOK' /\ Bounds' /\ TailPosition' /\ FillPosition'
    BY <1>1 DEF GetLatestLedger, TypeOK, StoreTypeOK, ProcTypeOK, LiveTypeOK, PCs,
                Bounds, TailPosition, FillPosition, HasRow, Ledgers
  <2>. QED  BY <1>1, <2>1, ControlFrame DEF GetLatestLedger
<1>2. CASE ResumeFromCursor
  <2>1. step' = step /\ step[Live] = "idle" /\ target \in Ledgers /\ ingested \in Nat
    BY <1>2 DEF ResumeFromCursor, Bounds, TypeOK, StoreTypeOK
  <2>2. TypeOK' /\ Bounds' /\ TailPosition' /\ FillPosition'
    BY <1>2, <2>1 DEF ResumeFromCursor, UpToDate, LastIngested, TypeOK, StoreTypeOK,
         ProcTypeOK, LiveTypeOK, PCs, Bounds, TailPosition, FillPosition, HasRow, Ledgers
  <2>. QED  BY <1>2, <2>1, <2>2, ControlFrame DEF ResumeFromCursor
<1>3. CASE FetchBatch
  <2>1. PICK count \in 1 .. Smaller(BatchSize, target - next + 1) :
          Begin(Live, next, next + count - 1)
    BY <1>3 DEF FetchBatch
  <2>2. /\ target \in Ledgers /\ next \in Ledgers /\ next <= target
        /\ count \in Int /\ 1 <= count /\ next + count - 1 <= target
    BY <1>3, <2>1 DEF FetchBatch, Smaller, Bounds, TypeOK, LiveTypeOK, Ledgers
  <2>3. next + count - 1 \in Ledgers /\ next <= next + count - 1
    BY <2>2 DEF Ledgers
  <2>4. /\ step'[Live] = "ledgers" /\ led'[Live] = next /\ upto'[Live] = next + count - 1
        /\ "ledgers" \in Steps /\ "ledgers" \in WriteSteps
        /\ led' \in [Procs -> Ledgers] /\ upto' \in [Procs -> Ledgers]
        /\ step' \in [Procs -> Steps]
    BY <2>1, <2>2, <2>3
       DEF Begin, TypeOK, ProcTypeOK, Steps, WriteSteps, Tables, KeyedTables
  <2>5. ingested # 0 => next = ingested + 1
    BY <1>3 DEF FetchBatch, TailPosition
  <2>6. TypeOK'
    BY <1>3, <2>1, <2>4 DEF FetchBatch, Begin, TypeOK, StoreTypeOK, ProcTypeOK, LiveTypeOK, PCs
  <2>7. Bounds' /\ TailPosition'
    BY <1>3, <2>2, <2>3, <2>4, <2>5 DEF FetchBatch, Bounds, TailPosition
  <2>8. FillPosition'
    BY <1>3 DEF FetchBatch, FillPosition
  <2>9. led'[Live] > ingested
    BY <2>2, <2>4, <2>5 DEF TypeOK, StoreTypeOK, Ledgers
  <2>. QED
    BY <1>3, <2>1, <2>2, <2>4, <2>6, <2>7, <2>8, <2>9, ControlFrame DEF FetchBatch, Begin
<1>4. CASE FetchRefused
  <2>1. TypeOK' /\ Bounds' /\ TailPosition' /\ FillPosition'
    BY <1>4 DEF FetchRefused, TypeOK, StoreTypeOK, ProcTypeOK, LiveTypeOK, PCs, Bounds,
                TailPosition, FillPosition
  <2>. QED  BY <1>4, <2>1, ControlFrame DEF FetchRefused
<1>5. CASE BatchDone
  <2>1. /\ upto[Live] \in Ledgers /\ upto[Live] = ingested /\ upto[Live] <= target
        /\ target \in 0 .. MaxLedger
    BY <1>5 DEF BatchDone, Bounds, TailPosition, TypeOK, ProcTypeOK, LiveTypeOK
  <2>2. TypeOK' /\ Bounds' /\ TailPosition' /\ FillPosition'
    BY <1>5, <2>1 DEF BatchDone, TypeOK, StoreTypeOK, ProcTypeOK, LiveTypeOK, PCs, Bounds,
         TailPosition, FillPosition, Ledgers
  <2>. QED  BY <1>5, <2>1, <2>2, ControlFrame DEF BatchDone
<1>. QED  BY <1>1, <1>2, <1>3, <1>4, <1>5 DEF Tail

\* The gap scan.
LEMMA GapInv ==
  ASSUME IInv, Gap
  PROVE  IInv'
<1>. USE MaxLedgerAssumption, GapWindowAssumption, LiveAssumption
     DEF IInv, Goto, liveVars, procVars, storeVars
<1>1. CASE FindGaps
  <2>1. /\ target = ingested /\ ingested \in 0 .. MaxLedger /\ step[Live] = "idle"
        /\ GapScanStart \in Nat \ {0}
    BY <1>1 DEF FindGaps, GapScanStart, Bounds, FillPosition, TypeOK, StoreTypeOK, LiveTypeOK
  <2>2. \A l \in todo' : l \in GapScanStart .. target /\ ~ HasRow(l)
    BY <1>1 DEF FindGaps, FindMissingLedgerSequences
  <2>3. /\ todo' \subseteq Ledgers
        /\ \A l \in todo' : l <= ingested /\ ~ HasRow(l)
    BY <2>1, <2>2 DEF Ledgers
  <2>4. TypeOK' /\ Bounds' /\ TailPosition' /\ FillPosition'
    BY <1>1, <2>1, <2>3 DEF FindGaps, TypeOK, StoreTypeOK, ProcTypeOK, LiveTypeOK, PCs,
         Bounds, TailPosition, FillPosition, HasRow
  <2>. QED  BY <1>1, <2>4, ControlFrame DEF FindGaps
<1>2. CASE FetchGap
  <2>1. PICK first \in FirstRun, last \in FirstRun :
          /\ \A l \in FirstRun : first <= l
          /\ first <= last
          /\ Begin(Live, first, last)
    BY <1>2 DEF FetchGap
  <2>2. todo \subseteq Ledgers /\ \A l \in todo : l <= ingested /\ ~ HasRow(l)
    BY <1>2 DEF FetchGap, FillPosition, TypeOK, LiveTypeOK
  <2>3. first .. last \subseteq FirstRun /\ FirstRun \subseteq todo
    BY <2>1, <2>2, FirstRunContiguous
  <2>4. first \in Ledgers /\ last \in Ledgers /\ first \in Int /\ last \in Int
    BY <2>2, <2>3 DEF Ledgers
  <2>5. /\ step'[Live] = "ledgers" /\ led'[Live] = first /\ upto'[Live] = last
        /\ "ledgers" \in Steps
        /\ led' \in [Procs -> Ledgers] /\ upto' \in [Procs -> Ledgers]
        /\ step' \in [Procs -> Steps]
    BY <2>1, <2>4 DEF Begin, TypeOK, ProcTypeOK, Steps, WriteSteps, Tables, KeyedTables
  <2>6. TypeOK'
    BY <1>2, <2>1, <2>2, <2>5 DEF FetchGap, Begin, TypeOK, StoreTypeOK, ProcTypeOK,
         LiveTypeOK, PCs
  <2>7. Bounds' /\ TailPosition'
    BY <1>2, <2>1, <2>5 DEF FetchGap, Bounds, TailPosition
  <2>8. FillPosition'
    <3>1. \A l \in first .. last : l \in todo /\ l \notin todo' /\ ~ HasRow(l)'
      BY <1>2, <2>2, <2>3 DEF FetchGap, HasRow
    <3>2. \A l \in todo' : l <= ingested' /\ ~ HasRow(l)'
      BY <1>2, <2>2 DEF FetchGap, HasRow
    <3>3. first \in first .. last /\ last \in first .. last
          /\ first + 1 .. last \subseteq first .. last
      BY <2>1, <2>4
    <3>. QED  BY <1>2, <2>2, <2>5, <3>1, <3>2, <3>3 DEF FetchGap, FillPosition
  <2>9. ~ HasRow(led'[Live])
    BY <2>2, <2>3, <2>5 DEF FirstRun
  <2>. QED
    BY <1>2, <2>1, <2>4, <2>5, <2>6, <2>7, <2>8, <2>9, ControlFrame DEF FetchGap, Begin
<1>3. CASE GapRefused
  <2>1. TypeOK' /\ Bounds' /\ TailPosition' /\ FillPosition'
    BY <1>3 DEF GapRefused, TypeOK, StoreTypeOK, ProcTypeOK, LiveTypeOK, PCs, Bounds,
                TailPosition, FillPosition
  <2>. QED  BY <1>3, <2>1, ControlFrame DEF GapRefused
<1>4. CASE FillDone
  <2>1. TypeOK' /\ Bounds' /\ TailPosition' /\ FillPosition'
    BY <1>4 DEF FillDone, TypeOK, StoreTypeOK, ProcTypeOK, LiveTypeOK, PCs, Bounds,
                TailPosition, FillPosition, HasRow
  <2>. QED  BY <1>4, <2>1, ControlFrame DEF FillDone
<1>. QED  BY <1>1, <1>2, <1>3, <1>4 DEF Gap

\* The ticker, the failures and the chain.
LEMMA OtherInv ==
  ASSUME IInv, GapTick \/ Interrupt \/ GapFailure \/ CloseLedger
  PROVE  IInv'
<1>. USE MaxLedgerAssumption, LiveAssumption
     DEF IInv, Goto, Abandon, liveVars, procVars, storeVars
<1>1. CASE GapTick
  <2>1. TypeOK' /\ Bounds' /\ TailPosition' /\ FillPosition'
    BY <1>1 DEF GapTick, TypeOK, StoreTypeOK, ProcTypeOK, LiveTypeOK, PCs, Bounds,
                TailPosition, FillPosition
  <2>. QED  BY <1>1, <2>1, ControlFrame DEF GapTick
<1>2. CASE Interrupt \/ GapFailure
  <2>1. /\ step' = [step EXCEPT ![Live] = "idle"] /\ step'[Live] = "idle"
        /\ "idle" \in Steps /\ failures' = failures + 1 /\ failures < MaxFailures
        /\ todo' = {} /\ pc' \in {"select", "poll"}
        /\ UNCHANGED <<storeVars, led, upto, published, tip, target, next>>
    BY <1>2 DEF Interrupt, GapFailure, TypeOK, ProcTypeOK, Steps
  <2>2. TypeOK'
    BY <2>1, MaxFailuresAssumption DEF TypeOK, StoreTypeOK, ProcTypeOK, LiveTypeOK, PCs
  <2>3. Bounds' /\ TailPosition' /\ FillPosition'
    BY <2>1 DEF Bounds, TailPosition, FillPosition
  <2>. QED  BY <2>1, <2>2, <2>3, ControlFrame
<1>3. CASE CloseLedger
  <2>1. TypeOK' /\ Bounds' /\ TailPosition' /\ FillPosition'
    BY <1>3 DEF CloseLedger, TypeOK, StoreTypeOK, ProcTypeOK, LiveTypeOK, Ledgers, Bounds,
                TailPosition, FillPosition, HasRow
  <2>. QED  BY <1>3, <2>1, ControlFrame DEF CloseLedger
<1>. QED  BY <1>1, <1>2, <1>3

-----------------------------------------------------------------------------
(* The theorems.                                                            *)

\* The invariant holds of empty tables and an idle pipeline.
LEMMA InitInv == Init => IInv
BY MaxLedgerAssumption, MaxFailuresAssumption, LiveAssumption
   DEF Init, StoreInit, ProcInit, LiveInit, IInv, TypeOK, StoreTypeOK, ProcTypeOK,
       LiveTypeOK, Ledgers, Steps, PCs, Channels, Bounds, TailPosition, FillPosition,
       Written, WrittenBefore, Unpublished, WriteSteps, Tables, KeyedTables, SerialTables,
       TailContiguous, PublishedComplete, PublishedOnce

\* Every step preserves it: one of the chain, of the pipeline, or none.
LEMMA NextInv == IInv /\ [Next]_vars => IInv'
<1>. SUFFICES ASSUME IInv, [Next]_vars PROVE IInv'
  OBVIOUS
<1>1. CASE Next
  BY <1>1, TailInv, GapInv, ProcessInv, OtherInv DEF Next, LiveStep
<1>2. CASE UNCHANGED vars
  <2>1. TypeOK' /\ Bounds' /\ TailPosition' /\ FillPosition'
    BY <1>2 DEF vars, storeVars, procVars, liveVars, IInv, TypeOK, StoreTypeOK, ProcTypeOK,
         LiveTypeOK, Bounds, TailPosition, FillPosition, HasRow
  <2>. QED  BY <1>2, <2>1, ControlFrame DEF vars, procVars
<1>. QED  BY <1>1, <1>2

\* It holds throughout.
LEMMA Invariance == Spec => []IInv
BY InitInv, NextInv, PTL DEF Spec

\* The variables of the live pipeline, of its ledger in progress and of the
\* tables keep their types.
THEOREM LiveTypeCorrect == Spec => []TypeOK
<1>1. IInv => TypeOK
  BY DEF IInv
<1>. QED  BY <1>1, Invariance, PTL

\* From the first ledger it finished up to its cursor the live indexer has every
\* ledger with all its batches, whatever failed and however often.
THEOREM LiveTailContiguous == Spec => []TailContiguous
<1>1. IInv => TailContiguous
  BY DEF IInv
<1>. QED  BY <1>1, Invariance, PTL

\* A ledger is announced only when all of it is in the tables and the cursor has
\* reached it.
THEOREM LivePublishedComplete == Spec => []PublishedComplete
<1>1. IInv => PublishedComplete
  BY DEF IInv
<1>. QED  BY <1>1, Invariance, PTL

\* No ledger is announced twice on a channel.
THEOREM LivePublishedOnce == Spec => []PublishedOnce
<1>1. IInv => PublishedOnce
  BY DEF IInv
<1>. QED  BY <1>1, Invariance, PTL

-----------------------------------------------------------------------------
(* Batches are stored once as long as nothing fails.  The tail has stored   *)
(* nothing above the cursor but the ledger at hand, and the gap scan works  *)
(* on ledgers without a row, which have no batch at all.                    *)

\* The row of a ledger is the first thing that is stored of it.
RowFirst ==
  \A l \in Ledgers, t \in Tables : rows[l][t] > 0 => HasRow(l)

\* Above the cursor there is only what the tail has written of its ledger.
NothingAhead ==
  \A l \in Ledgers :
    l > ingested /\ HasRow(l) =>
      pc = "batch" /\ l = led[Live] /\ step[Live] \in WriteSteps \ {"ledgers"}

\* What is still to be written of the ledger at hand is not there yet.
Unwritten ==
  \A t \in Tables \ WrittenBefore(step[Live]) :
    step[Live] \in WriteSteps => rows[led[Live]][t] = 0

OnceInv ==
  /\ RowFirst
  /\ failures = 0 => NothingAhead /\ Unwritten
  /\ DuplicatesNeedFailure

\* Where neither tables nor cursor change, a process that stands still or goes
\* to a ledger without a row keeps all of it.
LEMMA OnceFrame ==
  ASSUME IInv, OnceInv, failures' = 0 => failures = 0, UNCHANGED <<rows, ingested>>,
         failures' = 0 => \/ UNCHANGED <<pc, step, led>>
                          \/ /\ step[Live] \notin WriteSteps \ {"ledgers"}
                             /\ \/ step'[Live] \notin WriteSteps
                                \/ step'[Live] = "ledgers" /\ led'[Live] \in Ledgers
                                   /\ ~ HasRow(led'[Live])
  PROVE  OnceInv'
<1>1. /\ \A l \in Ledgers : HasRow(l)' = HasRow(l)
      /\ \A l \in Ledgers, t \in Tables : rows[l][t] \in 0 .. 2
  BY DEF HasRow, IInv, TypeOK, StoreTypeOK
<1>2. RowFirst' /\ DuplicatesNeedFailure'
  BY <1>1 DEF OnceInv, RowFirst, DuplicatesNeedFailure
<1>3. ASSUME failures' = 0 PROVE NothingAhead' /\ Unwritten'
  <2>1. NothingAhead /\ Unwritten
    BY <1>3 DEF OnceInv
  <2>2. CASE UNCHANGED <<pc, step, led>>
    BY <2>1, <2>2, <1>1 DEF NothingAhead, Unwritten
  <2>3. CASE /\ step[Live] \notin WriteSteps \ {"ledgers"}
             /\ \/ step'[Live] \notin WriteSteps
                \/ step'[Live] = "ledgers" /\ led'[Live] \in Ledgers /\ ~ HasRow(led'[Live])
    <3>1. NothingAhead'
      BY <2>1, <2>3, <1>1 DEF NothingAhead
    <3>2. Unwritten'
      BY <2>3, <1>1 DEF Unwritten, OnceInv, RowFirst
    <3>. QED  BY <3>1, <3>2
  <2>. QED  BY <1>3, <2>2, <2>3
<1>. QED  BY <1>2, <1>3 DEF OnceInv

\* A batch is inserted for the first time, and only the tail inserts above the
\* cursor.
LEMMA OnceWrite ==
  ASSUME IInv, OnceInv, pc \in {"batch", "fill"},
         NEW t \in Tables, NEW nxt \in WriteSteps \ {"ledgers"},
         t = "ledgers" \/ "ledgers" \in WrittenBefore(t),
         WrittenBefore(nxt) = WrittenBefore(t) \cup {t}, t \notin WrittenBefore(t),
         Write(Live, t, nxt), UNCHANGED liveVars
  PROVE  OnceInv'
<1>1. /\ Live \in Procs /\ led[Live] \in Ledgers /\ step[Live] = t
      /\ InsertBatch(t, led[Live])
      /\ step'[Live] = nxt /\ t \in WriteSteps /\ "ledgers" \in Tables
      /\ UNCHANGED <<led, upto, ingested, pc, failures>>
  BY LiveAssumption
     DEF Write, InsertBatch, liveVars, IInv, TypeOK, ProcTypeOK, WriteSteps, Tables, KeyedTables
<1>2. /\ rows' \in [Ledgers -> [Tables -> 0 .. 2]]
      /\ rows'[led[Live]][t] > 0
      /\ \A k \in Ledgers \ {led[Live]} : rows'[k] = rows[k]
      /\ \A u \in Tables \ {t} : rows'[led[Live]][u] = rows[led[Live]][u]
  BY <1>1, InsertBatchFacts DEF IInv, TypeOK
<1>3. HasRow(led[Live])'
  BY <1>1, <1>2 DEF IInv, Written, HasRow
<1>4. \A k \in Ledgers \ {led[Live]} : HasRow(k)' = HasRow(k)
  BY <1>2 DEF HasRow
<1>5. RowFirst'
  BY <1>2, <1>3, <1>4, <1>1 DEF OnceInv, RowFirst
<1>6. ASSUME failures' = 0
      PROVE  NothingAhead' /\ Unwritten' /\ rows'[led[Live]][t] <= 1
  <2>1. NothingAhead /\ Unwritten
    BY <1>1, <1>6 DEF OnceInv
  <2>2. rows'[led[Live]][t] <= 1
    BY <2>1, <1>1 DEF Unwritten, InsertBatch, CopiesAfterInsert, IInv, TypeOK, StoreTypeOK
  <2>3. pc = "fill" => led[Live] <= ingested
    BY <1>1, LiveAssumption, MaxLedgerAssumption
       DEF IInv, FillPosition, Bounds, TypeOK, ProcTypeOK, StoreTypeOK, Ledgers
  <2>4. NothingAhead'
    BY <2>1, <2>3, <1>1, <1>4, MaxLedgerAssumption
       DEF NothingAhead, IInv, TypeOK, StoreTypeOK, Ledgers
  <2>5. Unwritten'
    BY <2>1, <1>1, <1>2 DEF Unwritten
  <2>. QED  BY <2>2, <2>4, <2>5
<1>7. DuplicatesNeedFailure'
  BY <1>1, <1>2, <1>6 DEF OnceInv, DuplicatesNeedFailure
<1>. QED  BY <1>5, <1>6, <1>7 DEF OnceInv

\* The cursor reaches the ledger at hand, and nothing lies above it any more.
LEMMA OnceCursor ==
  ASSUME IInv, OnceInv, pc \in {"batch", "fill"}, AdvanceCursor(Live), UNCHANGED liveVars
  PROVE  OnceInv'
<1>1. /\ led[Live] \in Ledgers /\ step[Live] = "cursor"
      /\ SetLastIngestedLedger(led[Live])
      /\ step'[Live] = "publish_ledger" /\ "publish_ledger" \notin WriteSteps
      /\ UNCHANGED <<led, rows, pc, failures>>
  BY LiveAssumption
     DEF AdvanceCursor, liveVars, IInv, TypeOK, ProcTypeOK, WriteSteps, Tables, KeyedTables,
         SerialTables
<1>2. ingested' \in Ledgers /\ ingested' >= ingested /\ ingested' >= led[Live]
  BY <1>1, SetLastIngestedLedgerFacts DEF IInv, TypeOK
<1>3. \A l \in Ledgers : HasRow(l)' = HasRow(l)
  BY <1>1 DEF HasRow
<1>4. RowFirst' /\ DuplicatesNeedFailure'
  BY <1>1, <1>3 DEF OnceInv, RowFirst, DuplicatesNeedFailure
<1>5. ASSUME failures' = 0 PROVE NothingAhead' /\ Unwritten'
  <2>1. NothingAhead
    BY <1>1, <1>5 DEF OnceInv
  <2>2. \A l \in Ledgers : ~ (l > ingested' /\ HasRow(l))
    BY <2>1, <1>1, <1>2, MaxLedgerAssumption DEF NothingAhead, IInv, TypeOK, StoreTypeOK, Ledgers
  <2>. QED  BY <2>2, <1>1, <1>3 DEF NothingAhead, Unwritten
<1>. QED  BY <1>4, <1>5 DEF OnceInv

LEMMA OnceProcess ==
  ASSUME IInv, OnceInv, Process
  PROVE  OnceInv'
<1>1. pc \in {"batch", "fill"} /\ ProcessOneLedger(Live) /\ UNCHANGED liveVars
  BY DEF Process
<1>2. CASE \/ InsertLedger(Live) \/ InsertTransactions(Live) \/ InsertOperations(Live)
           \/ InsertTokenEvents(Live) \/ InsertContractEvents(Live)
  <2>. USE DEF WriteSteps, Tables, KeyedTables, SerialTables, WrittenBefore
  <2>1. CASE InsertLedger(Live)
    BY <1>1, <2>1, OnceWrite DEF InsertLedger
  <2>2. CASE InsertTransactions(Live)
    BY <1>1, <2>2, OnceWrite DEF InsertTransactions
  <2>3. CASE InsertOperations(Live)
    BY <1>1, <2>3, OnceWrite DEF InsertOperations
  <2>4. CASE InsertTokenEvents(Live)
    BY <1>1, <2>4, OnceWrite DEF InsertTokenEvents
  <2>5. CASE InsertContractEvents(Live)
    BY <1>1, <2>5, OnceWrite DEF InsertContractEvents
  <2>. QED  BY <1>2, <2>1, <2>2, <2>3, <2>4, <2>5
<1>3. CASE AdvanceCursor(Live)
  BY <1>1, <1>3, OnceCursor
<1>4. CASE PublishLedger(Live)
  <2>1. /\ step[Live] = "publish_ledger" /\ step'[Live] = "publish_transactions"
        /\ UNCHANGED <<rows, ingested, failures>>
    BY <1>1, <1>4, LiveAssumption DEF PublishLedger, liveVars, storeVars, IInv, TypeOK, ProcTypeOK
  <2>. QED  BY <2>1, OnceFrame DEF WriteSteps, Tables, KeyedTables, SerialTables
<1>5. CASE PublishTransactions(Live)
  <2>1. /\ step[Live] = "publish_transactions" /\ Return(Live)
        /\ UNCHANGED <<rows, ingested, pc, failures>>
    BY <1>1, <1>5 DEF PublishTransactions, liveVars, storeVars
  <2>2. /\ led' \in [Procs -> Ledgers]
        /\ \/ step'[Live] = "ledgers" /\ led'[Live] = led[Live] + 1 /\ led[Live] < upto[Live]
           \/ step'[Live] = "idle"
    BY <2>1, ReturnFacts DEF IInv, TypeOK, Bounds
  <2>3. /\ Live \in Procs /\ led[Live] \in Ledgers /\ upto[Live] \in Ledgers
        /\ ingested \in 0 .. MaxLedger
    BY LiveAssumption DEF IInv, TypeOK, ProcTypeOK, StoreTypeOK
  <2>4. ASSUME failures = 0, step'[Live] = "ledgers" PROVE ~ HasRow(led'[Live])
    <3>1. CASE pc = "fill"
      BY <3>1, <2>2, <2>3, <2>4, MaxLedgerAssumption DEF IInv, FillPosition, Ledgers
    <3>2. CASE pc = "batch"
      <4>1. led[Live] = ingested
        BY <3>2, <2>1 DEF IInv, TailPosition
      <4>2. led'[Live] \in Ledgers /\ led'[Live] > ingested
        BY <4>1, <2>2, <2>3, <2>4, MaxLedgerAssumption DEF Ledgers
      <4>. QED
        BY <4>2, <2>1, <2>4 DEF OnceInv, NothingAhead, WriteSteps, Tables, KeyedTables, SerialTables
    <3>. QED  BY <3>1, <3>2, <1>1
  <2>. QED
    BY <2>1, <2>2, <2>3, <2>4, OnceFrame DEF WriteSteps, Tables, KeyedTables, SerialTables
<1>. QED  BY <1>1, <1>2, <1>3, <1>4, <1>5 DEF ProcessOneLedger

LEMMA OnceControl ==
  ASSUME IInv, OnceInv, Tail \/ Gap \/ GapTick \/ Interrupt \/ GapFailure \/ CloseLedger
  PROVE  OnceInv'
<1>. USE DEF Goto, liveVars, procVars, storeVars
<1>1. failures \in Nat /\ Live \in Procs /\ "ledgers" \in WriteSteps /\ "idle" \notin WriteSteps
  BY LiveAssumption, MaxFailuresAssumption
     DEF IInv, TypeOK, LiveTypeOK, WriteSteps, Tables, KeyedTables, SerialTables
<1>2. CASE Interrupt \/ GapFailure
  <2>1. failures' = failures + 1 /\ UNCHANGED <<rows, ingested>>
    BY <1>2 DEF Interrupt, GapFailure
  <2>. QED  BY <2>1, <1>1, OnceFrame
<1>3. CASE FetchBatch
  <2>1. PICK count \in 1 .. Smaller(BatchSize, target - next + 1) :
          Begin(Live, next, next + count - 1)
    BY <1>3 DEF FetchBatch
  <2>2. /\ step[Live] = "idle" /\ next <= target /\ target \in Ledgers
        /\ next \in 1 .. MaxLedger + 1 /\ ingested \in 0 .. MaxLedger
        /\ ingested # 0 => next = ingested + 1
    BY <1>3 DEF FetchBatch, IInv, Bounds, TailPosition, TypeOK, LiveTypeOK, StoreTypeOK
  <2>3. /\ led'[Live] = next /\ step'[Live] = "ledgers"
        /\ UNCHANGED <<rows, ingested, failures>>
    BY <1>3, <2>1, <1>1 DEF FetchBatch, Begin, IInv, TypeOK, ProcTypeOK
  <2>4. next \in Ledgers /\ next > ingested
    BY <2>2, MaxLedgerAssumption DEF Ledgers
  <2>5. failures = 0 => ~ HasRow(next)
    BY <1>3, <2>4 DEF OnceInv, NothingAhead, FetchBatch
  <2>. QED  BY <2>2, <2>3, <2>4, <2>5, <1>1, OnceFrame
<1>4. CASE FetchGap
  <2>1. PICK first \in FirstRun, last \in FirstRun : Begin(Live, first, last)
    BY <1>4 DEF FetchGap
  <2>2. first \in todo
    BY <2>1 DEF FirstRun
  <2>3. first \in Ledgers /\ ~ HasRow(first) /\ step[Live] = "idle"
    BY <1>4, <2>2 DEF FetchGap, IInv, FillPosition, Bounds, TypeOK, LiveTypeOK
  <2>4. /\ led'[Live] = first /\ step'[Live] = "ledgers"
        /\ UNCHANGED <<rows, ingested, failures>>
    BY <1>4, <2>1, <1>1 DEF FetchGap, Begin, IInv, TypeOK, ProcTypeOK
  <2>. QED  BY <2>3, <2>4, <1>1, OnceFrame
<1>5. CASE \/ GetLatestLedger \/ ResumeFromCursor \/ FetchRefused \/ BatchDone
           \/ FindGaps \/ GapRefused \/ FillDone \/ GapTick \/ CloseLedger
  <2>1. /\ UNCHANGED <<rows, ingested, failures, step, led>>
        /\ UNCHANGED pc \/ step[Live] = "idle"
    BY <1>5 DEF GetLatestLedger, ResumeFromCursor, FetchRefused, BatchDone, FindGaps, GapRefused,
                FillDone, GapTick, CloseLedger, IInv, Bounds
  <2>. QED  BY <2>1, <1>1, OnceFrame
<1>. QED  BY <1>2, <1>3, <1>4, <1>5 DEF Tail, Gap

\* A live indexer that never failed, on its own, has stored each batch once.
THEOREM LiveStoresOnce == Spec => []DuplicatesNeedFailure
<1>1. Init => OnceInv
  <2>1. ASSUME Init
        PROVE  /\ \A l \in Ledgers, t \in Tables : rows[l][t] = 0
               /\ step[Live] = "idle" /\ "idle" \notin WriteSteps /\ "ledgers" \in Tables
    BY <2>1, LiveAssumption
       DEF Init, StoreInit, ProcInit, LiveInit, WriteSteps, Tables, KeyedTables, SerialTables
  <2>. QED
    BY <2>1 DEF OnceInv, RowFirst, NothingAhead, Unwritten, DuplicatesNeedFailure, HasRow
<1>2. IInv /\ OnceInv /\ [Next]_vars => OnceInv'
  <2>1. ASSUME IInv, OnceInv, UNCHANGED vars PROVE OnceInv'
    BY <2>1, OnceFrame DEF vars, storeVars, procVars, liveVars
  <2>. QED  BY <2>1, OnceProcess, OnceControl DEF Next, LiveStep
<1>3. OnceInv => DuplicatesNeedFailure
  BY DEF OnceInv
<1>. QED  BY <1>1, <1>2, <1>3, Invariance, PTL DEF Spec

-----------------------------------------------------------------------------
(* Refinement: each step of the pipeline is a step of the abstract log or   *)
(* none.                                                                    *)

\* Control moves, the chain, failures and restarts are not seen in the log.
LEMMA LogStutters ==
  ASSUME UNCHANGED <<rows, ingested, origin, published>>
  PROVE  [Log!LogNext]_(Log!logVars)
<1>1. {l \in Ledgers : Complete(l)}' = {l \in Ledgers : Complete(l)}
  BY DEF Complete
<1>. QED  BY <1>1 DEF Log!logVars

\* A batch inserted stores the ledger if it was the last one missing.
LEMMA LogStores ==
  ASSUME IInv, NEW l \in Ledgers, NEW t \in Tables,
         InsertBatch(t, l), UNCHANGED published
  PROVE  [Log!LogNext]_(Log!logVars)
<1>1. /\ \A k \in Ledgers, u \in Tables : rows[k][u] > 0 => rows'[k][u] > 0
      /\ \A k \in Ledgers \ {l} : rows'[k] = rows[k]
  BY InsertBatchFacts DEF IInv, TypeOK
<1>2. UNCHANGED <<ingested, origin>>
  BY DEF InsertBatch
<1>3. /\ \A k \in Ledgers : Complete(k) => Complete(k)'
      /\ \A k \in Ledgers \ {l} : Complete(k)' = Complete(k)
  BY <1>1 DEF Complete
<1>4. CASE ~ Complete(l) /\ Complete(l)'
  <2>1. /\ {k \in Ledgers : Complete(k)}' = {k \in Ledgers : Complete(k)} \cup {l}
        /\ l \notin {k \in Ledgers : Complete(k)}
    BY <1>3, <1>4
  <2>2. Log!Store(l)
    BY <1>2, <2>1 DEF Log!Store
  <2>. QED  BY <2>2 DEF Log!LogNext
<1>5. CASE Complete(l) \/ ~ Complete(l)'
  <2>1. {k \in Ledgers : Complete(k)}' = {k \in Ledgers : Complete(k)}
    BY <1>3, <1>5
  <2>. QED  BY <1>2, <2>1 DEF Log!logVars
<1>. QED  BY <1>4, <1>5

\* The cursor goes to the next ledger, or a gap fill leaves it where it is.
LEMMA LogHeadMoves ==
  ASSUME IInv, pc \in {"batch", "fill"}, AdvanceCursor(Live), UNCHANGED liveVars
  PROVE  [Log!LogNext]_(Log!logVars)
<1>1. /\ Live \in Procs /\ led[Live] \in Ledgers /\ step[Live] = "cursor"
      /\ SetLastIngestedLedger(led[Live])
      /\ UNCHANGED <<rows, published>>
  BY LiveAssumption DEF AdvanceCursor, liveVars, IInv, TypeOK, ProcTypeOK
<1>2. Complete(led[Live])
  BY <1>1 DEF IInv, Written, WrittenBefore, Complete
<1>3. {k \in Ledgers : Complete(k)}' = {k \in Ledgers : Complete(k)}
  BY <1>1 DEF Complete
<1>4. CASE ingested < led[Live]
  <2>1. led[Live] \in Int /\ ingested \in Nat /\ led[Live] <= upto[Live]
    BY <1>1 DEF IInv, TypeOK, StoreTypeOK, Bounds, Ledgers
  <2>2. pc # "fill"
    BY <2>1, <1>4, LiveAssumption DEF IInv, FillPosition, TypeOK, ProcTypeOK, Ledgers
  <2>3. ingested = 0 \/ led[Live] = ingested + 1
    BY <2>2, <1>1 DEF IInv, TailPosition, WriteSteps
  <2>4. /\ ingested' = led[Live]
        /\ origin' = IF ingested = 0 THEN led[Live] ELSE origin
    BY <1>1, <1>4 DEF SetLastIngestedLedger
  <2>5. Log!MoveHead(led[Live])
    BY <1>1, <1>2, <1>3, <2>3, <2>4 DEF Log!MoveHead
  <2>. QED  BY <1>1, <2>5 DEF Log!LogNext
<1>5. CASE ~ ingested < led[Live]
  <2>1. ingested # 0
    BY <1>1, <1>5 DEF Ledgers
  <2>2. ingested' = ingested /\ origin' = origin
    BY <2>1, <1>1, <1>5 DEF SetLastIngestedLedger
  <2>. QED  BY <2>2, <1>1, LogStutters
<1>. QED  BY <1>4, <1>5

\* A message that reaches the server announces a ledger, for the first time.
LEMMA LogAnnounces ==
  ASSUME IInv, NEW c \in Channels, NEW l \in Ledgers, published[c][l] = 0,
         Deliver(c, l), Complete(l), l <= ingested, UNCHANGED storeVars
  PROVE  [Log!LogNext]_(Log!logVars)
<1>1. UNCHANGED <<rows, ingested, origin>>
  BY DEF storeVars
<1>2. CASE UNCHANGED published
  BY <1>1, <1>2, LogStutters
<1>3. CASE published' = [published EXCEPT ![c][l] = IF @ = 0 THEN 1 ELSE 2]
  <2>1. published' = [published EXCEPT ![c][l] = 1]
    BY <1>3
  <2>2. {k \in Ledgers : Complete(k)}' = {k \in Ledgers : Complete(k)}
    BY <1>1 DEF Complete
  <2>3. Log!Announce(c, l)
    BY <1>1, <2>1, <2>2 DEF Log!Announce
  <2>. QED  BY <2>3 DEF Log!LogNext
<1>. QED  BY <1>2, <1>3 DEF Deliver

\* Announcing, as the pipeline does it on either channel.
LEMMA PublishesToLog ==
  ASSUME IInv, pc \in {"batch", "fill"}, UNCHANGED liveVars,
         PublishLedger(Live) \/ PublishTransactions(Live)
  PROVE  [Log!LogNext]_(Log!logVars)
<1>1. /\ Live \in Procs /\ led[Live] \in Ledgers /\ UNCHANGED storeVars
      /\ step[Live] \in {"publish_ledger", "publish_transactions"}
  BY LiveAssumption DEF PublishLedger, PublishTransactions, IInv, TypeOK, ProcTypeOK
<1>2. Complete(led[Live])
  BY <1>1 DEF IInv, Written, WrittenBefore, Complete
<1>3. led[Live] <= ingested
  BY <1>1, LiveAssumption, MaxLedgerAssumption
     DEF IInv, TailPosition, FillPosition, Bounds, TypeOK, ProcTypeOK, StoreTypeOK, Ledgers
<1>4. CASE PublishLedger(Live)
  <2>1. /\ Deliver("ledgers", led[Live]) /\ "ledgers" \in Channels
        /\ published["ledgers"][led[Live]] = 0
    BY <1>4 DEF PublishLedger, Channels, IInv, Unpublished
  <2>. QED  BY <2>1, <1>1, <1>2, <1>3, LogAnnounces
<1>5. CASE PublishTransactions(Live)
  <2>1. /\ Deliver("transactions", led[Live]) /\ "transactions" \in Channels
        /\ published["transactions"][led[Live]] = 0
    BY <1>5 DEF PublishTransactions, Channels, IInv, Unpublished
  <2>. QED  BY <2>1, <1>1, <1>2, <1>3, LogAnnounces
<1>. QED  BY <1>4, <1>5

LEMMA ProcessToLog ==
  ASSUME IInv, Process
  PROVE  [Log!LogNext]_(Log!logVars)
<1>1. /\ pc \in {"batch", "fill"} /\ ProcessOneLedger(Live) /\ UNCHANGED liveVars
      /\ led[Live] \in Ledgers
  BY LiveAssumption DEF Process, IInv, TypeOK, ProcTypeOK
<1>2. ASSUME NEW t \in Tables, NEW nxt, Write(Live, t, nxt)
      PROVE  [Log!LogNext]_(Log!logVars)
  BY <1>1, <1>2, LogStores DEF Write
<1>3. CASE InsertLedger(Live) \/ InsertTransactions(Live) \/ InsertOperations(Live)
  BY <1>2, <1>3 DEF InsertLedger, InsertTransactions, InsertOperations, Tables,
                    KeyedTables, SerialTables
<1>4. CASE InsertTokenEvents(Live) \/ InsertContractEvents(Live)
  BY <1>2, <1>4 DEF InsertTokenEvents, InsertContractEvents, Tables, SerialTables
<1>5. CASE AdvanceCursor(Live)
  BY <1>1, <1>5, LogHeadMoves
<1>6. CASE PublishLedger(Live) \/ PublishTransactions(Live)
  BY <1>1, <1>6, PublishesToLog
<1>. QED  BY <1>1, <1>3, <1>4, <1>5, <1>6 DEF ProcessOneLedger

LEMMA StepToLog ==
  ASSUME IInv, [Next]_vars
  PROVE  [Log!LogNext]_(Log!logVars)
<1>1. CASE Process
  BY <1>1, ProcessToLog
<1>2. CASE Tail \/ Gap \/ GapTick \/ Interrupt \/ GapFailure \/ CloseLedger \/ UNCHANGED vars
  <2>1. UNCHANGED <<rows, ingested, origin, published>>
    BY <1>2 DEF Tail, Gap, GapTick, Interrupt, GapFailure, CloseLedger, GetLatestLedger,
         ResumeFromCursor, FetchBatch, FetchRefused, BatchDone, FindGaps, FetchGap,
         GapRefused, FillDone, Begin, Abandon, vars, storeVars, procVars
  <2>. QED  BY <2>1, LogStutters
<1>. QED  BY <1>1, <1>2 DEF Next, LiveStep

\* The live indexer implements the log its readers and subscribers rely on:
\* whole ledgers only, never taken away, a head that moves one by one over
\* them, and announcements of what is there, once.
THEOREM LiveImplementsLog == Spec => ImplementsLog
<1>1. Init => Log!LogInit
  BY DEF Init, StoreInit, ProcInit, Log!LogInit, Complete, Tables, KeyedTables
<1>2. IInv /\ [Next]_vars => [Log!LogNext]_(Log!logVars)
  BY StepToLog
<1>. QED  BY <1>1, <1>2, Invariance, PTL DEF Spec, ImplementsLog, Log!LogSpec
=============================================================================
