------------------------------- MODULE Indexer -------------------------------
(***************************************************************************)
(* A live indexer and a backfill on one database, two programs started     *)
(* from tui-indexer/cmd/tui-indexer/main.go that know nothing of each      *)
(* other.  They share the tables and the one ingestion cursor, which both  *)
(* move: the tail of the live pipeline goes on behind whatever ledger the  *)
(* backfill finished last, and its gap scan sees ledgers the backfill has  *)
(* not come to yet.                                                        *)
(***************************************************************************)
EXTENDS LivePipeline, BackfillPipeline

indexerVars == <<vars, backfillVars>>

IndexerInit == Init /\ BackfillInit

\* A backfill cannot fetch a ledger the network has not closed.
BackfillOfClosedLedgers ==
  /\ Backfill
  /\ \A w \in Workers : upto'[w] <= tip

IndexerNext ==
  \/ Next /\ UNCHANGED backfillVars
  \/ BackfillOfClosedLedgers /\ UNCHANGED liveVars

IndexerSpec == IndexerInit /\ [][IndexerNext]_indexerVars

\* The loops of the live pipeline go on, as they do alone; the backfill may stop
\* wherever it is, and the live pipeline cannot rely on it.
IndexerFairSpec == IndexerSpec /\ Fairness

-----------------------------------------------------------------------------
(* Properties.                                                              *)

\* Neither program failed, and the backfill was not started a second time.
NothingFailed ==
  /\ failures = 0 /\ runs <= 1
  /\ \A w \in Workers : wstate[w] \notin {"failed", "silent"}

\* The gap scan looks for ledgers without a row.  That finds every ledger with
\* something missing, wherever the two programs got in each other's way, as
\* long as a ledger that has its row and lacks a batch is one that some process
\* is writing.
HalfWrittenHasWriter ==
  NothingFailed =>
    \A l \in Ledgers :
      HasRow(l) /\ ~ Complete(l) =>
        \E p \in Procs : led[p] = l /\ step[p] \in WriteSteps \ {"ledgers", "cursor"}

\* A backfill that overlaps the live pipeline may store a batch twice, but only
\* of the ledgers it was asked for: no other ledger is touched by it, and what
\* the live pipeline skipped because of it is fetched once.  (A second run takes
\* up at the cursor, which the live pipeline may have put below the range.)
DuplicatesOnlyInBackfill ==
  (failures = 0 /\ runs <= 1) => \A l \in Ledgers \ wanted, t \in Tables : rows[l][t] <= 1
=============================================================================
