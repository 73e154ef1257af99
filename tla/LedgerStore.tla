----------------------------- MODULE LedgerStore -----------------------------
(***************************************************************************)
(* The Postgres tables the ingestion pipelines write, and the ingestion    *)
(* cursor (tui-indexer/internal/store/postgres.go, migrations 000001-8).   *)
(*                                                                         *)
(* One ledger is one row of "ledgers" and one batch of rows in each of the *)
(* other tables.  A batch is committed in one SQL transaction, so it is    *)
(* there or not; what matters afterwards is how many times it is there.    *)
(* Every ledger is taken to carry transactions, operations and events: an  *)
(* empty batch is an early return that writes nothing and can lose nothing.*)
(***************************************************************************)
EXTENDS Integers, FiniteSets

CONSTANT MaxLedger      \* bound: the highest ledger sequence of the instance

ASSUME MaxLedgerAssumption == MaxLedger \in Nat \ {0}

VARIABLES
  rows,       \* rows[l][t]: copies of ledger l's batch in table t, 2 meaning "2 or more"
  ingested,   \* ingestion_state 'last_ingested_ledger', 0 when the row is absent
  origin      \* history: the first value the cursor had, 0 before it has one

storeVars == <<rows, ingested, origin>>

Ledgers == 1 .. MaxLedger

\* Tables with a unique key over the row's identity: ON CONFLICT absorbs a repeat.
KeyedTables == {"ledgers", "transactions"}

\* Tables whose only key is a BIGSERIAL id: a repeated batch is stored again
\* (operations says ON CONFLICT DO NOTHING, but has no key it could conflict on).
SerialTables == {"operations", "token_events", "contract_events"}

Tables == KeyedTables \cup SerialTables

StoreTypeOK ==
  /\ rows \in [Ledgers -> [Tables -> 0 .. 2]]
  /\ ingested \in 0 .. MaxLedger
  /\ origin \in 0 .. MaxLedger

StoreInit ==
  /\ rows = [l \in Ledgers |-> [t \in Tables |-> 0]]
  /\ ingested = 0
  /\ origin = 0

HasRow(l) == rows[l]["ledgers"] > 0

Complete(l) == \A t \in Tables : rows[l][t] > 0

-----------------------------------------------------------------------------
(* Mutated forms, each a plausible slip in the definition that follows it.  *)

SetCursorUnguarded(seq) ==
  /\ ingested' = seq
  /\ origin' = IF ingested = 0 THEN seq ELSE origin

-----------------------------------------------------------------------------

\* Copies of a batch in table t once it is inserted where n copies already are.
CopiesAfterInsert(t, n) == IF n = 0 \/ t \in KeyedTables THEN 1 ELSE 2

\* InsertLedger, InsertTransactionBatch, InsertOperationBatch,
\* InsertTokenEventBatch and InsertContractEventBatch.
InsertBatch(t, l) ==
  /\ rows' = [rows EXCEPT ![l][t] = CopiesAfterInsert(t, @)]
  /\ UNCHANGED <<ingested, origin>>

\* The upsert of the cursor: WHERE the stored value is smaller.
SetLastIngestedLedger(seq) ==
  /\ ingested' = IF ingested < seq THEN seq ELSE ingested
  /\ origin' = IF ingested = 0 THEN seq ELSE origin

\* The limit lowest sequences of lo..hi that have no ledger row.
FindMissingLedgerSequences(lo, hi, limit) ==
  LET missing == {l \in lo .. hi : ~ HasRow(l)}
  IN  {l \in missing : Cardinality({m \in missing : m < l}) < limit}
=============================================================================
