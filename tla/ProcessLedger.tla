---------------------------- MODULE ProcessLedger ----------------------------
(***************************************************************************)
(* ProcessOneLedger (tui-indexer/internal/pipeline/live.go), run by a set  *)
(* of processes: the live pipeline and the workers of a backfill.  Each    *)
(* database call is an action of its own, since other processes, an error  *)
(* or the end of the program may come between any two of them.             *)
(*                                                                         *)
(* A process works through the batch led[p] .. upto[p]; step[p] names the  *)
(* call it is about to make.  The transformations before the first write   *)
(* are pure: a ledger that cannot be transformed fails before that write,  *)
(* a transaction or an event that cannot is left out of its batch.         *)
(* The goroutines started for newly created contracts write other tables   *)
(* and are not part of this module.                                        *)
(***************************************************************************)
EXTENDS LedgerStore

CONSTANTS
  Procs,        \* the processes that run ProcessOneLedger
  Publishers    \* those whose pub argument is not nil

ASSUME PublishersAssumption == Publishers \subseteq Procs

VARIABLES
  step,         \* the next call of ProcessOneLedger, "idle" outside it
  led,          \* the ledger being processed
  upto,         \* the last ledger of the batch fetched
  published     \* messages Redis accepted, per channel and ledger, 2 for "2 or more"

procVars == <<step, led, upto, published>>

Channels == {"ledgers", "transactions"}

WriteSteps == Tables \cup {"cursor"}
Steps == WriteSteps \cup {"idle", "publish_ledger", "publish_transactions"}

ProcTypeOK ==
  /\ step \in [Procs -> Steps]
  /\ led \in [Procs -> Ledgers]
  /\ upto \in [Procs -> Ledgers]
  /\ published \in [Channels -> [Ledgers -> 0 .. 2]]

ProcInit ==
  /\ step = [p \in Procs |-> "idle"]
  /\ led = [p \in Procs |-> 1]
  /\ upto = [p \in Procs |-> 1]
  /\ published = [c \in Channels |-> [l \in Ledgers |-> 0]]

\* Start on the batch a fetch returned.
Begin(p, first, last) ==
  /\ step' = [step EXCEPT ![p] = "ledgers"]
  /\ led' = [led EXCEPT ![p] = first]
  /\ upto' = [upto EXCEPT ![p] = last]
  /\ UNCHANGED published

\* An error return, or the end of the program, between two calls.
Abandon(p) ==
  /\ step' = [step EXCEPT ![p] = "idle"]
  /\ UNCHANGED <<led, upto, published>>

\* ProcessOneLedger returned nil: the loop over the batch goes on, or is over.
Return(p) ==
  IF led[p] < upto[p]
  THEN /\ step' = [step EXCEPT ![p] = "ledgers"]
       /\ led' = [led EXCEPT ![p] = @ + 1]
       /\ UNCHANGED upto
  ELSE /\ step' = [step EXCEPT ![p] = "idle"]
       /\ UNCHANGED <<led, upto>>

Write(p, t, next) ==
  /\ step[p] = t
  /\ InsertBatch(t, led[p])
  /\ step' = [step EXCEPT ![p] = next]
  /\ UNCHANGED <<led, upto, published>>

\* What reaches the subscribers' server of one message: nothing if the call failed.
Deliver(c, l) ==
  \/ published' = [published EXCEPT ![c][l] = IF @ = 0 THEN 1 ELSE 2]
  \/ UNCHANGED published

-----------------------------------------------------------------------------
(* Mutated forms.                                                           *)

\* The cursor moved before the events are stored.
InsertOperationsCursorFirst(p) == Write(p, "operations", "cursor")

\* The ledger announced before its rows are complete.
InsertTransactionsPublishEarly(p) == Write(p, "transactions", "publish_ledger")

-----------------------------------------------------------------------------

InsertLedger(p) == Write(p, "ledgers", "transactions")
InsertTransactions(p) == Write(p, "transactions", "operations")
InsertOperations(p) == Write(p, "operations", "token_events")
InsertTokenEvents(p) == Write(p, "token_events", "contract_events")
InsertContractEvents(p) == Write(p, "contract_events", "cursor")

AdvanceCursor(p) ==
  /\ step[p] = "cursor"
  /\ SetLastIngestedLedger(led[p])
  /\ IF p \in Publishers
     THEN /\ step' = [step EXCEPT ![p] = "publish_ledger"]
          /\ UNCHANGED <<led, upto>>
     ELSE Return(p)
  /\ UNCHANGED <<rows, published>>

PublishLedger(p) ==
  /\ step[p] = "publish_ledger"
  /\ Deliver("ledgers", led[p])
  /\ step' = [step EXCEPT ![p] = "publish_transactions"]
  /\ UNCHANGED <<storeVars, led, upto>>

PublishTransactions(p) ==
  /\ step[p] = "publish_transactions"
  /\ Deliver("transactions", led[p])
  /\ Return(p)
  /\ UNCHANGED storeVars

\* The next call of ProcessOneLedger, whichever it is, succeeds.
ProcessOneLedger(p) ==
  \/ InsertLedger(p)
  \/ InsertTransactions(p)
  \/ InsertOperations(p)
  \/ InsertTokenEvents(p)
  \/ InsertContractEvents(p)
  \/ AdvanceCursor(p)
  \/ PublishLedger(p)
  \/ PublishTransactions(p)

-----------------------------------------------------------------------------
(* What the proofs say of a call in terms of the calls before it.           *)

\* The tables ProcessOneLedger has written when it is about to make call s.
WrittenBefore(s) ==
  CASE s = "transactions" -> {"ledgers"}
    [] s = "operations" -> {"ledgers", "transactions"}
    [] s = "token_events" -> {"ledgers", "transactions", "operations"}
    [] s = "contract_events" -> Tables \ {"contract_events"}
    [] s \in {"cursor", "publish_ledger", "publish_transactions"} -> Tables
    [] OTHER -> {}
=============================================================================
