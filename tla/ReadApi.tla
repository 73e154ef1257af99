------------------------------- MODULE ReadApi --------------------------------
(***************************************************************************)
(* The read API (tui-indexer/internal/readapi/server.go) on the tables a   *)
(* live indexer writes: a handler makes its queries one after the other,   *)
(* each a statement of its own, while ProcessOneLedger makes its inserts.  *)
(*                                                                         *)
(* One client asks one thing at a time.  The entities it asks for are the  *)
(* ledgers, one transaction of each, and one contract, whose creation is   *)
(* in one of the ledgers and which the operation of each transaction calls *)
(* and answers with an event; a row is named by its ledger.  The contract  *)
(* has a row of its own, which a goroutine writes and no cursor waits for. *)
(*                                                                         *)
(* No program of this repository writes the tables of accounts, assets,    *)
(* effects and contract storage: pages of the first two are left out, and  *)
(* the queries for the others are made and find nothing.  Left out too:    *)
(* search; the decoding of operations and events, and what of the          *)
(* contract's spec is decoded, both in ContractSpecs; paging, in Backends. *)
(***************************************************************************)
EXTENDS LivePipeline, FiniteSetsExt

CONSTANT RecentLimit    \* rows of a recent list (10)

ASSUME RecentLimitAssumption == RecentLimit \in Nat \ {0}

VARIABLES
  request,        \* the request being handled
  answer,         \* the answer to the last request, until the next one starts
  known,          \* the highest cursor a summary or a health check has shown
  described       \* the contract's row of the table contracts is there

apiVars == <<request, answer, known, described>>
allVars == <<vars, apiVars>>

Nothing == [cursor |-> 0, latest |-> 0, tip |-> 0, row |-> {}, txs |-> {},
            ops |-> {}, events |-> {}, spec |-> FALSE]

\* promised: the ledgers the client has reason to expect, see Promised.
NoRequest == [op |-> "none", ledger |-> 0, promised |-> {}, at |-> 1, got |-> Nothing]
NoAnswer == [status |-> 0, op |-> "none", ledger |-> 0, promised |-> {}, got |-> Nothing]

ApiInit ==
  /\ Init
  /\ request = NoRequest
  /\ answer = NoAnswer
  /\ known = 0
  /\ described = FALSE

-----------------------------------------------------------------------------
(* The queries.                                                             *)

Having(t) == {l \in Ledgers : rows[l][t] > 0}

Top(S, n) == {l \in S : Cardinality({m \in S : m > l}) < n}

GetLatestLedgerSummary == Max({0} \cup Having("ledgers"))

GetLedgerSummaryBySequence(l) == {l} \cap Having("ledgers")

ListTransactionSummariesByLedger(l) == {l} \cap Having("transactions")

ListRecentTransactionSummaries == Top(Having("transactions"), RecentLimit)

GetTransactionByHash(l) == {l} \cap Having("transactions")

ListOperationsByTransactionHash(l) == {l} \cap Having("operations")

\* Transactions with an operation that names the contract: one that only has
\* an event of it, from a call inside another contract's, is not listed.
ListTransactionSummariesByContract ==
  Top(Having("operations") \cap Having("transactions"), RecentLimit)

ListContractEventSummariesByContractID == Top(Having("contract_events"), RecentLimit)

\* The contract's row, on the page of ledger l's request.
GetContractByID(l) == IF described THEN {l} ELSE {}

\* A join that starts at the contract's row; without it the page has no spec.
GetContractSpecByID == described

\* A summary row has its first operation beside it: LEFT JOIN LATERAL.
WithOperation(got, txs) == [got EXCEPT !.txs = txs, !.ops = txs \cap Having("operations")]

\* What is read so far, with the answer of one more query about ledger l.
Read(query, l, got) ==
  CASE query = "cursor"   -> [got EXCEPT !.cursor = ingested]
    [] query = "latest"   -> [got EXCEPT !.latest = GetLatestLedgerSummary]
    [] query = "tip"      -> [got EXCEPT !.tip = tip]
    [] query = "recent"   -> WithOperation(got, ListRecentTransactionSummaries)
    [] query = "ledger"   -> [got EXCEPT !.row = GetLedgerSummaryBySequence(l)]
    [] query = "transactions" -> WithOperation(got, ListTransactionSummariesByLedger(l))
    [] query = "transaction"      -> [got EXCEPT !.row = GetTransactionByHash(l)]
    [] query = "operations"   -> [got EXCEPT !.ops = ListOperationsByTransactionHash(l)]
    [] query \in {"effects", "storage"} -> got
    [] query = "contract" -> [got EXCEPT !.row = GetContractByID(l)]
    [] query = "calls"  -> WithOperation(got, ListTransactionSummariesByContract)
    [] query = "events" -> [got EXCEPT !.events = ListContractEventSummariesByContractID]
    [] query = "spec"   -> [got EXCEPT !.spec = GetContractSpecByID]

\* Queries whose empty answer is a 404.
MayLack == {"ledger", "transaction", "contract"}

-----------------------------------------------------------------------------
(* Mutated forms.                                                           *)

\* The cursor read after the rows.
QueriesCursorLast(op) ==
  CASE op = "summary"     -> <<"latest", "recent", "cursor">>
    [] op = "health"      -> <<"tip", "cursor">>
    [] op = "ledger"      -> <<"ledger", "transactions">>
    [] op = "transaction" -> <<"transaction", "operations", "effects">>
    [] op = "contract"    -> <<"contract", "calls", "events", "spec", "storage">>

-----------------------------------------------------------------------------
(* The handlers.                                                            *)

Operations == {"summary", "health", "ledger", "transaction", "contract"}

\* The queries of handleLiveFeedSummary, handleHealth, handleLedgerLookup,
\* handleTransactionLookup and handleContractLookup, in their order.
Queries(op) ==
  CASE op = "summary"     -> <<"cursor", "latest", "recent">>
    [] op = "health"      -> <<"cursor", "tip">>
    [] op = "ledger"      -> <<"ledger", "transactions">>
    [] op = "transaction" -> <<"transaction", "operations", "effects">>
    [] op = "contract"    -> <<"contract", "calls", "events", "spec", "storage">>

Announced == {l \in Ledgers : \E c \in Channels : published[c][l] > 0}

\* The client may expect a ledger that was announced, and one with an answer's
\* cursor at or above it; nothing promises the ledgers below the first one.
Promised == Announced \cup {l \in Ledgers : origin > 0 /\ l \in origin .. known}

Receive ==
  /\ request.op = "none"
  /\ \E op \in Operations, l \in Ledgers :
       /\ op \in {"summary", "health", "contract"} => l = 1
       /\ request' = [op |-> op, ledger |-> l, promised |-> Promised,
                      at |-> 1, got |-> Nothing]
  /\ answer' = NoAnswer
  /\ UNCHANGED <<vars, known, described>>

Reply(status, got) ==
  /\ answer' = [status |-> status, op |-> request.op, ledger |-> request.ledger,
                promised |-> request.promised, got |-> got]
  /\ known' = IF status = 200 /\ got.cursor > known THEN got.cursor ELSE known
  /\ request' = NoRequest
  /\ UNCHANGED <<vars, described>>

\* One query of the handler.
Query ==
  /\ request.op # "none"
  /\ LET query == Queries(request.op)[request.at]
         got   == Read(query, request.ledger, request.got)
     IN  IF query \in MayLack /\ got.row = {} THEN Reply(404, Nothing)
         ELSE IF request.at + 1 \notin DOMAIN Queries(request.op) THEN Reply(200, got)
         ELSE /\ request' = [request EXCEPT !.at = @ + 1, !.got = got]
              /\ UNCHANGED <<vars, answer, known, described>>

\* A query fails, or five seconds have passed; health says 503, the others 500.
Refuse ==
  /\ request.op # "none"
  /\ Reply(IF request.op = "health" THEN 503 ELSE 500, Nothing)

Serve == Receive \/ Query \/ Refuse

\* The goroutine of the ledger that creates the contract, started behind that
\* ledger's operations, has written the contract's row.  It may be slower than
\* any number of ledgers, and it may be lost: nothing waits for it.
ProcessContractSpec ==
  /\ ~ described
  /\ Having("operations") # {}
  /\ described' = TRUE
  /\ UNCHANGED <<vars, request, answer, known>>

ApiNext == Serve \/ ProcessContractSpec \/ (Next /\ UNCHANGED apiVars)

ApiSpec == ApiInit /\ [][ApiNext]_allVars

-----------------------------------------------------------------------------
(* Properties.                                                              *)

Answered(op) == answer.status = 200 /\ answer.op = op

\* The newest of the rows, down to what the list has no room for, are all
\* there that are promised.
Covers(list, promised) ==
  \A l \in promised : l \in list \/ Cardinality({m \in list : m > l}) >= RecentLimit

\* A summary has all that its own cursor covers: the ledger at the cursor is
\* not behind the latest ledger, and of the newest transactions none at or
\* below the cursor is missing or lacks its operation, although ledgers are
\* written between the three queries.  A row above the cursor may be half
\* written: its ledger without transactions, these without their operations.
SummaryCoversCursor ==
  Answered("summary") =>
    LET got == answer.got
    IN  /\ got.latest >= got.cursor
        /\ got.cursor > 0 => /\ Covers(got.txs, origin .. got.cursor)
                             /\ got.txs \cap (origin .. got.cursor) \subseteq got.ops

\* A ledger or a transaction that the stream announced, or that a cursor an
\* earlier answer showed covers, is found, and whole: the client caches what it
\* gets, and does not turn to another server.  Its call and its event are on
\* the contract's page, if there is one: the page of a contract may be missing
\* however many of its calls are promised, but one that is found is not put
\* together from calls and events and lacking the row it was found by.
PromisedIsWhole ==
  LET got == answer.got
  IN  /\ (answer.op \in {"ledger", "transaction"} /\ answer.ledger \in answer.promised) =>
           /\ answer.status # 404
           /\ answer.status = 200 => answer.ledger \in got.row \cap got.ops
      /\ Answered("contract") =>
           /\ Covers(got.txs, answer.promised)
           /\ Covers(got.events, answer.promised)
           /\ answer.promised \cap got.txs \subseteq got.ops
           /\ got.row # {} /\ got.spec
=============================================================================
