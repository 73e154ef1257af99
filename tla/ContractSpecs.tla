--------------------------- MODULE ContractSpecs ----------------------------
(***************************************************************************)
(* Specs of contracts: how a contract that a ledger creates comes to have  *)
(* one in the database, in a goroutine that outlives the ledger, and how   *)
(* invocations and events are decoded with it, when they are stored and    *)
(* again whenever they are read (tui-indexer/internal/pipeline/live.go,    *)
(* transform/contract_spec.go, soroban_spec_enrich.go, read_spec_enrich.go,*)
(* spec_improved.go, store/spec_registry.go, spec_backfill.go,             *)
(* readapi/spec_enrich.go).                                                *)
(*                                                                         *)
(* The ledgers are those of one live indexer, one after the other; each    *)
(* call of the database or the RPC server is a step and may fail.  Module  *)
(* ProcessLedger has the other statements of a ledger.  A contract keeps   *)
(* its code: upgrades, which nothing detects, are left out.                *)
(***************************************************************************)
EXTENDS Integers, FiniteSets

CONSTANTS
  Contracts, Wasms,
  CodeOf,         \* the code of a contract; none of Wasms for an asset contract
  CreatedIn,      \* the ledger that creates it
  Specced,        \* the codes with a spec that can be parsed
  Items,          \* invocations and events: [kind, ledger, tx, contract, n]
  Best,           \* what decoding an item with its spec yields
  LastLedger,
  Readers,        \* requests the read API serves at the same time
  MaxFaults       \* bound: calls that fail, and crashes

Rank == [plain |-> 0, raw |-> 1, partial |-> 2, decoded |-> 3]
Statuses == {"plain", "raw", "partial", "decoded"}

ASSUME LedgersAssumption == LastLedger \in Nat /\ MaxFaults \in Nat /\ Specced \subseteq Wasms
ASSUME ItemsAssumption ==
  /\ Items \subseteq [kind : {"op", "event"}, ledger : 1 .. LastLedger, tx : Nat,
                      contract : Contracts, n : Nat]
  /\ Best \in [Items -> Statuses]

\* A row of operations or contract_events: what of it is decoded, and of which
\* item that was the decoding.
Rows == [item : Items, status : Statuses, of : Items]
Stored == {"none", "bare", "spec"}

VARIABLES
  contracts,      \* rows of contracts, with contract_spec or without
  codes,          \* rows of contract_code, with spec_xdr or without
  rows,           \* rows of operations and contract_events
  ingest,         \* the ledger the live indexer is at, its step, its batch
  tasks,          \* goroutines of ProcessContractSpec
  requests,       \* the requests of the read API
  faults,
  unwritten       \* history: codes whose last UpsertContractCode failed

vars == <<contracts, codes, rows, ingest, tasks, requests, faults, unwritten>>

Steps == {"enrich", "operations", "detect", "events", "cursor"}
Tasks == [contract : Contracts, stage : {"fetch", "code", "contract"}, try : 0 .. MaxFaults]
Requests == [stage : {"idle", "listed", "answered"}, rows : SUBSET Rows, todo : SUBSET Rows]

ContractSpecsTypeOK ==
  /\ contracts \in [Contracts -> Stored] /\ codes \in [Wasms -> Stored]
  /\ rows \in SUBSET Rows
  /\ ingest \in [ledger : 1 .. LastLedger + 1, step : Steps, batch : SUBSET Rows]
  /\ tasks \in SUBSET Tasks
  /\ requests \in [Readers -> Requests]
  /\ faults \in 0 .. MaxFaults
  /\ unwritten \in SUBSET Wasms

-----------------------------------------------------------------------------
(* Decoding.                                                                *)

Plain(item) == [item |-> item, status |-> "plain", of |-> item]

\* GetSpecRegistryForContract: a join of both tables.
HasRegistry(c) == contracts[c] # "none" /\ CodeOf[c] \in Wasms /\ codes[CodeOf[c]] = "spec"

\* EnrichSorobanOperations, EnrichContractEvents.  What is not decoded is left
\* as it is of an event, and marked as without a spec of an operation.
Enriched(row, registry) ==
  LET best == IF registry THEN Best[row.item] ELSE "plain"
  IN  IF row.item.kind = "event" /\ best = "plain" THEN row
      ELSE [item |-> row.item, status |-> best, of |-> row.item]

\* Each row asks the loader of its batch, which keeps an answer, also that there
\* is no spec, and not an error: then the row is treated as one without a spec.
EnrichedAll(R, unloaded) ==
  {Enriched(row, row \notin unloaded /\ HasRegistry(row.item.contract)) : row \in R}

\* Mutated form: what has no spec once is not asked for again.
NeedsReEnrichPartial(row) == row.status \in {"raw", "partial"}

\* OperationNeedsSpecReEnrich, EventNeedsSpecReEnrich
NeedsReEnrich(row) == row.status # "decoded"

\* Mutated form: whatever differs is written.
ImprovedOrNot(before, after) == before # after

\* OperationDetailsSpecImproved, EventValueSpecImproved
Improved(before, after) ==
  \/ before.status = "plain" /\ after.status # "plain"
  \/ before.status # "decoded" /\ after.status = "decoded"

-----------------------------------------------------------------------------
(* Faults.                                                                  *)

CanFail == faults < MaxFaults
Fault == CanFail /\ faults' = faults + 1
NoFault == UNCHANGED faults

\* Rows whose spec could not be loaded.
Loading(R, unloaded) ==
  /\ unloaded \subseteq R
  /\ IF unloaded = {} THEN NoFault ELSE Fault

-----------------------------------------------------------------------------
(* The live indexer: processLedger, and what it calls for contracts.        *)

AtStep(step) == ingest.step = step /\ ingest.ledger <= LastLedger
GoOn(step) == ingest' = [ingest EXCEPT !.step = step]
OfBatch(kind) == {row \in ingest.batch : row.item.kind = kind}

EnrichLedger ==
  LET bare == {Plain(item) : item \in {i \in Items : i.ledger = ingest.ledger}}
  IN  /\ AtStep("enrich")
      /\ \E unloaded \in SUBSET bare :
           /\ Loading(bare, unloaded)
           /\ ingest' = [ingest EXCEPT !.step = "operations",
                                       !.batch = EnrichedAll(bare, unloaded)]
      /\ UNCHANGED <<contracts, codes, rows, tasks, requests, unwritten>>

\* Neither table has a key that a row written again would meet.
Insert(kind, step, next) ==
  /\ AtStep(step) /\ GoOn(next)
  /\ rows' = rows \cup OfBatch(kind)
  /\ NoFault /\ UNCHANGED <<contracts, codes, tasks, requests, unwritten>>

InsertOperations == Insert("op", "operations", "detect")
InsertEvents == Insert("event", "events", "cursor")

\* DetectNewContracts, and a goroutine for each
Detect ==
  /\ AtStep("detect") /\ GoOn("events")
  /\ tasks' = tasks \cup
       {[contract |-> c, stage |-> "fetch", try |-> faults] :
          c \in {d \in Contracts : CreatedIn[d] = ingest.ledger}}
  /\ NoFault /\ UNCHANGED <<contracts, codes, rows, requests, unwritten>>

SetCursor ==
  /\ AtStep("cursor")
  /\ ingest' = [ledger |-> ingest.ledger + 1, step |-> "enrich", batch |-> {}]
  /\ NoFault /\ UNCHANGED <<contracts, codes, rows, tasks, requests, unwritten>>

\* A statement fails, or the process ends: the ledger is processed again, from
\* its start.  With the process go the goroutines.
Again == ingest' = [ingest EXCEPT !.step = "enrich", !.batch = {}]

FailLedger ==
  /\ \E step \in Steps \ {"enrich"} : AtStep(step)
  /\ Again /\ Fault
  /\ UNCHANGED <<contracts, codes, rows, tasks, requests, unwritten>>

Crash ==
  /\ Again /\ Fault /\ tasks' = {}
  /\ UNCHANGED <<contracts, codes, rows, requests, unwritten>>

-----------------------------------------------------------------------------
(* A goroutine: ProcessContractSpec.                                        *)

At(t, stage) == t \in tasks /\ t.stage = stage
Ends(t) == tasks' = tasks \ {t}
Proceeds(t, stage) == tasks' = (tasks \ {t}) \cup {[t EXCEPT !.stage = stage]}
Mine(t) == CodeOf[t.contract]

\* COALESCE keeps a spec that is there
Upserted(old, w) == IF w \in Specced THEN "spec" ELSE IF old = "none" THEN "bare" ELSE old

\* Instance and code are read from the RPC server.
FetchCode(t) ==
  /\ At(t, "fetch")
  /\ \/ Mine(t) \in Wasms /\ Proceeds(t, "code") /\ NoFault
     \/ Mine(t) \notin Wasms /\ Ends(t) /\ NoFault
     \/ Ends(t) /\ Fault
  /\ UNCHANGED <<contracts, codes, rows, ingest, requests, unwritten>>

\* UpsertContractCode
WriteCode(t) ==
  /\ \/ /\ codes' = [codes EXCEPT ![Mine(t)] = Upserted(@, Mine(t))] /\ NoFault
        /\ unwritten' = unwritten \ {Mine(t)}
     \/ Fault /\ unwritten' = unwritten \cup {Mine(t)} /\ UNCHANGED codes
  /\ UNCHANGED <<contracts, rows, ingest, requests>>

\* UpsertContract
WriteContract(t) ==
  /\ \/ contracts' = [contracts EXCEPT ![t.contract] = Upserted(@, Mine(t))] /\ NoFault
     \/ Fault /\ UNCHANGED contracts
  /\ UNCHANGED <<codes, rows, ingest, requests, unwritten>>

\* Mutated form: the contract is written before its code.
WritesContractFirst(t) ==
  \/ At(t, "code") /\ Proceeds(t, "contract") /\ WriteContract(t)
  \/ At(t, "contract") /\ Ends(t) /\ WriteCode(t)

\* An error of the first statement is logged, and the second comes all the same.
Writes(t) ==
  \/ At(t, "code") /\ Proceeds(t, "contract") /\ WriteCode(t)
  \/ At(t, "contract") /\ Ends(t) /\ WriteContract(t)

-----------------------------------------------------------------------------
(* A request of the read API.                                               *)

Idle == [stage |-> "idle", rows |-> {}, todo |-> {}]

\* The operations or the events of a contract.
List(r, kind, c) ==
  LET listed == {row \in rows : row.item.kind = kind /\ row.item.contract = c}
  IN  /\ requests[r].stage = "idle" /\ listed # {}
      /\ requests' = [requests EXCEPT ![r] = [stage |-> "listed", rows |-> listed, todo |-> {}]]
      /\ NoFault /\ UNCHANGED <<contracts, codes, rows, ingest, tasks, unwritten>>

\* enrichReadOperations, enrichReadContractEvents: the answer, and what of it is
\* to be written back.
EnrichRead(r) ==
  LET listed == requests[r].rows
      again  == {row \in listed : NeedsReEnrich(row)}
      After(row, unloaded) ==
        IF row \in again
          THEN Enriched(row, row \notin unloaded /\ HasRegistry(row.item.contract)) ELSE row
  IN  /\ requests[r].stage = "listed"
      /\ \E unloaded \in SUBSET again :
           /\ Loading(again, unloaded)
           /\ requests' = [requests EXCEPT ![r] =
                [stage |-> "answered",
                 rows  |-> {After(row, unloaded) : row \in listed},
                 todo  |-> {After(row, unloaded) :
                              row \in {b \in again : Improved(b, After(b, unloaded))}}]]
      /\ UNCHANGED <<contracts, codes, rows, ingest, tasks, unwritten>>

\* Events of one contract in one transaction: the update cannot tell them apart.
Siblings(item) ==
  {i \in Items : i.kind = "event" /\ i.contract = item.contract /\ i.tx = item.tx}

\* Mutated form: the update does not ask for the transaction.
UpdatesOfContract(item) ==
  IF item.kind = "op" THEN {item}
  ELSE {i \in Items : i.kind = "event" /\ i.contract = item.contract}

\* The condition of BackfillOperationDetails, BackfillContractEventSpecDecode
Updates(item) == IF item.kind = "op" THEN {item} ELSE Siblings(item)

\* One of the answer's improved rows is written back; an error is logged.
WriteBack(r, done) ==
  /\ done \in requests[r].todo
  /\ requests' = [requests EXCEPT ![r].todo = @ \ {done}]
  /\ \/ /\ rows' = {IF row.item \in Updates(done.item)
                      THEN [row EXCEPT !.status = done.status, !.of = done.of] ELSE row :
                      row \in rows}
        /\ NoFault
     \/ Fault /\ UNCHANGED rows
  /\ UNCHANGED <<contracts, codes, ingest, tasks, unwritten>>

\* The answer goes out.
Respond(r) ==
  /\ requests[r].stage = "answered" /\ requests[r].todo = {}
  /\ requests' = [requests EXCEPT ![r] = Idle]
  /\ NoFault /\ UNCHANGED <<contracts, codes, rows, ingest, tasks, unwritten>>

\* The transactions cannot be read, or the client goes away.
Abort(r) ==
  /\ requests[r].stage # "idle" /\ Fault
  /\ requests' = [requests EXCEPT ![r] = Idle]
  /\ UNCHANGED <<contracts, codes, rows, ingest, tasks, unwritten>>

-----------------------------------------------------------------------------

Init ==
  /\ contracts = [c \in Contracts |-> "none"] /\ codes = [w \in Wasms |-> "none"]
  /\ rows = {} /\ tasks = {} /\ unwritten = {} /\ faults = 0
  /\ ingest = [ledger |-> 1, step |-> "enrich", batch |-> {}]
  /\ requests = [r \in Readers |-> Idle]

Ingestion ==
  EnrichLedger \/ InsertOperations \/ Detect \/ InsertEvents \/ SetCursor \/ FailLedger \/ Crash

Goroutine(t) == FetchCode(t) \/ Writes(t)

Serving(r) == EnrichRead(r) \/ (\E done \in requests[r].todo : WriteBack(r, done)) \/ Respond(r)

Next ==
  \/ Ingestion
  \/ \E t \in tasks : Goroutine(t)
  \/ \E r \in Readers :
       \/ \E kind \in {"op", "event"}, c \in Contracts : List(r, kind, c)
       \/ Serving(r) \/ Abort(r)

Spec == Init /\ [][Next]_vars

\* A request that is served comes to its end: its context has a deadline.
FairSpec == Spec /\ \A r \in Readers : WF_vars(Serving(r))

-----------------------------------------------------------------------------
(* Properties.                                                              *)

\* Whoever reads at the same time, and whatever they could load: what is written
\* back of a decoding is that of an item of the same contract and transaction,
\* and an operation has its own.  Of several events of a contract in one
\* transaction a row may hold the decoding of another (BackfillContractEventSpecDecode).
PayloadsStayInTransaction ==
  \A row \in rows :
    row.of # row.item => row.item.kind = "event" /\ row.of \in Siblings(row.item)

\* The decoding that is stored of an operation, or of an event that is alone in
\* its transaction, never becomes worse: not by a reader who listed it before
\* another one wrote it back, nor by one who could not load the spec
\* (backfillImprovedOperations, backfillImprovedEvents).
StoredDecodesNeverWorse ==
  [][\A row \in rows : row.item.kind = "op" \/ Siblings(row.item) = {row.item} =>
       \E new \in rows' : new.item = row.item /\ Rank[new.status] >= Rank[row.status]]_vars

\* A contract that shows a spec can be decoded with it, at any moment, unless its
\* code could not be written; then any later contract with this code repairs it.
ShownSpecDecodes ==
  \A c \in Contracts :
    contracts[c] = "spec" => HasRegistry(c) \/ CodeOf[c] \in unwritten

\* What was stored before its contract's spec came is decoded for the readers
\* from some time on: no answer is less than the spec allows.
AnswersCatchUp ==
  <>[]\A r \in Readers :
        requests[r].stage = "answered" =>
          \A row \in requests[r].rows :
            HasRegistry(row.item.contract) => Rank[row.status] >= Rank[Best[row.item]]
=============================================================================
