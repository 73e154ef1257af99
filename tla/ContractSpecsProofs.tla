------------------------ MODULE ContractSpecsProofs --------------------------
(***************************************************************************)
(* For all contracts, codes, rows, readers and faults: a contract that     *)
(* shows a spec can be decoded with it, what is written back stays in its  *)
(* transaction, and no decoding of a row that is alone becomes worse.      *)
(***************************************************************************)
EXTENDS ContractSpecs, TLAPS

\* A row has no decoding, or the one a spec yields for itself or for a sibling.
Fine(row) ==
  /\ row \in Rows
  /\ row.status \in {"plain", Best[row.of]}
  /\ row.of # row.item => row.item.kind = "event" /\ row.of \in Siblings(row.item)

\* What is written back has the decoding of its own item, and all of it.
Due(row) ==
  row \in Rows /\ row.of = row.item /\ row.status = Best[row.item] /\ row.status # "plain"

AllFine(R) == \A row \in R : Fine(row)

RequestFine(request) == AllFine(request.rows) /\ \A done \in request.todo : Due(done)

DecodingsFine ==
  /\ AllFine(rows)
  /\ AllFine(ingest.batch)
  /\ \A r \in Readers : RequestFine(requests[r])

\* A goroutine past the code of its contract has tried to write it, and only a
\* code with a spec gives a contract one.
CodesFirst ==
  /\ \A t \in tasks : t.stage # "fetch" => Mine(t) \in Wasms
  /\ \A t \in tasks : t.stage = "contract" /\ Mine(t) \in Specced =>
       codes[Mine(t)] = "spec" \/ Mine(t) \in unwritten
  /\ \A c \in Contracts : contracts[c] = "spec" =>
       CodeOf[c] \in Specced /\ (codes[CodeOf[c]] = "spec" \/ CodeOf[c] \in unwritten)

\* The inductive invariant.
CInv == ContractSpecsTypeOK /\ DecodingsFine /\ CodesFirst

-----------------------------------------------------------------------------
(* Decoding.                                                                *)

LEMMA BestType ==
  ASSUME NEW item \in Items
  PROVE  Best[item] \in Statuses
BY ItemsAssumption

LEMMA PlainFine ==
  ASSUME NEW item \in Items
  PROVE  Fine(Plain(item))
BY DEF Plain, Fine, Rows, Statuses

\* Decoding a row, with a spec or without, keeps it fine.
LEMMA EnrichedFine ==
  ASSUME NEW row, Fine(row), NEW registry \in BOOLEAN
  PROVE  Fine(Enriched(row, registry))
<1>1. row \in Rows /\ row.item \in Items /\ Best[row.item] \in Statuses
  BY BestType DEF Fine, Rows
<1>2. CASE Enriched(row, registry) = row
  BY <1>2
<1>3. CASE Enriched(row, registry) # row
  <2>. DEFINE best == IF registry THEN Best[row.item] ELSE "plain"
  <2>1. best \in Statuses /\ best \in {"plain", Best[row.item]}
    BY <1>1 DEF Statuses
  <2>2. Enriched(row, registry) = [item |-> row.item, status |-> best, of |-> row.item]
    BY <1>3 DEF Enriched
  <2>. HIDE DEF best
  <2>. QED  BY <1>1, <2>1, <2>2 DEF Fine, Rows
<1>. QED  BY <1>2, <1>3

\* What is better than before is due.
LEMMA ImprovedDue ==
  ASSUME NEW row, Fine(row), NEW registry \in BOOLEAN,
         Improved(row, Enriched(row, registry))
  PROVE  Due(Enriched(row, registry))
<1>. DEFINE best == IF registry THEN Best[row.item] ELSE "plain"
<1>1. row \in Rows /\ row.item \in Items /\ Best[row.item] \in Statuses
  BY BestType DEF Fine, Rows
<1>2. Enriched(row, registry) # row
  BY DEF Improved
<1>3. Enriched(row, registry) = [item |-> row.item, status |-> best, of |-> row.item]
  BY <1>2 DEF Enriched
<1>4. best # "plain"
  BY <1>3 DEF Improved
<1>5. best = Best[row.item]
  BY <1>4
<1>. HIDE DEF best
<1>. QED  BY <1>1, <1>3, <1>4, <1>5 DEF Due, Rows

\* A row with what is written back of another one.
Overwritten(row, done) == [row EXCEPT !.status = done.status, !.of = done.of]

LEMMA OverwrittenFine ==
  ASSUME NEW row, Fine(row), NEW done, Due(done), row.item \in Updates(done.item)
  PROVE  Fine(Overwritten(row, done))
<1>1. /\ row \in Rows /\ done \in Rows /\ done.of = done.item
      /\ done.status = Best[done.of] /\ row.item \in Items /\ done.item \in Items
  BY DEF Fine, Due, Rows
<1>2. Overwritten(row, done) =
        [item |-> row.item, status |-> done.status, of |-> done.item]
  <2>1. row = [item |-> row.item, status |-> row.status, of |-> row.of]
    BY <1>1 DEF Rows
  <2>2. [row EXCEPT !.status = done.status] =
          [item |-> row.item, status |-> done.status, of |-> row.of]
    BY <2>1
  <2>3. Overwritten(row, done) =
          [[item |-> row.item, status |-> done.status, of |-> row.of] EXCEPT !.of = done.item]
    BY <1>1, <2>2 DEF Overwritten
  <2>. QED  BY <2>3
<1>3. ASSUME done.item # row.item
      PROVE  row.item.kind = "event" /\ done.item \in Siblings(row.item)
  <2>1. done.item.kind # "op"
    BY <1>3 DEF Updates
  <2>2. done.item.kind = "event"
    BY <1>1, <2>1, ItemsAssumption
  <2>. QED  BY <1>1, <2>1, <2>2 DEF Updates, Siblings
<1>. QED  BY <1>1, <1>2, <1>3 DEF Fine, Rows

\* What is alone in its transaction is overwritten by its own decoding only,
\* which is the best there is.
LEMMA OverwrittenNotWorse ==
  ASSUME NEW row, Fine(row), NEW done, Due(done), row.item \in Updates(done.item),
         row.item.kind = "op" \/ Siblings(row.item) = {row.item}
  PROVE  Rank[done.status] >= Rank[row.status]
<1>1. /\ row.item \in Items /\ done.item \in Items /\ done.status = Best[done.item]
      /\ row.item.kind \in {"op", "event"} /\ done.item.kind \in {"op", "event"}
  BY ItemsAssumption DEF Fine, Due, Rows
<1>2. done.item = row.item
  BY <1>1 DEF Updates, Siblings
<1>3. row.of = row.item
  BY <1>1 DEF Fine
<1>4. row.status \in {"plain", done.status} /\ done.status \in Statuses
  BY <1>1, <1>2, <1>3, BestType DEF Fine
<1>. QED  BY <1>4 DEF Rank, Statuses

-----------------------------------------------------------------------------
(* Ingestion.                                                               *)

LEMMA FaultsType ==
  ASSUME ContractSpecsTypeOK, Fault \/ NoFault
  PROVE  faults' \in 0 .. MaxFaults
BY LedgersAssumption DEF ContractSpecsTypeOK, Fault, CanFail, NoFault

\* Steps that leave contracts, codes and goroutines alone, or end goroutines.
LEMMA CodesKept ==
  ASSUME CodesFirst, UNCHANGED <<contracts, codes, unwritten>>, tasks' \subseteq tasks
  PROVE  CodesFirst'
BY DEF CodesFirst, Mine

LEMMA EnrichLedgerInv ==
  ASSUME CInv, EnrichLedger
  PROVE  CInv'
<1>. DEFINE bare == {Plain(item) : item \in {i \in Items : i.ledger = ingest.ledger}}
<1>1. PICK unloaded \in SUBSET bare :
        /\ Loading(bare, unloaded)
        /\ ingest' = [ingest EXCEPT !.step = "operations", !.batch = EnrichedAll(bare, unloaded)]
  BY DEF EnrichLedger
<1>2. AllFine(bare)
  BY PlainFine DEF AllFine
<1>3. AllFine(EnrichedAll(bare, unloaded))
  <2>. SUFFICES ASSUME NEW new \in EnrichedAll(bare, unloaded) PROVE Fine(new)
    BY DEF AllFine
  <2>2. PICK row \in bare :
          new = Enriched(row, row \notin unloaded /\ HasRegistry(row.item.contract))
    BY DEF EnrichedAll
  <2>3. (row \notin unloaded /\ HasRegistry(row.item.contract)) \in BOOLEAN
    BY DEF HasRegistry
  <2>. HIDE DEF bare
  <2>. QED  BY <1>2, <2>2, <2>3, EnrichedFine DEF AllFine
<1>4. EnrichedAll(bare, unloaded) \in SUBSET Rows
  BY <1>3 DEF AllFine, Fine
<1>5. faults' \in 0 .. MaxFaults
  BY <1>1, FaultsType DEF Loading, CInv
<1>. HIDE DEF bare
<1>6. ingest' \in [ledger : 1 .. LastLedger + 1, step : Steps, batch : SUBSET Rows]
  BY <1>1, <1>4 DEF CInv, ContractSpecsTypeOK, Steps
<1>7. ingest'.batch = EnrichedAll(bare, unloaded)
  BY <1>1 DEF CInv, ContractSpecsTypeOK
<1>8. ContractSpecsTypeOK'
  BY <1>5, <1>6 DEF EnrichLedger, CInv, ContractSpecsTypeOK
<1>9. DecodingsFine'
  BY <1>3, <1>7 DEF EnrichLedger, CInv, DecodingsFine, RequestFine, AllFine
<1>10. CodesFirst'
  BY CodesKept DEF EnrichLedger, CInv
<1>. QED  BY <1>8, <1>9, <1>10 DEF CInv

LEMMA InsertInv ==
  ASSUME CInv, NEW kind, NEW step, NEW next \in Steps, Insert(kind, step, next)
  PROVE  CInv'
<1>1. ingest' \in [ledger : 1 .. LastLedger + 1, step : Steps, batch : SUBSET Rows]
  BY DEF Insert, GoOn, CInv, ContractSpecsTypeOK
<1>2. ingest'.batch = ingest.batch
  BY DEF Insert, GoOn, CInv, ContractSpecsTypeOK
<1>3. OfBatch(kind) \subseteq ingest.batch /\ OfBatch(kind) \subseteq Rows
  BY DEF OfBatch, CInv, ContractSpecsTypeOK
<1>4. ContractSpecsTypeOK'
  BY <1>1, <1>3 DEF Insert, NoFault, CInv, ContractSpecsTypeOK
<1>5. DecodingsFine'
  BY <1>2, <1>3 DEF Insert, CInv, DecodingsFine, RequestFine, AllFine
<1>6. CodesFirst'
  BY CodesKept DEF Insert, CInv
<1>. QED  BY <1>4, <1>5, <1>6 DEF CInv

LEMMA DetectInv ==
  ASSUME CInv, Detect
  PROVE  CInv'
<1>. DEFINE new == {[contract |-> c, stage |-> "fetch", try |-> faults] :
                      c \in {d \in Contracts : CreatedIn[d] = ingest.ledger}}
<1>1. new \subseteq Tasks /\ \A t \in new : t.stage = "fetch"
  BY DEF CInv, ContractSpecsTypeOK, Tasks
<1>2. tasks' = tasks \cup new
  BY DEF Detect
<1>. HIDE DEF new
<1>3. ingest' \in [ledger : 1 .. LastLedger + 1, step : Steps, batch : SUBSET Rows]
  BY DEF Detect, GoOn, CInv, ContractSpecsTypeOK, Steps
<1>4. ingest'.batch = ingest.batch
  BY DEF Detect, GoOn, CInv, ContractSpecsTypeOK
<1>5. ContractSpecsTypeOK'
  BY <1>1, <1>2, <1>3 DEF Detect, NoFault, CInv, ContractSpecsTypeOK
<1>6. DecodingsFine'
  BY <1>4 DEF Detect, CInv, DecodingsFine, RequestFine, AllFine
<1>7. CodesFirst'
  BY <1>1, <1>2 DEF Detect, CInv, CodesFirst, Mine
<1>. QED  BY <1>5, <1>6, <1>7 DEF CInv

\* The cursor moves, a statement fails, or the process ends: the batch goes.
LEMMA BatchGone ==
  ASSUME CInv, SetCursor \/ FailLedger \/ Crash
  PROVE  CInv'
<1>1. /\ ingest' \in [ledger : 1 .. LastLedger + 1, step : Steps, batch : SUBSET Rows]
      /\ ingest'.batch = {}
  <2>1. ingest \in [ledger : 1 .. LastLedger + 1, step : Steps, batch : SUBSET Rows]
    BY DEF CInv, ContractSpecsTypeOK
  <2>2. CASE SetCursor
    <3>1. ingest.ledger + 1 \in 1 .. LastLedger + 1
      BY <2>1, <2>2, LedgersAssumption DEF SetCursor, AtStep
    <3>. QED  BY <2>2, <3>1 DEF SetCursor, Steps
  <2>3. CASE FailLedger \/ Crash
    BY <2>1, <2>3 DEF FailLedger, Crash, Again, Steps
  <2>. QED  BY <2>2, <2>3
<1>2. faults' \in 0 .. MaxFaults
  BY FaultsType DEF SetCursor, FailLedger, Crash, CInv
<1>3. UNCHANGED <<contracts, codes, rows, requests, unwritten>> /\ tasks' \subseteq tasks
  BY DEF SetCursor, FailLedger, Crash
<1>4. ContractSpecsTypeOK'
  BY <1>1, <1>2, <1>3 DEF CInv, ContractSpecsTypeOK
<1>5. DecodingsFine'
  BY <1>1, <1>3 DEF CInv, DecodingsFine, RequestFine, AllFine
<1>6. CodesFirst'
  BY <1>3, CodesKept DEF CInv
<1>. QED  BY <1>4, <1>5, <1>6 DEF CInv

-----------------------------------------------------------------------------
(* Goroutines.                                                              *)

\* The goroutines after one of them ended or went on.
LEMMA StageType ==
  ASSUME CInv, NEW t \in tasks, NEW stage \in {"fetch", "code", "contract"}
  PROVE  /\ t \in Tasks /\ t.contract \in Contracts
         /\ [t EXCEPT !.stage = stage] \in Tasks
         /\ [t EXCEPT !.stage = stage].stage = stage
         /\ Mine([t EXCEPT !.stage = stage]) = Mine(t)
BY DEF CInv, ContractSpecsTypeOK, Tasks, Mine

LEMMA FetchCodeInv ==
  ASSUME CInv, NEW t \in tasks, FetchCode(t)
  PROVE  CInv'
<1>1. tasks' \subseteq tasks \/ (Mine(t) \in Wasms /\ Proceeds(t, "code"))
  BY DEF FetchCode, Ends
<1>2. faults' \in 0 .. MaxFaults
  BY FaultsType DEF FetchCode, CInv
<1>3. tasks' \in SUBSET Tasks
  <2>1. tasks \in SUBSET Tasks
    BY DEF CInv, ContractSpecsTypeOK
  <2>2. [t EXCEPT !.stage = "code"] \in Tasks
    BY StageType
  <2>. QED  BY <1>1, <2>1, <2>2 DEF Proceeds
<1>4. ContractSpecsTypeOK'
  BY <1>2, <1>3 DEF FetchCode, CInv, ContractSpecsTypeOK
<1>5. DecodingsFine'
  BY DEF FetchCode, CInv, DecodingsFine, RequestFine, AllFine
<1>6. CASE tasks' \subseteq tasks
  BY <1>6, CodesKept, <1>4, <1>5 DEF FetchCode, CInv
<1>7. CASE Mine(t) \in Wasms /\ Proceeds(t, "code")
  <2>1. PICK next : next = [t EXCEPT !.stage = "code"]
    OBVIOUS
  <2>2. next.stage = "code" /\ Mine(next) = Mine(t) /\ tasks' = (tasks \ {t}) \cup {next}
    BY <1>7, <2>1, StageType DEF Proceeds
  <2>3. CodesFirst'
    BY <1>7, <2>2 DEF FetchCode, CInv, CodesFirst, Mine
  <2>. QED  BY <1>4, <1>5, <2>3 DEF CInv
<1>. QED  BY <1>1, <1>6, <1>7

LEMMA WriteCodeInv ==
  ASSUME CInv, NEW t \in tasks, At(t, "code"), Proceeds(t, "contract"), WriteCode(t)
  PROVE  CInv'
<1>1. Mine(t) \in Wasms
  BY DEF At, CInv, CodesFirst
<1>2. PICK next : next = [t EXCEPT !.stage = "contract"]
  OBVIOUS
<1>3. /\ next \in Tasks /\ next.stage = "contract" /\ Mine(next) = Mine(t)
      /\ tasks' = (tasks \ {t}) \cup {next}
  BY <1>2, StageType DEF Proceeds
<1>4. /\ codes' \in [Wasms -> Stored]
      /\ \A w \in Wasms : codes[w] = "spec" => codes'[w] = "spec"
      /\ \A w \in Wasms : w # Mine(t) => codes'[w] = codes[w]
  BY <1>1 DEF WriteCode, Upserted, Stored, CInv, ContractSpecsTypeOK
<1>5. \/ unwritten' = unwritten \cup {Mine(t)}
      \/ /\ unwritten' = unwritten \ {Mine(t)}
         /\ Mine(t) \in Specced => codes'[Mine(t)] = "spec"
  BY <1>1 DEF WriteCode, Upserted, CInv, ContractSpecsTypeOK
<1>6. faults' \in 0 .. MaxFaults
  BY FaultsType DEF WriteCode, CInv
<1>7. ContractSpecsTypeOK'
  BY <1>1, <1>3, <1>4, <1>5, <1>6 DEF WriteCode, CInv, ContractSpecsTypeOK
<1>8. DecodingsFine'
  BY DEF WriteCode, CInv, DecodingsFine, RequestFine, AllFine
<1>9. \A w \in Specced : codes[w] = "spec" \/ w \in unwritten => codes'[w] = "spec" \/ w \in unwritten'
  BY <1>4, <1>5, LedgersAssumption
<1>10. Mine(t) \in Specced => codes'[Mine(t)] = "spec" \/ Mine(t) \in unwritten'
  BY <1>5
<1>11. \A u \in tasks' : u.stage # "fetch" => Mine(u) \in Wasms
  BY <1>1, <1>3 DEF CInv, CodesFirst
<1>12. \A u \in tasks' : u.stage = "contract" /\ Mine(u) \in Specced =>
         codes'[Mine(u)] = "spec" \/ Mine(u) \in unwritten'
  BY <1>3, <1>9, <1>10 DEF CInv, CodesFirst
<1>13. \A c \in Contracts : contracts'[c] = "spec" =>
         CodeOf[c] \in Specced /\ (codes'[CodeOf[c]] = "spec" \/ CodeOf[c] \in unwritten')
  BY <1>9 DEF WriteCode, CInv, CodesFirst
<1>14. CodesFirst'
  BY <1>11, <1>12, <1>13 DEF CodesFirst, Mine
<1>. QED  BY <1>7, <1>8, <1>14 DEF CInv

LEMMA WriteContractInv ==
  ASSUME CInv, NEW t \in tasks, At(t, "contract"), Ends(t), WriteContract(t)
  PROVE  CInv'
<1>1. t.contract \in Contracts /\ Mine(t) = CodeOf[t.contract]
  BY StageType DEF Mine
<1>2. contracts' \in [Contracts -> Stored]
  BY <1>1 DEF WriteContract, Upserted, Stored, CInv, ContractSpecsTypeOK
<1>3. \A c \in Contracts : contracts'[c] = "spec" =>
        contracts[c] = "spec" \/ (c = t.contract /\ Mine(t) \in Specced)
  BY <1>1 DEF WriteContract, Upserted, CInv, ContractSpecsTypeOK
<1>4. tasks' \subseteq tasks
  BY DEF Ends
<1>5. faults' \in 0 .. MaxFaults
  BY FaultsType DEF WriteContract, CInv
<1>6. ContractSpecsTypeOK'
  BY <1>2, <1>4, <1>5 DEF WriteContract, CInv, ContractSpecsTypeOK
<1>7. DecodingsFine'
  BY DEF WriteContract, CInv, DecodingsFine, RequestFine, AllFine
<1>8. Mine(t) \in Specced => codes[Mine(t)] = "spec" \/ Mine(t) \in unwritten
  BY DEF At, CInv, CodesFirst
<1>9. CodesFirst'
  BY <1>1, <1>3, <1>4, <1>8 DEF WriteContract, CInv, CodesFirst, Mine
<1>. QED  BY <1>6, <1>7, <1>9 DEF CInv

-----------------------------------------------------------------------------
(* Requests.                                                                *)

\* Steps of the read API that change a request, and faults.
LEMMA RequestInv ==
  ASSUME CInv, NEW r \in Readers, NEW request \in Requests, RequestFine(request),
         requests' = [requests EXCEPT ![r] = request], Fault \/ NoFault,
         UNCHANGED <<contracts, codes, rows, ingest, tasks, unwritten>>
  PROVE  CInv'
<1>1. requests' \in [Readers -> Requests]
  BY DEF CInv, ContractSpecsTypeOK
<1>2. faults' \in 0 .. MaxFaults
  BY FaultsType DEF CInv
<1>3. ContractSpecsTypeOK'
  BY <1>1, <1>2 DEF CInv, ContractSpecsTypeOK
<1>4. \A q \in Readers : RequestFine(requests'[q])
  BY DEF CInv, ContractSpecsTypeOK, DecodingsFine
<1>5. DecodingsFine'
  BY <1>4 DEF CInv, DecodingsFine, RequestFine, AllFine
<1>6. CodesFirst'
  BY CodesKept DEF CInv
<1>. QED  BY <1>3, <1>5, <1>6 DEF CInv

LEMMA IdleFine == Idle \in Requests /\ RequestFine(Idle)
BY DEF Idle, Requests, RequestFine, AllFine

LEMMA ListInv ==
  ASSUME CInv, NEW r \in Readers, NEW kind, NEW c, List(r, kind, c)
  PROVE  CInv'
<1>1. PICK listed \in SUBSET rows :
        requests' = [requests EXCEPT ![r] = [stage |-> "listed", rows |-> listed, todo |-> {}]]
  BY DEF List
<1>2. [stage |-> "listed", rows |-> listed, todo |-> {}] \in Requests
  BY DEF CInv, ContractSpecsTypeOK, Requests
<1>3. RequestFine([stage |-> "listed", rows |-> listed, todo |-> {}])
  BY DEF CInv, DecodingsFine, RequestFine, AllFine
<1>. QED  BY <1>1, <1>2, <1>3, RequestInv DEF List

LEMMA EnrichReadInv ==
  ASSUME CInv, NEW r \in Readers, EnrichRead(r)
  PROVE  CInv'
<1>. DEFINE listed == requests[r].rows
            again == {row \in listed : NeedsReEnrich(row)}
            After(row, unloaded) ==
              IF row \in again
                THEN Enriched(row, row \notin unloaded /\ HasRegistry(row.item.contract)) ELSE row
            Todo(unloaded) == {After(row, unloaded) :
                                 row \in {b \in again : Improved(b, After(b, unloaded))}}
<1>1. PICK unloaded \in SUBSET again :
        /\ Loading(again, unloaded)
        /\ requests' = [requests EXCEPT ![r] =
             [stage |-> "answered",
              rows  |-> {After(row, unloaded) : row \in listed},
              todo  |-> Todo(unloaded)]]
  BY DEF EnrichRead
<1>2. \A row \in listed : Fine(row)
  BY DEF CInv, DecodingsFine, RequestFine, AllFine
<1>3. \A row : (row \notin unloaded /\ HasRegistry(row.item.contract)) \in BOOLEAN
  BY DEF HasRegistry
<1>4. \A row \in listed : Fine(After(row, unloaded))
  BY <1>2, <1>3, EnrichedFine
<1>5. \A row \in again : Improved(row, After(row, unloaded)) => Due(After(row, unloaded))
  BY <1>2, <1>3, ImprovedDue
<1>6. PICK request : request = [stage |-> "answered",
                                rows  |-> {After(row, unloaded) : row \in listed},
                                todo  |-> Todo(unloaded)]
  OBVIOUS
<1>7. AllFine(request.rows) /\ request.rows \subseteq Rows
  BY <1>4, <1>6 DEF AllFine, Fine
<1>8. \A done \in request.todo : Due(done)
  BY <1>5, <1>6
<1>9. request \in Requests /\ RequestFine(request)
  BY <1>6, <1>7, <1>8 DEF Requests, RequestFine, Due
<1>10. requests' = [requests EXCEPT ![r] = request] /\ (Fault \/ NoFault)
  BY <1>1, <1>6 DEF Loading
<1>11. UNCHANGED <<contracts, codes, rows, ingest, tasks, unwritten>>
  BY DEF EnrichRead
<1>. QED  BY <1>9, <1>10, <1>11, RequestInv

\* The table after a write back, and the request that is left.
LEMMA WriteBackFacts ==
  ASSUME CInv, NEW r \in Readers, NEW done, WriteBack(r, done)
  PROVE  /\ Due(done)
         /\ \/ rows' = rows
            \/ rows' = {IF row.item \in Updates(done.item) THEN Overwritten(row, done) ELSE row :
                        row \in rows}
BY DEF WriteBack, CInv, DecodingsFine, RequestFine, Overwritten

LEMMA WriteBackInv ==
  ASSUME CInv, NEW r \in Readers, NEW done, WriteBack(r, done)
  PROVE  CInv'
<1>1. AllFine(rows)
  BY DEF CInv, DecodingsFine
<1>2. AllFine(rows')
  BY <1>1, WriteBackFacts, OverwrittenFine DEF AllFine
<1>3. rows' \in SUBSET Rows
  BY <1>2 DEF AllFine, Fine
<1>4. PICK request : request = [requests[r] EXCEPT !.todo = @ \ {done}]
  OBVIOUS
<1>5. requests' = [requests EXCEPT ![r] = request]
  BY <1>4 DEF WriteBack, CInv, ContractSpecsTypeOK
<1>6. requests[r] \in Requests /\ RequestFine(requests[r])
  BY DEF CInv, ContractSpecsTypeOK, DecodingsFine
<1>7. request \in Requests /\ RequestFine(request)
  BY <1>4, <1>6 DEF Requests, RequestFine
<1>8. requests' \in [Readers -> Requests] /\ \A q \in Readers : RequestFine(requests'[q])
  BY <1>5, <1>7 DEF CInv, ContractSpecsTypeOK, DecodingsFine
<1>9. faults' \in 0 .. MaxFaults
  BY FaultsType DEF WriteBack, CInv
<1>10. ContractSpecsTypeOK'
  BY <1>3, <1>8, <1>9 DEF WriteBack, CInv, ContractSpecsTypeOK
<1>11. DecodingsFine'
  BY <1>2, <1>8 DEF WriteBack, CInv, DecodingsFine, RequestFine, AllFine
<1>12. CodesFirst'
  BY CodesKept DEF WriteBack, CInv
<1>. QED  BY <1>10, <1>11, <1>12 DEF CInv

LEMMA EndsInv ==
  ASSUME CInv, NEW r \in Readers, Respond(r) \/ Abort(r)
  PROVE  CInv'
BY IdleFine, RequestInv DEF Respond, Abort

-----------------------------------------------------------------------------
(* The theorems.                                                            *)

LEMMA InitInv == Init => CInv
<1>. SUFFICES ASSUME Init PROVE CInv
  OBVIOUS
<1>1. ContractSpecsTypeOK
  BY IdleFine, LedgersAssumption DEF Init, ContractSpecsTypeOK, Stored, Steps
<1>2. DecodingsFine
  BY IdleFine DEF Init, DecodingsFine, AllFine
<1>3. CodesFirst
  BY DEF Init, CodesFirst
<1>. QED  BY <1>1, <1>2, <1>3 DEF CInv

LEMMA StepInv == CInv /\ [Next]_vars => CInv'
<1>. SUFFICES ASSUME CInv, [Next]_vars PROVE CInv'
  OBVIOUS
<1>1. CASE Ingestion
  BY <1>1, EnrichLedgerInv, InsertInv, DetectInv, BatchGone
  DEF Ingestion, InsertOperations, InsertEvents, Steps
<1>2. ASSUME NEW t \in tasks, Goroutine(t) PROVE CInv'
  BY <1>2, FetchCodeInv, WriteCodeInv, WriteContractInv DEF Goroutine, Writes
<1>3. ASSUME NEW r \in Readers, NEW kind, NEW c, List(r, kind, c) PROVE CInv'
  BY <1>3, ListInv
<1>4. ASSUME NEW r \in Readers, Serving(r) \/ Abort(r) PROVE CInv'
  BY <1>4, EnrichReadInv, WriteBackInv, EndsInv DEF Serving
<1>5. CASE UNCHANGED vars
  BY <1>5 DEF vars, CInv, ContractSpecsTypeOK, DecodingsFine, RequestFine, AllFine,
              CodesFirst, Mine
<1>. QED  BY <1>1, <1>2, <1>3, <1>4, <1>5 DEF Next

LEMMA Invariance == Spec => []CInv
BY InitInv, StepInv, PTL DEF Spec

\* Tables, goroutines, requests and the ledger in work keep their types through
\* every call that fails and every crash.
THEOREM ContractSpecsTypeCorrect == Spec => []ContractSpecsTypeOK
<1>1. CInv => ContractSpecsTypeOK
  BY DEF CInv
<1>. QED  BY <1>1, Invariance, PTL

\* However many readers write back what they decoded, and whatever they could
\* load: a row has the decoding of its own item or of a sibling
\* (BackfillContractEventSpecDecode).
THEOREM DecodingsStayInTransaction == Spec => []PayloadsStayInTransaction
<1>1. CInv => PayloadsStayInTransaction
  BY DEF CInv, DecodingsFine, AllFine, Fine, PayloadsStayInTransaction
<1>. QED  BY <1>1, Invariance, PTL

\* A contract never shows a spec before its code can be decoded, unless the
\* code's own statement failed (ProcessContractSpec).
THEOREM ShownSpecsDecode == Spec => []ShownSpecDecodes
<1>1. CInv => ShownSpecDecodes
  BY LedgersAssumption DEF CInv, CodesFirst, ShownSpecDecodes, HasRegistry
<1>. QED  BY <1>1, Invariance, PTL

\* No reader makes a stored decoding worse, of an operation or of an event that
\* is alone (backfillImprovedOperations, backfillImprovedEvents).
THEOREM DecodesOnlyImprove == Spec => StoredDecodesNeverWorse
<1>. DEFINE Alone(row) == row.item.kind = "op" \/ Siblings(row.item) = {row.item}
            Kept(row) == \E new \in rows' :
                           new.item = row.item /\ Rank[new.status] >= Rank[row.status]
<1>1. ASSUME CInv, [Next]_vars, NEW row \in rows, Alone(row)
      PROVE  Kept(row)
  <2>1. row \in Rows /\ Fine(row) /\ Rank[row.status] >= Rank[row.status]
    BY <1>1 DEF CInv, DecodingsFine, AllFine, Fine, Rows, Rank, Statuses
  <2>2. CASE row \in rows'
    BY <2>1, <2>2
  <2>3. CASE row \notin rows'
    <3>0. PICK r \in Readers : \E done : WriteBack(r, done)
      BY <1>1, <2>3
      DEF Next, vars, Ingestion, EnrichLedger, InsertOperations, InsertEvents, Insert, Detect,
          SetCursor, FailLedger, Crash, Goroutine, FetchCode, Writes, WriteCode, WriteContract,
          List, Serving, EnrichRead, Respond, Abort
    <3>1. PICK done : WriteBack(r, done)
      BY <3>0
    <3>2. Due(done) /\ rows' # rows
      BY <1>1, <2>3, <3>1, WriteBackFacts
    <3>3. rows' = {IF q.item \in Updates(done.item) THEN Overwritten(q, done) ELSE q : q \in rows}
      BY <1>1, <3>1, <3>2, WriteBackFacts
    <3>4. row.item \in Updates(done.item) /\ Overwritten(row, done) \in rows'
      BY <1>1, <2>3, <3>3
    <3>5. Rank[done.status] >= Rank[row.status]
      BY <1>1, <2>1, <3>2, <3>4, OverwrittenNotWorse
    <3>6. Overwritten(row, done).item = row.item /\ Overwritten(row, done).status = done.status
      BY <2>1 DEF Overwritten, Rows
    <3>. QED  BY <3>4, <3>5, <3>6
  <2>. QED  BY <2>2, <2>3
<1>2. CInv /\ [Next]_vars => \A row \in rows : Alone(row) => Kept(row)
  BY <1>1
<1>. QED  BY <1>2, Invariance, PTL DEF Spec, StoredDecodesNeverWorse
=============================================================================
