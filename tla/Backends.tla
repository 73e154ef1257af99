------------------------------- MODULE Backends -------------------------------
(***************************************************************************)
(* Pages and lists read through the terminal's backends: lookups, rows     *)
(* that are opened, the list of ledgers with its pages `before` a ledger,  *)
(* and the lists of a page with their offsets (tui/cmd/tui/main.go:        *)
(* executeOpenCommand and the open...Scope functions; cache_lookup.go),    *)
(* while the chain, the indexer's database and the lists grow.             *)
(*                                                                         *)
(* Every command opens a backend of its own and makes one call.  What each *)
(* server does with the requests of the call is chosen when it is made;    *)
(* the 404 of the indexer stands for any entity it does not have.          *)
(*                                                                         *)
(* Left out: the local cache, histories and the refresh of a page, which   *)
(* are in Lookups; the timelines and the lists a page carries with it,     *)
(* which are read from the page when the backend fails; accounts, assets   *)
(* and contracts lists, which have one page.                               *)
(***************************************************************************)
EXTENDS Sources, Sequences, FiniteSetsExt, Functions

CONSTANTS
  UsedProfiles,   \* the profiles the terminal may be started with
  Limit,          \* rows asked for in a page
  MaxLedger,      \* bound: ledgers the chain may reach
  Retention,      \* ledgers the RPC server keeps
  FirstSize,      \* rows a list has at the start, an odd number
  MaxSize,        \* bound: rows a list may reach, odd too
  EventWindow,    \* the newest events the RPC server still returns
  HorizonCap,     \* rows the Horizon backend fetches at most (50)
  EventCap,       \* limit + offset above which EventsFromRPC asks for ...
  EventDefault    \* ... this many (50 and 20)

ASSUME ProfilesAssumption == UsedProfiles \subseteq Profiles
ASSUME PagingAssumption ==
  /\ Limit \in Nat \ {0}
  /\ {MaxLedger, Retention, HorizonCap, EventCap, EventDefault, EventWindow} \subseteq Nat \ {0}
  /\ FirstSize \in Nat /\ MaxSize \in Nat

VARIABLES
  profile,        \* the profile in use
  tip,            \* external: the chain's latest ledger
  indexed,        \* the ledgers in the indexer's database
  size,           \* rows of the lists that grow
  page,           \* what the terminal shows
  trail           \* history: the list opened last, since its first page

vars == <<profile, tip, indexed, size, page, trail>>

Home == [what |-> "home", op |-> "", from |-> {}, meta |-> Meta("", "", FALSE),
         list |-> "", rows |-> <<>>, asked |-> 0, next |-> 0]

\* seen: the rows shown; servers: who sent them; start: the rows there were.
NoTrail == [seen |-> {}, servers |-> {}, start |-> {}, broken |-> FALSE]

Init ==
  /\ profile \in UsedProfiles
  /\ tip = MaxLedger - 1
  /\ indexed \in SUBSET (1 .. tip)
  /\ size = FirstSize
  /\ page = Home
  /\ trail = NoTrail

Smallest(a, b) == IF a < b THEN a ELSE b

Slice(s, limit, offset) == SubSeq(s, offset + 1, Smallest(offset + limit, Len(s)))

\* The numbers of a set, highest first, at most limit of them.
Highest(S, limit) ==
  LET Rank(x) == Cardinality({y \in S : y >= x})
      top     == {x \in S : Rank(x) <= limit}
  IN  [i \in 1 .. Cardinality(top) |-> CHOOSE x \in top : Rank(x) = i]

Below(S, before) == {l \in S : before = 0 \/ l < before}

-----------------------------------------------------------------------------
(* Mutated forms.                                                           *)

\* The next page of ledgers starts one too far back.
NextBeforeSkipsOne(rows) == IF Len(rows) >= Limit THEN rows[Len(rows)] - 1 ELSE 0

\* A full page is taken for the last one.
NextOffsetStopsAtFullPage(offset, rows) == IF Len(rows) <= Limit THEN 0 ELSE offset + Len(rows)

-----------------------------------------------------------------------------
(* What the servers send.                                                   *)

\* The indexer's ListLedgerSummaries.
IndexerLedgers(before) == Highest(Below(indexed, before), Limit)

\* The backend passes the sequence as the paging cursor and drops the rows that
\* are not before it.  A Horizon that counts its cursor in ledgers sends those
\* before it; one whose tokens are of another measure may have none.
HorizonLedgers(before) ==
  {Highest(Below(1 .. tip, before), Limit)} \cup (IF before = 0 THEN {} ELSE {<<>>})

\* rpcbackend's Ledgers: from its start upwards, whatever the ledger asked.
RpcStart(target) == IF target > Limit THEN target - Limit + 1 ELSE target

RpcLedgersFrom(target) ==
  LET start == RpcStart(target)
      last  == Smallest(start + Limit - 1, tip)
  IN  [i \in 1 .. last - start + 1 |-> last - i + 1]

Target(before) == IF before = 0 THEN tip ELSE before - 1

RpcLedgers(before) == IF before = 1 THEN <<>> ELSE RpcLedgersFrom(Target(before))

\* A start below what the server retains is refused.
RpcRefuses(before) == before # 1 /\ RpcStart(Target(before)) + Retention <= tip

LedgersOf(server, before) ==
  CASE server = "indexer" -> {IndexerLedgers(before)}
    [] server = "horizon" -> HorizonLedgers(before)
    [] server = "rpc"     -> {RpcLedgers(before)}

\* Rows are numbered by age, two to a ledger but for the first, which is alone; a
\* list that grows shows the newest row first.
Growing == {"account-operations", "contract-invocations", "contract-events"}

Ascending(lo, hi) == [i \in 1 .. hi - lo + 1 |-> lo + i - 1]
Newest == [i \in 1 .. size |-> size - i + 1]

Held(list) == IF list \in Growing THEN Newest ELSE Ascending(1, FirstSize)

\* The indexer sorts these lists by what the rows of a ledger have in common:
\* the database may answer each request with another order of them.
Tied == {"account-operations", "asset-holders", "contract-invocations", "contract-events"}

LedgerOfRow(r) == r \div 2
Neighbour(r) == IF r = 1 THEN 1 ELSE IF r % 2 = 0 THEN r + 1 ELSE r - 1

Sorted(list) ==
  LET held == Held(list)
      Exchanged(L) == [i \in DOMAIN held |->
                         IF LedgerOfRow(held[i]) \in L THEN Neighbour(held[i]) ELSE held[i]]
  IN  IF list \in Tied THEN {Exchanged(L) : L \in SUBSET {LedgerOfRow(r) : r \in Range(held)}}
      ELSE {held}

IndexerRows(list, offset) == {Slice(s, Limit, offset) : s \in Sorted(list)}

\* Horizon's rows are fetched from the first one on, up to its cap.
HorizonRows(list, offset) ==
  Slice(SubSeq(Held(list), 1, Smallest(Smallest(Limit + offset, HorizonCap), Len(Held(list)))),
        Limit, offset)

\* RPC: the events of a window, oldest first; no transactions of a ledger.
RpcEvents(offset) ==
  LET window == Ascending(IF size > EventWindow THEN size - EventWindow + 1 ELSE 1, size)
      fetch  == IF Limit + offset > EventCap THEN EventDefault ELSE Limit + offset
  IN  Slice(SubSeq(window, 1, Smallest(fetch, Len(window))), Limit, offset)

RpcRows(list, offset) ==
  CASE list = "contract-events"     -> RpcEvents(offset)
    [] list = "contract-storage"    -> Slice(Held(list), Limit, offset)
    [] list = "ledger-transactions" -> <<>>

RowsOf(server, list, offset) ==
  CASE server = "indexer" -> IndexerRows(list, offset)
    [] server = "horizon" -> {HorizonRows(list, offset)}
    [] server = "rpc"     -> {RpcRows(list, offset)}

-----------------------------------------------------------------------------
(* The environment.                                                         *)

\* The network closes a ledger; the lists get a row.
CloseLedger ==
  /\ tip < MaxLedger
  /\ tip' = tip + 1
  /\ UNCHANGED <<profile, indexed, size, page, trail>>

\* The indexer stores a ledger, a new one or one that was missing.
Ingest ==
  /\ \E l \in (1 .. tip) \ indexed : indexed' = indexed \cup {l}
  /\ UNCHANGED <<profile, tip, size, page, trail>>

NewRows ==
  /\ size < MaxSize
  /\ size' = size + 2
  /\ UNCHANGED <<profile, tip, indexed, page, trail>>

-----------------------------------------------------------------------------
(* Pages.                                                                   *)

Show(p) == page' = p

Error(op, meta) == Show([Home EXCEPT !.what = "error", !.op = op, !.meta = [meta EXCEPT !.degraded = TRUE]])

\* performEntityLookup and refreshLiveFeed: the source shown is what the
\* backend says before it is called.
SourceBefore(result) == InitialMeta(profile)

\* open tx, open account, enter on a row: what it says after the call.
SourceAfter(result) == result.meta

Fetch(what, op, after) ==
  /\ \E net \in Nets(op) :
       LET result == Call(profile, op, net)
           source == IF after THEN SourceAfter(result) ELSE SourceBefore(result)
       IN  IF result.from = {}
           THEN Error(op, source)
           ELSE Show([Home EXCEPT !.what = what, !.op = op, !.from = result.from,
                                  !.meta = source])
  /\ trail' = NoTrail
  /\ UNCHANGED <<profile, tip, indexed, size>>

Lookup(op) == Fetch("lookup", op, FALSE)

RefreshLiveFeed == Fetch("feed", "live-feed", FALSE)

OpenRow(op) == Fetch("row", op, TRUE)

-----------------------------------------------------------------------------
(* The list of ledgers.                                                     *)

\* The row "Next Page" of ledgerResults: before the last ledger, 0 for none.
NextBefore(rows) == IF Len(rows) >= Limit THEN rows[Len(rows)] ELSE 0

Extended(t, rows, from) ==
  [t EXCEPT !.seen = @ \cup Range(rows), !.servers = @ \cup from,
            !.broken = @ \/ \E x \in Range(rows) : x \in t.seen]

LedgerPage(before, t) ==
  /\ \E net \in Nets("ledgers") :
       LET refused == [net EXCEPT !.rpc = IF RpcRefuses(before) THEN "range" ELSE @]
           result  == Call(profile, "ledgers", refused)
       IN  IF result.from = {}
           THEN Error("ledgers", result.meta) /\ trail' = NoTrail
           ELSE \E rows \in LedgersOf(CHOOSE s \in result.from : TRUE, before) :
                    /\ Show([Home EXCEPT !.what = "ledgers", !.op = "ledgers",
                                         !.from = result.from, !.meta = result.meta,
                                         !.rows = rows, !.asked = before,
                                         !.next = NextBefore(rows)])
                    /\ trail' = Extended(t, rows, result.from)
  /\ UNCHANGED <<profile, tip, indexed, size>>

OpenLedgers == LedgerPage(0, [NoTrail EXCEPT !.start = indexed])

NextLedgers ==
  /\ page.what = "ledgers"
  /\ page.next # 0
  /\ LedgerPage(page.next, trail)

-----------------------------------------------------------------------------
(* The lists of a page.                                                     *)

ListsOf(op) ==
  CASE op = "ledger"   -> {"ledger-transactions"}
    [] op = "account"  -> {"account-operations"}
    [] op = "asset"    -> {"asset-holders"}
    [] op = "contract" -> {"contract-storage", "contract-invocations", "contract-events"}
    [] OTHER           -> {}

\* nextPageCommand: the offset of the next page, 0 for none.
NextOffset(offset, rows) == IF Len(rows) < Limit THEN 0 ELSE offset + Len(rows)

\* The page keeps what it says of its source; no rows are an error.
ListPage(list, offset, t) ==
  /\ \E net \in Nets(list) :
       LET result == Call(profile, list, net)
       IN  IF result.from = {}
           THEN Error(page.op, result.meta) /\ trail' = NoTrail
           ELSE \E rows \in RowsOf(CHOOSE s \in result.from : TRUE, list, offset) :
                    IF rows = <<>>
                    THEN Error(page.op, result.meta) /\ trail' = NoTrail
                    ELSE /\ Show([page EXCEPT !.list = list, !.rows = rows, !.asked = offset,
                                              !.next = NextOffset(offset, rows)])
                         /\ trail' = Extended(t, rows, result.from)
  /\ UNCHANGED <<profile, tip, indexed, size>>

OpenList ==
  /\ page.what \in {"lookup", "row"}
  /\ \E list \in ListsOf(page.op) :
       ListPage(list, 0, [NoTrail EXCEPT !.start = Range(Held(list))])

NextRows ==
  /\ page.list # ""
  /\ page.next # 0
  /\ ListPage(page.list, page.next, trail)

-----------------------------------------------------------------------------

Command ==
  \/ \E op \in Entities : Lookup(op)
  \/ \E op \in {"transaction", "account"} : OpenRow(op)
  \/ RefreshLiveFeed
  \/ OpenLedgers
  \/ NextLedgers
  \/ OpenList
  \/ NextRows

Next == CloseLedger \/ Ingest \/ NewRows \/ Command

Spec == Init /\ [][Next]_vars

-----------------------------------------------------------------------------
(* Properties.                                                              *)

Label(p, from) ==
  IF from = {"indexer"} THEN "indexer"
  ELSE IF BackendOf(p) = "hybrid" THEN "rpc fallback" ELSE "network"

\* A row that is opened, and a page of ledgers, name the backend their data is
\* from, whichever servers failed on the way, and are marked when the preferred
\* one did.
RowsNameTheirSource ==
  page.what \in {"row", "ledgers"} =>
    /\ page.meta.label = Label(profile, page.from)
    /\ page.meta.degraded <=> \/ page.meta.label = "rpc fallback"
                              \/ /\ page.from = {"rpc"}
                                 /\ page.what = "row"
                                 /\ profile.horizon

\* Following "Next Page" from the newest ledger, each page asks further back,
\* whichever server sends it, and only the RPC server shows a ledger twice; and
\* an indexer's pages lose no ledger it had when the list was opened, down to
\* the last one shown, neither by ledgers that come in at the top nor by gaps
\* that are filled between two pages.
LedgerPagesDescend ==
  page.what = "ledgers" =>
    /\ page.asked # 0 => page.next < page.asked
    /\ trail.broken => "rpc" \in trail.servers
    /\ trail.servers = {"indexer"} =>
         \A l \in trail.start : l \in trail.seen \/ \A s \in trail.seen : l < s

\* A list that an indexer sent to its end has shown every row it had when it
\* was opened: rows that come in at the top push others into the next page, and
\* none out of it.  Only rows that tie may be lost, where a page ends between
\* them.  Horizon's lists end at its cap.
ListsLoseNothing ==
  (page.list # "" /\ page.next = 0) =>
    \A r \in trail.start :
      \/ r \in trail.seen
      \/ trail.servers = {"indexer"} /\ page.list \in Tied /\ Neighbour(r) \in trail.seen
      \/ trail.servers = {"horizon"} /\ Len(Held(page.list)) > HorizonCap
      \/ trail.servers \notin {{"indexer"}, {"horizon"}}
=============================================================================
