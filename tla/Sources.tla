------------------------------- MODULE Sources --------------------------------
(***************************************************************************)
(* The backends behind the terminal's lookups (tui/cmd/tui/main.go:        *)
(* openLookupBackend; hybrid_backend.go; internal/networkbackend,          *)
(* rpcbackend, horizonbackend, backendclient): which server answers an     *)
(* operation, and what the backend says of its last call.                  *)
(*                                                                         *)
(* A profile is [mode, indexer, horizon]: whether an indexer and Horizon   *)
(* are configured; an RPC endpoint always is, since without one the        *)
(* network backend cannot be opened.  What each server does with the       *)
(* requests of one call is a record net; the payloads are left to          *)
(* Backends, the only module that uses this one.                           *)
(***************************************************************************)
EXTENDS Naturals

Servers == {"indexer", "horizon", "rpc"}

Profiles == [mode : {"rpc", "hybrid", "indexer"}, indexer : BOOLEAN, horizon : BOOLEAN]

Entities == {"ledger", "transaction", "account", "asset", "contract"}

\* The lists opened on a page, each read with a limit and an offset.
PageLists == {"ledger-transactions", "account-operations", "asset-holders",
              "contract-storage", "contract-invocations", "contract-events"}

Operations == Entities \cup PageLists \cup {"live-feed", "ledgers"}

\* The requests a call makes, each of which ends it when it fails.
HorizonPageRequests(op) ==
  CASE op = "live-feed"   -> {"latest ledger", "transactions"}
    [] op = "ledger"      -> {"ledger", "transactions"}
    [] op = "transaction" -> {"transaction", "operations", "effects"}
    [] op = "account"     -> {"account", "transactions", "operations"}
    [] OTHER              -> {}

HorizonListRequests(op) ==
  CASE op = "asset" -> {"asset", "holders"}
    [] op \in {"ledgers", "ledger-transactions", "account-operations", "asset-holders"} -> {"list"}
    [] OTHER -> {}

RpcPageRequests(op) ==
  CASE op \in {"live-feed", "ledgers"} -> {"latest ledger", "range"}
    [] op \in {"ledger", "ledger-transactions"} -> {"ledger"}
    [] op = "transaction" -> {"transaction"}
    [] op = "account" -> {"entry"}
    [] OTHER -> {}

RpcContractRequests(op) ==
  CASE op = "contract-events" -> {"latest ledger", "events"}
    [] op \in {"contract", "contract-storage"} -> {"instance"}
    [] OTHER -> {}

\* What the indexer answers: it may not have the entity (404), be away
\* (connection refused, no such host, 405, 501 to 504), or fail in another way,
\* an internal error or an answer that takes longer than the client waits.
IndexerAnswers == {"answers", "lacks", "away", "fails"}

\* What the servers do in one call: the first request of each that fails.
Nets(op) ==
  [indexer : IndexerAnswers,
   horizon : {"answers"} \cup HorizonPageRequests(op) \cup HorizonListRequests(op),
   rpc     : {"answers"} \cup RpcPageRequests(op) \cup RpcContractRequests(op)]

\* The backend openLookupBackend returns.
BackendOf(p) ==
  IF p.mode = "hybrid" /\ p.indexer THEN "hybrid"
  ELSE IF p.mode = "indexer" /\ p.indexer THEN "client" ELSE "network"

\* SourceMetadata: what is shown of the source of a page.
Meta(actual, label, degraded) ==
  [actual |-> actual, label |-> label, degraded |-> degraded]

\* The metadata of a backend that has not been called yet.
InitialMeta(p) ==
  CASE BackendOf(p) = "network" ->
         Meta(IF p.horizon THEN "horizon+rpc" ELSE "rpc", "network", FALSE)
    [] OTHER -> Meta("indexer", "indexer", FALSE)

-----------------------------------------------------------------------------
(* A result of a call: the servers the data is from, none if it failed, and *)
(* the metadata the backend has afterwards.                                 *)

Answered(from, meta) == [from |-> from, meta |-> meta]
Failed(meta) == [from |-> {}, meta |-> meta]

(* The network backend.                                                     *)

\* Horizon first and RPC when it fails; both when both answer and Merges.
Merges == {"transaction", "account"}
HorizonThenRpc == Merges \cup {"live-feed"}
\* Horizon where it is configured, RPC otherwise.
HorizonOrRpc == {"ledger", "ledgers", "ledger-transactions"}
HorizonOnly == {"account-operations", "asset", "asset-holders"}
RpcOnly == {"contract", "contract-events", "contract-storage"}

Single(server, net) ==
  LET ok == net[server] = "answers"
  IN  [from |-> IF ok THEN {server} ELSE {},
       meta |-> Meta(server, "network", ~ ok)]

NetworkCall(p, op, net) ==
  CASE op \in RpcOnly \/ (~ p.horizon /\ op \in HorizonThenRpc \cup HorizonOrRpc) ->
         Single("rpc", net)
    [] p.horizon /\ op \in HorizonOrRpc \cup HorizonOnly -> Single("horizon", net)
    [] p.horizon /\ op \in HorizonThenRpc ->
         IF net.horizon # "answers"
         THEN [Single("rpc", net) EXCEPT !.meta = Meta("rpc", "network", TRUE)]
         ELSE IF op \in Merges /\ net.rpc = "answers"
              THEN Answered({"horizon", "rpc"}, Meta("horizon+rpc", "network", FALSE))
              ELSE Answered({"horizon"}, Meta("horizon", "network", FALSE))
    [] OTHER -> Failed(InitialMeta([p EXCEPT !.mode = "rpc"]))  \* lastMeta is left alone

(* The client of the indexer's read API.                                    *)

ClientCall(op, net) ==
  IF net.indexer = "answers"
  THEN Answered({"indexer"}, Meta("indexer", "indexer", FALSE))
  ELSE Failed(Meta("indexer", "indexer", FALSE))

-----------------------------------------------------------------------------
(* Mutated form: the metadata of an indexer's answer after the network's.   *)

FallbackMetaOfPrimary(ok) == Meta("indexer", "indexer", ~ ok)

-----------------------------------------------------------------------------
(* The hybrid backend.                                                      *)

\* An indexer that lacks the entity or is away; not one that fails otherwise.
ShouldFallbackToRPC(answer) == answer \in {"lacks", "away"}

\* The operations the hybrid backend hands to the network backend.
FallsBack == Entities \cup {"live-feed", "ledgers", "contract-storage", "contract-events"}

FallbackMeta(ok) == Meta("rpc", "rpc fallback", TRUE)

HybridCall(p, op, net) ==
  LET primary  == ClientCall(op, net)
      fallback == NetworkCall(p, op, net)
  IN  IF primary.from # {} THEN primary
      ELSE IF op \in FallsBack /\ ShouldFallbackToRPC(net.indexer)
           THEN [fallback EXCEPT !.meta = FallbackMeta(fallback.from # {})]
           ELSE Failed(Meta("indexer", "indexer", TRUE))

-----------------------------------------------------------------------------

\* One call of the backend the profile opens.
Call(p, op, net) ==
  CASE BackendOf(p) = "hybrid"  -> HybridCall(p, op, net)
    [] BackendOf(p) = "client"  -> ClientCall(op, net)
    [] BackendOf(p) = "network" -> NetworkCall(p, op, net)
=============================================================================
