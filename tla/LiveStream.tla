----------------------------- MODULE LiveStream ------------------------------
(***************************************************************************)
(* The way of the indexer's messages into the terminal client: the Redis   *)
(* channels, the consumer goroutine that subscribes to them                *)
(* (tui/internal/livestream/consumer.go), and the listener the Bubble Tea  *)
(* runtime waits on (tui/cmd/tui/livestream.go).                           *)
(*                                                                         *)
(* The indexer finishes ledgers in order and publishes for each one        *)
(* message on the ledger channel and one on the transaction channel.       *)
(* Message 2n-1 is about ledger n, message 2n carries its transaction.     *)
(*                                                                         *)
(* External: Redis and its client library.  A message published while the  *)
(* client is not subscribed is gone; so is one whose publication failed,   *)
(* which the indexer ignores, and one that finds the library's buffer full.*)
(***************************************************************************)
EXTENDS FeedModel, Sequences

CONSTANTS
  WireSize,     \* room in the library's buffer
  UpdatesSize   \* capacity of the updates channel

ASSUME WireSizeAssumption == WireSize \in Nat \ {0}
ASSUME UpdatesSizeAssumption == UpdatesSize \in Nat \ {0}

VARIABLES
  tip,          \* external: the last ledger the indexer finished
  sent,         \* external: how many messages were published, or failed to be
  wire,         \* external: the messages in the library's buffer
  link,         \* the subscription: "up", "down", or "none": no consumer
  updates,      \* the channel of updates
  errs,         \* the channel of errors, of capacity 1: what is in it
  missed        \* history: the transactions whose message something kept from the feed

streamVars == <<tip, sent, wire, link, updates, errs, missed>>

Messages == 1 .. 2 * MaxTx

IsTransaction(m) == m % 2 = 0

LedgerOf(m) == (m + 1) \div 2

StreamTypeOK ==
  /\ tip \in Txs
  /\ sent \in 0 .. 2 * tip
  /\ wire \in Seq(Messages) /\ Len(wire) <= WireSize
  /\ link \in {"up", "down", "none"}
  /\ updates \in Seq(Messages) /\ Len(updates) <= UpdatesSize
  /\ errs \in 0 .. 1
  /\ missed \subseteq Txs

\* The client starts at any time; NewConsumer may find no Redis, and then there
\* will never be a consumer.
StreamInit ==
  /\ tip \in Txs
  /\ sent = 2 * tip
  /\ wire = << >> /\ updates = << >>
  /\ link \in {"down", "none"}
  /\ errs = 0
  /\ missed = 1 .. tip

\* The messages do not get to the feed: they are lost on the way, or come while
\* another screen is shown or the feed is paused.
Miss(messages) == missed' = missed \cup {tx \in Txs : 2 * tx \in messages}

-----------------------------------------------------------------------------
(* The indexer and Redis.                                                   *)

\* The indexer finishes a ledger; its messages are still to come.
IngestLedger ==
  /\ tip < MaxTx
  /\ tip' = tip + 1
  /\ UNCHANGED <<sent, wire, link, updates, errs, missed>>

Publish ==
  /\ sent < 2 * tip
  /\ sent' = sent + 1
  /\ \/ /\ link = "up" /\ Len(wire) < WireSize
        /\ wire' = Append(wire, sent + 1)
        /\ UNCHANGED missed
     \/ /\ Miss({sent + 1})
        /\ UNCHANGED wire
  /\ UNCHANGED <<tip, link, updates, errs>>

-----------------------------------------------------------------------------
(* The consumer: Subscribe and runSubscription.                             *)

\* Subscribe, and wait for the confirmation.
Connect ==
  /\ link = "down"
  /\ link' = "up"
  /\ UNCHANGED <<tip, sent, wire, updates, errs, missed>>

\* An error is sent if there is room for it.
Report == errs' = 1

ConnectFails ==
  /\ link = "down"
  /\ Report
  /\ UNCHANGED <<tip, sent, wire, link, updates, missed>>

\* The next message goes into the channel as soon as there is room.
Receive ==
  /\ wire # << >>
  /\ Len(updates) < UpdatesSize
  /\ wire' = Tail(wire)
  /\ updates' = Append(updates, Head(wire))
  /\ UNCHANGED <<tip, sent, link, errs, missed>>

\* The subscription is closed, or a message cannot be parsed: what the library
\* still held is gone, what is in the channel stays.
Disconnect ==
  /\ link = "up"
  /\ link' = "down"
  /\ Report
  /\ Miss({wire[i] : i \in DOMAIN wire})
  /\ wire' = << >>
  /\ UNCHANGED <<tip, sent, updates>>

Consumer == Connect \/ ConnectFails \/ Receive \/ Disconnect
=============================================================================
