------------------------------ MODULE IngestLog -------------------------------
(***************************************************************************)
(* What a live indexer promises to the readers of its database and to the  *)
(* subscribers of its channels, with nothing of how it keeps the promise:  *)
(* a log of whole ledgers that only grows, a head that moves over it one   *)
(* ledger at a time, and announcements of ledgers that are in it.          *)
(*                                                                         *)
(* No action mentions tables, batches, failures or restarts.  A ledger     *)
(* that is half written is not in the log; an attempt that fails changes   *)
(* nothing here.  LivePipeline implements this specification.              *)
(***************************************************************************)
EXTENDS Naturals

CONSTANTS
  Seqs,         \* the ledger sequences
  Topics        \* the channels a ledger is announced on

VARIABLES
  stored,       \* the ledgers a reader finds whole
  head,         \* the last ledger a restart will not ask for again, 0 for none
  first,        \* the first value the head ever had, 0 before it has one
  told          \* told[t][l]: how often ledger l was announced on t

logVars == <<stored, head, first, told>>

LogInit ==
  /\ stored = {}
  /\ head = 0
  /\ first = 0
  /\ told = [t \in Topics |-> [l \in Seqs |-> 0]]

\* The last piece of a ledger is there: readers find it whole, for ever.
Store(l) ==
  /\ l \notin stored
  /\ stored' = stored \cup {l}
  /\ UNCHANGED <<head, first, told>>

\* The head goes to the next ledger, which is stored; the very first may be any.
MoveHead(l) ==
  /\ l \in stored
  /\ head = 0 \/ l = head + 1
  /\ head' = l
  /\ first' = IF head = 0 THEN l ELSE first
  /\ UNCHANGED <<stored, told>>

\* A stored ledger the head has reached is announced, once.
Announce(t, l) ==
  /\ l \in stored
  /\ l <= head
  /\ told[t][l] = 0
  /\ told' = [told EXCEPT ![t][l] = 1]
  /\ UNCHANGED <<stored, head, first>>

LogNext ==
  \E l \in Seqs :
    \/ Store(l)
    \/ MoveHead(l)
    \/ \E t \in Topics : Announce(t, l)

LogSpec == LogInit /\ [][LogNext]_logVars
=============================================================================
