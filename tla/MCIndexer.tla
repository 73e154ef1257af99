------------------------------ MODULE MCIndexer ------------------------------
(* One live indexer, process -1, and the workers of one backfill. *)
EXTENDS Indexer

MCLive == -1
MCPublishers == {MCLive}
MCProcs == MCPublishers \cup (0 .. MaxWorkers - 1)
=============================================================================
