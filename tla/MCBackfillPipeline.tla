------------------------- MODULE MCBackfillPipeline --------------------------
(* A backfill alone: its workers are the processes, and none publishes. *)
EXTENDS BackfillPipeline

MCProcs == 0 .. MaxWorkers - 1
MCPublishers == {}
=============================================================================
