--------------------------- MODULE MCLivePipeline ----------------------------
(* A single live indexer, no backfill. *)
EXTENDS LivePipeline

CONSTANT live

MCProcs == {live}
=============================================================================
