------------------------------ MODULE MCReadApi ------------------------------
(* A live indexer and one reader, two rows to a list.                        *)
EXTENDS ReadApi

CONSTANT live

MCProcs == {live}
=============================================================================
