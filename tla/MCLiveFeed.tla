----------------------------- MODULE MCLiveFeed ------------------------------
(* A live feed whose even transactions are Soroban ones, with a preset that
   pauses it. *)
EXTENDS LiveFeed

MCSoroban == {tx \in Txs : tx % 2 = 0}
MCPresets == {[filter |-> "soroban", paused |-> TRUE]}
=============================================================================
