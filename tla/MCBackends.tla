----------------------------- MODULE MCBackends ------------------------------
(* Backends on four ledgers and lists of five or seven rows, two to a page.  *)
EXTENDS Backends

MCProfiles == {p \in Profiles : p.mode = "indexer" => p.indexer}
=============================================================================
