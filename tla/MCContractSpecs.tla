-------------------------- MODULE MCContractSpecs --------------------------
(***************************************************************************)
(* Two contracts with one code, the second one created a ledger later:     *)
(* three events of the first, two of them in one transaction and one that  *)
(* the spec does not describe, and in the next ledger an invocation of the *)
(* second.                                                                 *)
(***************************************************************************)
EXTENDS ContractSpecs

Item(kind, ledger, tx, contract, n) ==
  [kind |-> kind, ledger |-> ledger, tx |-> tx, contract |-> contract, n |-> n]

MCCodeOf == [c \in Contracts |-> "w"]
MCCreatedIn == [c \in Contracts |-> IF c = "c1" THEN 1 ELSE 2]

MCInvocation == Item("op", 2, 1, "c2", 1)
MCTransfer == Item("event", 1, 2, "c1", 1)
MCMint == Item("event", 1, 2, "c1", 2)
MCLog == Item("event", 1, 3, "c1", 1)
MCItems == {MCInvocation, MCTransfer, MCMint, MCLog}

MCBest == [item \in MCItems |->
  CASE item = MCInvocation -> "partial"
    [] item = MCTransfer -> "decoded"
    [] item = MCMint -> "raw"
    [] item = MCLog -> "plain"]
=============================================================================
