------------------------------ MODULE MCLookups ------------------------------
(* Two transactions with an operation each and one account. *)
EXTENDS Lookups, TLC

CONSTANTS t1, t2, a1, o1, o2, ledgers, none

MCTransactions == {t1, t2}
MCAccounts == {a1}
MCDetails == {o1, o2}
MCParent == (o1 :> t1) @@ (o2 :> t2)
MCLists == {ledgers}
=============================================================================
