---------------------------- MODULE MCAnnotations ----------------------------
(* Two assets whose codes differ in their case, the page of one operation, a
   label name in one case or two, and a file that may attach it. *)
EXTENDS Annotations, TLC

MCEntityFold == ("USD:G" :> "usd:g") @@ ("usd:G" :> "usd:g") @@ ("tx:1" :> "tx:1")
MCNameFold == [name \in Names |-> "w"]
MCFiles == {{}, {[name |-> IF "W" \in Names THEN "W" ELSE "w", entity |-> "USD:G"]}}
=============================================================================
