------------------------------ MODULE MCPresets ------------------------------
(* A word that is cut to be shown, what it is cut to, and one with a blank;
   one name in two cases, the default watch of the profile. *)
EXTENDS Presets, TLC

MCCut == ("long" :> "lo...ng") @@ ("lo...ng" :> "lo...ng") @@ ("a b" :> "a b")
MCWords == DOMAIN MCCut
MCFold == ("w" :> "w") @@ ("W" :> "w")
=============================================================================
