--------------------------- MODULE MCResourceFolder ---------------------------
(* Instances of ResourceFolder for TLC. *)
EXTENDS ResourceFolder

CONSTANTS a, aOff, aDup, aDup2, b

\* A mod that can be disabled, and a folder, which cannot.
MCOrder == <<a, aOff, aDup, aDup2, b>>
MCToggled == a :> aOff @@ aOff :> a
MCSpares == aOff :> <<aDup, aDup2>>
=============================================================================
