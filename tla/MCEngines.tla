------------------------------- MODULE MCEngines -------------------------------
(* Instances of Engines for TLC.                                               *)
EXTENDS Engines

CONSTANTS library, asset

TwoDownloads == {library, asset}
=============================================================================
