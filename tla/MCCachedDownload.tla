--------------------------- MODULE MCCachedDownload ---------------------------
(* Instances of CachedDownload for TLC. *)
EXTENDS CachedDownload

CONSTANTS a, b
=============================================================================
