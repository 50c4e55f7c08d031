------------------------------ MODULE MCMetadata ------------------------------
(* Instances of Metadata for TLC. *)
EXTENDS Metadata

CONSTANTS meta, minecraft, v1, a, b

\* One component; its versions are on one list.
OneList == [v \in Versions |-> minecraft]

\* Jobs are alike: it is enough to say how many are offline.
LastOffline == {{}, {b}}
=============================================================================
