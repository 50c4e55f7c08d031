---------------------------- MODULE MCInstanceList ----------------------------
(* Instances of InstanceList for TLC. *)
EXTENDS InstanceList

CONSTANTS a, b, c, red, blue, s1

\* Nothing there yet, or three instances.
MCFirstDirs == {{}, {a, b, c}}

\* No group file, or one instance in a group.
MCFiles == {NoFile, [i \in {a, b, c} |-> IF i = a THEN red ELSE NoGroup]}
=============================================================================
