------------------------------ MODULE LeaseTable ------------------------------
(***************************************************************************)
(* What a table of exclusive leases promises its users: a task holds the   *)
(* keys it asked for all at once or not at all, no key has two holders, no *)
(* more than Slots tasks hold keys, and a task holds its keys in one       *)
(* uninterrupted stretch: one that has let go never holds them again.      *)
(* How many tasks are admitted or let go in one step is left open.         *)
(***************************************************************************)
EXTENDS Naturals, FiniteSets

CONSTANTS Items,    \* the tasks
          KeysOf,   \* the keys each of them asks for
          Slots     \* how many may hold keys at once

VARIABLES waiting,  \* tasks that have asked
          holders,  \* tasks that hold their keys
          over      \* tasks that have let go, or given up asking

leaseVars == <<waiting, holders, over>>

New == Items \ (waiting \cup holders \cup over)

Exclusive(S) == \A t, u \in S : t # u => KeysOf[t] \cap KeysOf[u] = {}

Init == waiting = {} /\ holders = {} /\ over = {}

Next ==
    /\ waiting' \subseteq waiting \cup New
    /\ holders' \subseteq holders \cup waiting \cup New
    /\ over' \subseteq over \cup holders \cup waiting
    /\ over \subseteq over'
    /\ waiting \cup holders \subseteq waiting' \cup holders' \cup over'
    /\ Exclusive(holders')
    /\ Cardinality(holders') <= Slots

Spec == Init /\ [][Next]_leaseVars
=============================================================================
