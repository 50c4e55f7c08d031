------------------------------ MODULE WorkPool ------------------------------
(***************************************************************************)
(* What a queue with a fixed number of slots promises: an item that waits  *)
(* is taken by a slot at most once, runs only while a slot holds it, and   *)
(* an item that has ended is never taken again.                            *)
(***************************************************************************)
CONSTANT Items
VARIABLES waiting,   \* items offered and not yet taken
          held,      \* items a slot has taken
          over       \* items that have ended

poolVars == <<waiting, held, over>>

Init == waiting = {} /\ held = {} /\ over = {}

\* A new item is offered: never one that waits, is held, or has ended.
Offer == \E i \in Items \ (waiting \cup held \cup over) :
            waiting' = waiting \cup {i} /\ UNCHANGED <<held, over>>

\* A slot takes one waiting item.
Take == \E i \in waiting :
            /\ waiting' = waiting \ {i}
            /\ held' = held \cup {i}
            /\ UNCHANGED over

\* Held items end.  A slot may keep an item that has ended (its end was not
\* reported), but no item leaves its slot before it has ended.
End == \E ended \in SUBSET held, left \in SUBSET held :
            /\ over' = over \cup ended
            /\ left \subseteq over \cup ended
            /\ held' = held \ left
            /\ UNCHANGED waiting

\* All waiting items are given up; held ones may end in the same moment.
GiveUp == \E ended \in SUBSET held, left \in SUBSET held :
            /\ over' = over \cup ended
            /\ left \subseteq over \cup ended
            /\ held' = held \ left
            /\ waiting' = {}

Next == Offer \/ Take \/ End \/ GiveUp

Spec == Init /\ [][Next]_poolVars
=============================================================================
