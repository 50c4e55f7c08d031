------------------------------ MODULE MCAccounts ------------------------------
(* Instances of Accounts for TLC. *)
EXTENDS Accounts

CONSTANTS a1, a2, a3

TwoAccounts == {a1, a2}
ThreeAccounts == {a1, a2, a3}
AllButSecond == {a1, a3}

\* a3 is a later login with the profile of a1.
SharedProfile == [a \in {a1, a2, a3} |-> IF a = a2 THEN 2 ELSE 1]
=============================================================================
