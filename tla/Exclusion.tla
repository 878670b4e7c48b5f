----------------------------- MODULE Exclusion ------------------------------
(***************************************************************************)
(* What a lock promises, whatever implements it: a resource is taken only  *)
(* while nobody holds it, by one holder at a time; holders may give up, or *)
(* be lost, several at once.                                               *)
(***************************************************************************)
CONSTANTS Holders, Resources
VARIABLE holds    \* pairs of a holder and what it holds

Init == holds = {}

Take(h, r) ==
    /\ \A g \in Holders : <<g, r>> \notin holds
    /\ holds' = holds \cup {<<h, r>>}

GiveUp == holds' \subseteq holds

Next == GiveUp \/ \E h \in Holders, r \in Resources : Take(h, r)

Spec == Init /\ [][Next]_holds
=============================================================================
