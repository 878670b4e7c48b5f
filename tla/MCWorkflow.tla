----------------------------- MODULE MCWorkflow -----------------------------
(* A small amount is approved by one person; a big one by a group level the  *)
(* requester shares, a second level of that group, and the principal.        *)
EXTENDS Workflow, TLC

CONSTANTS s1, s2
SessionSymmetry == Permutations(Sessions)

MCUsers == {"req", "amy", "ben", "boss"}

MCSteps ==
    [a \in {"small", "big"} |->
        IF a = "small" THEN << <<{"ben"}>> >>
        ELSE << <<{"req", "amy"}, {"ben"}>>, <<{"boss"}>> >>]
MCGrouped == [a \in {"small", "big"} |-> IF a = "small" THEN <<FALSE>> ELSE <<TRUE, FALSE>>]

AmyToBen == [u \in MCUsers |-> IF u = "amy" THEN "ben" ELSE Nobody]

\* the requester is head of department: alone at a step of the small amount's workflow
\* and at the last level of the next, and one of two at the first step of the big amount's
OwnSteps ==
    [a \in {"small", "big"} |->
        IF a = "small" THEN << <<{"req"}>>, <<{"amy", "ben"}, {"boss"}, {"req"}>> >>
        ELSE << <<{"req", "amy"}>>, <<{"boss"}>> >>]
OwnGrouped ==
    [a \in {"small", "big"} |-> IF a = "small" THEN <<FALSE, TRUE>> ELSE <<TRUE, FALSE>>]

MCSubstitute ==
    [u \in MCUsers |-> CASE u = "amy" -> "ben" [] u = "ben" -> "boss" [] u = "boss" -> "amy" [] OTHER -> Nobody]
ToRequester ==
    [u \in MCUsers |-> IF u = "amy" THEN "req" ELSE Nobody]
=============================================================================
