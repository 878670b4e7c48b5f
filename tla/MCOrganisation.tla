--------------------------- MODULE MCOrganisation ---------------------------
(* Two requests over two positions and two people, or two notches and one   *)
(* employee, or two classes, two teachers and two lessons, one within the   *)
(* other's hours; a year of two terms and one of one; one exam.             *)
EXTENDS Organisation, TLC

CONSTANTS q1, q2, a1, a2, b1, b2, c1, c2, y1, y2, t1, t2, t3

Requests == {q1, q2}
Firsts == {a1, a2}
Seconds == {b1, b2}
Thirds == {c1, c2}

WithinHours == {<<1, 3>>, <<2, 3>>}
MCYearOf == (t1 :> y1) @@ (t2 :> y1) @@ (t3 :> y2)
MCSort == (t1 :> 1) @@ (t2 :> 2) @@ (t3 :> 1)

(* The behaviours in which nothing a mark names happened, but for the two   *)
(* of the pay: of the others little or nothing is promised after it.        *)
Orderly ==
    /\ hrMarks = {} /\ staffMarks \subseteq {"raised", "undone"}
    /\ calMarks = {} /\ planMarks = {}

Symm ==
    {a @@ b @@ c @@ q : a \in Permutations(Firsts), b \in Permutations(Seconds),
                        c \in Permutations(Thirds), q \in Permutations(Requests)}
=============================================================================
