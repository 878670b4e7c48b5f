----------------------------- MODULE MCRegisters -----------------------------
(* Every kind of document, two requests, two contents; an item without      *)
(* stock or with two lots, under every costing method; a quotation of which *)
(* two orders are made; a requisition of two lines; a loan of two           *)
(* instalments, the second short; two documents of an employee; an asset    *)
(* written off in two days, by lines entered by hand and drafts; two income *)
(* statement accounts (the two values that are documents elsewhere) in two  *)
(* fiscal years.                                                            *)
EXTENDS Registers

CONSTANTS q1, q2, d1, d2, c1, c2

Requests == {q1, q2}
Documents == {d1, d2}
Texts == {c1, c2}

ByHand == {<<"Acquisition Cost", 1>>, <<"Write-Down", 1>>, <<"Appreciation", 1>>,
           <<"Disposal", 1>>, <<"Depreciation", 1>>, <<"Depreciation", 3>>}

NothingOrTwoLots == {<<>>, <<[left |-> 1, cost |-> 1], [left |-> 1, cost |-> 2]>>}

(* Nothing is promised of stock after a lost update, and little after a     *)
(* credit memo, of payroll once a request wrote over a status that had      *)
(* changed, of an employee's documents once two requests met on one or a    *)
(* payroll line was removed by hand, of an asset once a line was posted     *)
(* twice or around a disposal, of the review of a requisition or the        *)
(* closing of an income statement once two overtook each other.             *)
Undisturbed ==
    /\ stockMarks \cap {"look", "return"} = {}
    /\ "late" \notin payMarks
    /\ impMarks \cap {"twice", "hand"} = {}
    /\ faMarks \cap {"twice", "changed", "revived"} = {}
    /\ reviewMarks = {} /\ closeMarks = {}

Symm == Permutations(Requests) \cup Permutations(Documents) \cup Permutations(Texts)
=============================================================================
