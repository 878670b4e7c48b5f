------------------------------- MODULE Places -------------------------------
(* Hostel beds, library copies and buses: who holds what.  The three        *)
(* services are one pattern: a request checks that the thing is free and    *)
(* the holder within the limit, and inserts the allocation, loan or work    *)
(* ticket later; nothing is locked and no unique index stands behind the    *)
(* check.  A request that gives back, or takes a thing out of service,      *)
(* checks and writes in the same way.                                       *)
(*                                                                          *)
(* Not here: gender and licence checks, dates, odometers, the invoice of a  *)
(* fine (Orders), a room deleted with its beds.                             *)
EXTENDS Naturals, Sequences, FiniteSets

CONSTANTS
    Things, Holders,
    Desks,          \* requests under way
    Limit,          \* loans a borrower may have
    MaxHoldings     \* bound on the allocations, loans or tickets

ASSUME PlacesAssumption == Limit \in Nat

VARIABLES
    placeKind,  \* which of the three
    placeState, \* status of each thing
    holdings,   \* allocations, loans or tickets: thing, holder, open, fine charged
    asked,      \* what each request has checked
    placeMarks  \* "both", "late", "charged": see the steps

placeVars == <<placeKind, placeState, holdings, asked, placeMarks>>

PlaceInit ==
    /\ placeKind \in {"bed", "copy", "bus"}
    /\ placeState = [t \in Things |-> "AVAILABLE"]
    /\ holdings = <<>>
    /\ asked = [k \in Desks |-> <<>>]
    /\ placeMarks = {}

OpenOf(t) == {i \in DOMAIN holdings : holdings[i].thing = t /\ holdings[i].open}
OpenBy(h) == {i \in DOMAIN holdings : holdings[i].holder = h /\ holdings[i].open}

(* A bed or a bus is free when nobody has it, a copy when its status says   *)
(* so; only a copy counts what the holder has                               *)
(* (first with a defect: the status alone decides).                         *)
FreeByStatus(t, h) == placeState[t] = "AVAILABLE" /\ (placeKind = "copy" => Cardinality(OpenBy(h)) < Limit)

FreePlace(t, h) ==
    /\ placeState[t] = "AVAILABLE"
    /\ IF placeKind = "copy" THEN Cardinality(OpenBy(h)) < Limit ELSE OpenOf(t) = {}

AskTake(k, t, h) ==
    /\ asked[k] = <<>> /\ FreePlace(t, h)
    /\ asked' = [asked EXCEPT ![k] = <<"take", t, h>>]
    /\ UNCHANGED <<placeKind, placeState, holdings, placeMarks>>

(* The holding is written: an occupant's other bed is vacated, a copy is    *)
(* marked on loan ("both": the thing is no longer free).                    *)
TakePlace(k) ==
    /\ asked[k] # <<>> /\ asked[k][1] = "take" /\ Len(holdings) < MaxHoldings
    /\ LET t == asked[k][2]
           h == asked[k][3]
           kept == [i \in DOMAIN holdings |->
                       IF placeKind = "bed" /\ i \in OpenBy(h) THEN [holdings[i] EXCEPT !.open = FALSE]
                       ELSE holdings[i]]
       IN  /\ holdings' = Append(kept, [thing |-> t, holder |-> h, open |-> TRUE, fines |-> 0])
           /\ placeState' = IF placeKind = "copy" THEN [placeState EXCEPT ![t] = "ON_LOAN"] ELSE placeState
           /\ placeMarks' = placeMarks \cup (IF FreePlace(t, h) THEN {} ELSE {"both"})
    /\ asked' = [asked EXCEPT ![k] = <<>>]
    /\ UNCHANGED placeKind

AskBack(k, i) ==
    /\ asked[k] = <<>> /\ holdings[i].open
    /\ asked' = [asked EXCEPT ![k] = <<"back", i>>]
    /\ UNCHANGED <<placeKind, placeState, holdings, placeMarks>>

(* Vacated, returned or lost, closed or cancelled: by key ("late": it had   *)
(* been given back already).                                                *)
GiveBack(k) ==
    /\ asked[k] # <<>> /\ asked[k][1] = "back"
    /\ LET i == asked[k][2]
       IN  /\ holdings' = [holdings EXCEPT ![i].open = FALSE]
           /\ \E s \in IF placeKind = "copy" THEN {"AVAILABLE", "LOST"} ELSE {placeState[holdings[i].thing]} :
                  placeState' = [placeState EXCEPT ![holdings[i].thing] = s]
           /\ placeMarks' = placeMarks \cup (IF holdings[i].open THEN {} ELSE {"late"})
    /\ asked' = [asked EXCEPT ![k] = <<>>]
    /\ UNCHANGED placeKind

(* Out of service or back: a bed nobody has, a copy not on loan, any bus.   *)
AskStatus(k, t, s) ==
    /\ asked[k] = <<>> /\ s # placeState[t]
    /\ placeKind = "bed" => s = "AVAILABLE" \/ OpenOf(t) = {}
    /\ placeKind = "copy" => placeState[t] # "ON_LOAN"
    /\ asked' = [asked EXCEPT ![k] = <<"status", t, s, placeState[t]>>]
    /\ UNCHANGED <<placeKind, placeState, holdings, placeMarks>>

SetState(k) ==
    /\ asked[k] # <<>> /\ asked[k][1] = "status"
    /\ LET t == asked[k][2]
       IN  /\ placeState' = [placeState EXCEPT ![t] = asked[k][3]]
           /\ placeMarks' = placeMarks \cup
                (IF placeState[t] # asked[k][4] \/ (placeKind = "bed" /\ OpenOf(t) # {}) THEN {"both"} ELSE {})
    /\ asked' = [asked EXCEPT ![k] = <<>>]
    /\ UNCHANGED <<placeKind, holdings>>

(* A fine is charged to the fee account once, unless two requests saw it    *)
(* uncharged ("charged").                                                   *)
AskFine(k, i) ==
    /\ asked[k] = <<>> /\ placeKind = "copy" /\ ~holdings[i].open /\ holdings[i].fines = 0
    /\ asked' = [asked EXCEPT ![k] = <<"fine", i>>]
    /\ UNCHANGED <<placeKind, placeState, holdings, placeMarks>>

ChargeFine(k) ==
    /\ asked[k] # <<>> /\ asked[k][1] = "fine"
    /\ holdings' = [holdings EXCEPT ![asked[k][2]].fines = @ + 1]
    /\ placeMarks' = placeMarks \cup (IF holdings[asked[k][2]].fines > 0 THEN {"charged"} ELSE {})
    /\ asked' = [asked EXCEPT ![k] = <<>>]
    /\ UNCHANGED <<placeKind, placeState>>

PlaceNext ==
    \E k \in Desks :
        \/ \E t \in Things, h \in Holders : AskTake(k, t, h)
        \/ \E i \in DOMAIN holdings : AskBack(k, i) \/ AskFine(k, i)
        \/ \E t \in Things, s \in {"AVAILABLE", "OUT"} : AskStatus(k, t, s)
        \/ TakePlace(k) \/ GiveBack(k) \/ SetState(k) \/ ChargeFine(k)

PlaceSpec == PlaceInit /\ [][PlaceNext]_placeVars

----------------------------------------------------------------------------
(* Over any sequence of moves, loans, returns and withdrawals: a thing has  *)
(* one holder, an occupant one bed, a borrower no more than the limit, a    *)
(* copy is marked on loan exactly while it is, a bed out of service is      *)
(* empty, a fine is charged once; unless two requests checked before either *)
(* wrote.                                                                   *)
HeldOnce ==
    /\ placeMarks \cap {"both", "late"} = {} =>
          /\ \A t \in Things : Cardinality(OpenOf(t)) <= 1
          /\ \A h \in Holders : placeKind = "bed" => Cardinality(OpenBy(h)) <= 1
          /\ \A h \in Holders : placeKind = "copy" => Cardinality(OpenBy(h)) <= Limit
          /\ \A t \in Things :
                /\ placeKind = "copy" => (placeState[t] = "ON_LOAN" <=> OpenOf(t) # {})
                /\ placeKind = "bed" /\ placeState[t] # "AVAILABLE" => OpenOf(t) = {}
    /\ "charged" \notin placeMarks => \A i \in DOMAIN holdings : holdings[i].fines <= 1
=============================================================================
