----------------------------- MODULE MCServices -----------------------------
(* The parts of the system that keep registers of their own beside the      *)
(* ledgers: number series, the outbox, fee runs, beds, copies and buses,    *)
(* bank reconciliations, leave, students and their classes, employees'      *)
(* exits, reminders.  They share no state, so a behaviour is one of them    *)
(* while the others rest.                                                   *)
(*                                                                          *)
(* A number series with last year's line, which ends, and this year's,      *)
(* which does not; two messages; two fee runs that overlap, one of them     *)
(* split in three; a class with one place, one with two and one of the next *)
(* year; notice that costs nothing, one or two; reminders of three levels,  *)
(* two of them to be used; two of everything else, and two requests at each.*)
EXTENDS NoSeries, Outbox, FeeRun, Places, BankRec, Leave, Students, Exits, Reminders, TLC

CONSTANTS s1, s2, r1, r2, q1, q2, t1, t2, h1, h2, cA, cB, cC

Requests == {q1, q2}

MCLines == {1, 2}
MCStart == <<0, 2>>
MCFirst == <<1, 11>>
MCEnding == <<5, NoEnding>>
MCIncrement == <<2, 1>>

ScopeGrade == (r1 :> {s1, s2}) @@ (r2 :> {s1})
SplitAndWhole == (r1 :> <<33, 33, 34>>) @@ (r2 :> <<100>>)
\* two fee lines with a discount, nothing to pay
TwoLines == [lines |-> <<50, 25>>, discount |-> 10]
NothingToPay == [lines |-> <<>>, discount |-> 0]
AllBills == {TwoLines, NothingToPay}

MCStreams == {cA, cB, cC}
MCYear == (cA :> 1) @@ (cB :> 1) @@ (cC :> 2)
MCGrade == MCYear
MCCapacity == (cA :> 1) @@ (cB :> 2) @@ (cC :> 1)

MCDueOn == (0 :> 0) @@ (1 :> 1) @@ (2 :> 2)

----------------------------------------------------------------------------
VARIABLE part   \* which of them this behaviour is

servicesVars ==
    <<part, vars, outboxVars, feeVars, placeVars, recVars,
      leaveVars, studentVars, exitVars, remVars>>

ServicesInit ==
    /\ part \in {"numbers", "messages", "fees", "places", "statements", "leave",
                "students", "exits", "reminders"}
    /\ Init /\ OutboxInit /\ FeeInit /\ PlaceInit /\ RecInit /\ LeaveInit
    /\ StudentInit /\ ExitInit /\ RemInit
    /\ part # "fees" => bill = [s \in Students |-> CHOOSE b \in Bills : TRUE] /\ \A s \in Students : ready[s]
    /\ part # "places" => placeKind = "bed"

NumberStep ==
    /\ part = "numbers" /\ Next
    /\ UNCHANGED <<part, outboxVars, feeVars, placeVars, recVars, leaveVars,
                   studentVars, exitVars, remVars>>

OutboxStep ==
    /\ part = "messages" /\ OutboxNext
    /\ UNCHANGED <<part, vars, feeVars, placeVars, recVars, leaveVars,
                   studentVars, exitVars, remVars>>

FeeStep ==
    /\ part = "fees" /\ FeeNext
    /\ UNCHANGED <<part, vars, outboxVars, placeVars, recVars, leaveVars,
                   studentVars, exitVars, remVars>>

PlaceStep ==
    /\ part = "places" /\ PlaceNext
    /\ UNCHANGED <<part, vars, outboxVars, feeVars, recVars, leaveVars,
                   studentVars, exitVars, remVars>>

RecStep ==
    /\ part = "statements" /\ RecNext
    /\ UNCHANGED <<part, vars, outboxVars, feeVars, placeVars, leaveVars,
                   studentVars, exitVars, remVars>>

LeaveStep ==
    /\ part = "leave" /\ LeaveNext
    /\ UNCHANGED <<part, vars, outboxVars, feeVars, placeVars, recVars,
                   studentVars, exitVars, remVars>>

StudentStep ==
    /\ part = "students" /\ StudentNext
    /\ UNCHANGED <<part, vars, outboxVars, feeVars, placeVars, recVars,
                   leaveVars, exitVars, remVars>>

ExitStep ==
    /\ part = "exits" /\ ExitNext
    /\ UNCHANGED <<part, vars, outboxVars, feeVars, placeVars, recVars,
                   leaveVars, studentVars, remVars>>

ReminderStep ==
    /\ part = "reminders" /\ RemNext
    /\ UNCHANGED <<part, vars, outboxVars, feeVars, placeVars, recVars,
                   leaveVars, studentVars, exitVars>>

ServicesNext ==
    \/ NumberStep \/ OutboxStep \/ FeeStep \/ PlaceStep \/ RecStep \/ LeaveStep
    \/ StudentStep \/ ExitStep \/ ReminderStep

ServicesSpec == ServicesInit /\ [][ServicesNext]_servicesVars

----------------------------------------------------------------------------
(* The behaviours in which no two requests at a thing, at the leave of an   *)
(* employee, at a student, an exit or a reminder got in each other's way,   *)
(* and what the marks of those modules name besides did not happen: nothing *)
(* or little is promised of what follows.                                   *)
Undisturbed ==
    /\ placeMarks = {} /\ leaveMarks = {}
    /\ studentMarks = {} /\ exitMarks = {} /\ reminderMarks = {}

Symm == Permutations(Requests) \cup Permutations(Things)
=============================================================================
