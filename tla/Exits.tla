------------------------------- MODULE Exits --------------------------------
(* Employees who leave: the exit request of one employee with its final     *)
(* dues, its approval, the clearance of its sections, and the payroll the   *)
(* dues are handed to when the last section clears.  The checks of a        *)
(* request come before its writes; the dates of an exit are saved and the   *)
(* dues calculated from them in statements of their own; a clearance is one *)
(* transaction that locks its own section's row only.                       *)
(*                                                                          *)
(* Not here: overtaken approvals (DocumentLife), the mails to the sections, *)
(* what the dues are calculated from besides the dates, gratuity lines      *)
(* (they are always zero and never handed over).                            *)
EXTENDS Naturals, Sequences, FiniteSets, SequencesExt

CONSTANTS
    Sections,      \* hr_clearance_section
    ExitDesks,     \* requests under way
    ExitDates,     \* dates an exit can have; 0: none yet
    DueOn,         \* what the dates cost an employee who does not serve the notice
    ManualTypes,   \* due types of the lines added by hand
    MaxExits, MaxManual, MaxPeriods   \* bounds

ASSUME ExitAssumption ==
    Sections # {} /\ 0 \in ExitDates /\ DueOn \in [ExitDates -> Nat] /\ MaxPeriods \in Nat

VARIABLES
    exits,      \* dates, status, calculated and manual due lines, sections cleared, cleared
    employee,   \* employee.status
    payPeriod,  \* the payroll period and whether it is open
    payLines,   \* the lines the payroll has got: period, exit, due
    exitDesk,   \* what each request has read
    exitMarks   \* "both", "together", "late", "skew", "again", "nowhere"

exitVars == <<exits, employee, payPeriod, payLines, exitDesk, exitMarks>>

DueType == [type : {"NOTICE_PENALTY"} \cup ManualTypes, amount : Nat]
ExitType == [dates : ExitDates, status : {"Open", "Pending", "Approved"}, auto : Seq(DueType),
             manual : Seq(DueType), done : SUBSET Sections, cleared : BOOLEAN]
LineType == [period : Nat, exit : Nat, due : DueType]
VisitType == [op : {"idle", "create", "dates", "line", "recompute", "insert", "clear"}, n : Nat,
              date : ExitDates, sections : SUBSET Sections, last : BOOLEAN, period : Nat]
NoVisit == [op |-> "idle", n |-> 0, date |-> 0, sections |-> {}, last |-> FALSE, period |-> 0]
On(op, n) == [NoVisit EXCEPT !.op = op, !.n = n]

ExitTypeOK ==
    /\ exits \in Seq(ExitType) /\ employee \in {"ACTIVE", "PENDING_FINAL_PAYMENT"}
    /\ payPeriod \in [no : Nat \ {0}, open : BOOLEAN]
    /\ payLines \in Seq(LineType) /\ \A i \in DOMAIN payLines : payLines[i].exit \in DOMAIN exits
    /\ exitDesk \in [ExitDesks -> VisitType]
    /\ \A k \in ExitDesks : exitDesk[k].op \notin {"idle", "create"} => exitDesk[k].n \in DOMAIN exits
    /\ exitMarks \subseteq {"both", "together", "late", "skew", "again", "nowhere"}

ExitInit ==
    /\ exits = <<>> /\ employee = "ACTIVE"
    /\ payPeriod = [no |-> 1, open |-> TRUE] /\ payLines = <<>>
    /\ exitDesk = [k \in ExitDesks |-> NoVisit]
    /\ exitMarks = {}

At(k, op) == exitDesk[k].op = op
PenaltyOf(d) == IF DueOn[d] > 0 THEN <<[type |-> "NOTICE_PENALTY", amount |-> DueOn[d]]>> ELSE <<>>
Dues(n) == exits[n].auto \o exits[n].manual
Noted(condition, name) == IF condition THEN {name} ELSE {}

InProgress == {n \in DOMAIN exits : exits[n].status # "Approved"}

(* An exit is asked for while the employee is active and none is under way. *)
AskExit(k) ==
    /\ At(k, "idle") /\ employee = "ACTIVE" /\ InProgress = {}
    /\ exitDesk' = [exitDesk EXCEPT ![k] = On("create", 0)]
    /\ UNCHANGED <<exits, employee, payPeriod, payLines, exitMarks>>

(* The request, its clearance lines and its dues are inserted together.     *)
CreateExit(k, d) ==
    /\ At(k, "create") /\ Len(exits) < MaxExits
    /\ exits' = Append(exits, [dates |-> d, status |-> "Open", auto |-> PenaltyOf(d), manual |-> <<>>,
                               done |-> {}, cleared |-> FALSE])
    /\ exitMarks' = exitMarks \cup Noted(InProgress # {}, "both")
    /\ exitDesk' = [exitDesk EXCEPT ![k] = NoVisit]
    /\ UNCHANGED <<employee, payPeriod, payLines>>

(* An edit of an open request: of its dates, or of one due line.            *)
AskEdit(k, n, op) ==
    /\ At(k, "idle") /\ exits[n].status = "Open"
    /\ exitDesk' = [exitDesk EXCEPT ![k] = On(op, n)]
    /\ UNCHANGED <<exits, employee, payPeriod, payLines, exitMarks>>

Calculating(n) == {k \in ExitDesks : (At(k, "recompute") \/ At(k, "insert")) /\ exitDesk[k].n = n}

(* ("late": the request is not open any more; "together": another edit has  *)
(* not finished its calculation)                                            *)
SaveDates(k, d) ==
    /\ At(k, "dates")
    /\ LET n == exitDesk[k].n
       IN  /\ exits' = [exits EXCEPT ![n].dates = d]
           /\ exitDesk' = [exitDesk EXCEPT ![k] = On("recompute", n)]
           /\ exitMarks' = exitMarks \cup Noted(exits[n].status # "Open", "late")
                                     \cup Noted(Calculating(n) # {}, "together")
    /\ UNCHANGED <<employee, payPeriod, payLines>>

(* What is left of the calculated lines before the new ones are inserted    *)
(* (first with a defect: they stay).                                        *)
LinesStay(auto) == auto
LinesCleared(auto) == <<>>

(* The calculation reads the dates and deletes the lines calculated before. *)
ReadDates(k) ==
    /\ At(k, "recompute")
    /\ LET n == exitDesk[k].n
       IN  /\ exits' = [exits EXCEPT ![n].auto = LinesCleared(@)]
           /\ exitDesk' = [exitDesk EXCEPT ![k] = [On("insert", n) EXCEPT !.date = exits[n].dates]]
           /\ exitMarks' = exitMarks \cup Noted(exits[n].status # "Open", "late")
    /\ UNCHANGED <<employee, payPeriod, payLines>>

InsertDues(k) ==
    /\ At(k, "insert")
    /\ LET n == exitDesk[k].n
       IN  /\ exits' = [exits EXCEPT ![n].auto = @ \o PenaltyOf(exitDesk[k].date)]
           /\ exitMarks' = exitMarks \cup Noted(exits[n].status # "Open", "late")
    /\ exitDesk' = [exitDesk EXCEPT ![k] = NoVisit]
    /\ UNCHANGED <<employee, payPeriod, payLines>>

(* A line is added or removed by hand.                                      *)
EditDue(k) ==
    /\ At(k, "line")
    /\ LET n == exitDesk[k].n
       IN  /\ \/ Len(exits[n].manual) < MaxManual /\ \E type \in ManualTypes :
                    exits' = [exits EXCEPT ![n].manual = Append(@, [type |-> type, amount |-> 1])]
              \/ \E i \in DOMAIN exits[n].manual : exits' = [exits EXCEPT ![n].manual = RemoveAt(@, i)]
              \/ \E i \in DOMAIN exits[n].auto : exits' = [exits EXCEPT ![n].auto = RemoveAt(@, i)]
           /\ exitMarks' = exitMarks \cup Noted(exits[n].status # "Open", "late")
    /\ exitDesk' = [exitDesk EXCEPT ![k] = NoVisit]
    /\ UNCHANGED <<employee, payPeriod, payLines>>

(* Submitted, recalled or rejected, approved.                               *)
MoveExit(n) ==
    /\ \/ exits[n].status = "Open" /\ exits[n].dates # 0 /\ exits' = [exits EXCEPT ![n].status = "Pending"]
       \/ exits[n].status = "Pending" /\ \E st \in {"Open", "Approved"} : exits' = [exits EXCEPT ![n].status = st]
    /\ UNCHANGED <<employee, payPeriod, payLines, exitDesk, exitMarks>>

(* A clearance marks its section, whose row stays locked, and looks for     *)
(* sections left and, if there are none, for the open payroll period.       *)
ClearSection(k, n, section) ==
    /\ At(k, "idle") /\ exits[n].status = "Approved"
    /\ \A other \in ExitDesks : ~(At(other, "clear") /\ exitDesk[other].n = n /\ exitDesk[other].sections = {section})
    /\ exitDesk' = [exitDesk EXCEPT ![k] =
         [On("clear", n) EXCEPT !.sections = {section}, !.last = (exits[n].done \cup {section} = Sections),
                                !.period = IF payPeriod.open THEN payPeriod.no ELSE 0]]
    /\ UNCHANGED <<exits, employee, payPeriod, payLines, exitMarks>>

(* The payroll takes one line of a kind per employee and period, and only   *)
(* while the period is open; it refuses all of the dues or none.            *)
Taken(period) == {payLines[i].due.type : i \in {j \in DOMAIN payLines : payLines[j].period = period}}
Distinct(dues) == \A i, j \in DOMAIN dues : i # j => dues[i].type # dues[j].type

Refused(n, period) ==
    /\ period # 0 /\ Dues(n) # <<>>
    /\ \/ payPeriod # [no |-> period, open |-> TRUE]
       \/ ~Distinct(Dues(n))
       \/ \E i \in DOMAIN Dues(n) : Dues(n)[i].type \in Taken(period)

(* A clearance that saw sections left commits ("skew": each of two last     *)
(* clearances missed the other).                                            *)
CommitSection(k) ==
    /\ At(k, "clear") /\ ~exitDesk[k].last
    /\ LET n == exitDesk[k].n
       IN  /\ exits' = [exits EXCEPT ![n].done = @ \cup exitDesk[k].sections]
           /\ exitMarks' = exitMarks \cup Noted(exits[n].done \cup exitDesk[k].sections = Sections, "skew")
    /\ exitDesk' = [exitDesk EXCEPT ![k] = NoVisit]
    /\ UNCHANGED <<employee, payPeriod, payLines>>

(* When it saw all sections cleared, the employee awaits the final payment  *)
(* and the dues go to the payroll ("again": the exit was cleared before;    *)
(* "nowhere": there was none, and the dues go nowhere).                   *)
CommitExit(k) ==
    /\ At(k, "clear") /\ exitDesk[k].last
    /\ LET n == exitDesk[k].n
           period == exitDesk[k].period
       IN  /\ ~Refused(n, period)
           /\ exits' = [exits EXCEPT ![n].done = Sections, ![n].cleared = TRUE]
           /\ payLines' = payLines \o (IF period = 0 THEN <<>>
                 ELSE [i \in DOMAIN Dues(n) |-> [period |-> period, exit |-> n, due |-> Dues(n)[i]]])
           /\ exitMarks' = exitMarks \cup Noted(exits[n].cleared, "again") \cup Noted(period = 0, "nowhere")
    /\ employee' = "PENDING_FINAL_PAYMENT"
    /\ exitDesk' = [exitDesk EXCEPT ![k] = NoVisit]
    /\ UNCHANGED payPeriod

(* The payroll refuses, and the clearance is undone with it.                *)
RefuseExit(k) ==
    /\ At(k, "clear") /\ exitDesk[k].last /\ Refused(exitDesk[k].n, exitDesk[k].period)
    /\ exitDesk' = [exitDesk EXCEPT ![k] = NoVisit]
    /\ UNCHANGED <<exits, employee, payPeriod, payLines, exitMarks>>

(* The payroll closes its period, or opens the next.                        *)
TurnPeriod ==
    /\ \/ payPeriod.open /\ payPeriod' = [payPeriod EXCEPT !.open = FALSE]
       \/ ~payPeriod.open /\ payPeriod.no < MaxPeriods /\ payPeriod' = [no |-> payPeriod.no + 1, open |-> TRUE]
    /\ UNCHANGED <<exits, employee, payLines, exitDesk, exitMarks>>

ExitNext ==
    \/ \E k \in ExitDesks :
          \/ AskExit(k)
          \/ \E d \in ExitDates : CreateExit(k, d) \/ SaveDates(k, d)
          \/ ReadDates(k) \/ InsertDues(k) \/ EditDue(k)
          \/ CommitSection(k) \/ CommitExit(k) \/ RefuseExit(k)
          \/ \E n \in DOMAIN exits :
                \/ \E op \in {"dates", "line"} : AskEdit(k, n, op)
                \/ \E section \in Sections : ClearSection(k, n, section)
    \/ \E n \in DOMAIN exits : MoveExit(n)
    \/ TurnPeriod

ExitSpec == ExitInit /\ [][ExitNext]_exitVars

----------------------------------------------------------------------------
Spared(names) == names \cap exitMarks = {}
LinesOf(n) == {i \in DOMAIN payLines : payLines[i].exit = n}
GotDues(n) ==
    \E a \in 0 .. Len(payLines) :
       /\ LinesOf(n) = a + 1 .. a + Len(Dues(n))
       /\ \A i \in DOMAIN Dues(n) : payLines[a + i].due = Dues(n)[i]

(* From the request to the last clearance: one exit of an employee is in    *)
(* progress at a time; the calculated dues are those of the present dates,  *)
(* at most once (a line may have been removed by hand); an exit is cleared  *)
(* exactly when all its sections are, by an approved request, and then the  *)
(* employee awaits the final payment and the payroll has got the dues, each *)
(* line once and none twice of a kind in a period.  Unless requests         *)
(* overtook one another, a cleared section was cleared again, the payroll   *)
(* had no open period, or it refuses the dues.                              *)
ExitsSound ==
    /\ Spared({"both"}) => Cardinality(InProgress) <= 1
    /\ \A n \in DOMAIN exits :
          /\ Spared({"together"}) /\ Calculating(n) = {} => exits[n].auto \in {<<>>, PenaltyOf(exits[n].dates)}
          /\ exits[n].cleared => exits[n].status = "Approved" /\ exits[n].done = Sections
          /\ Spared({"skew"}) /\ exits[n].done = Sections => exits[n].cleared
          /\ Spared({"late", "again", "nowhere"}) =>
                IF exits[n].cleared THEN GotDues(n) ELSE LinesOf(n) = {}
    /\ \A i, j \in DOMAIN payLines :
          i # j => payLines[i].period # payLines[j].period \/ payLines[i].due.type # payLines[j].due.type
    /\ employee = "PENDING_FINAL_PAYMENT" <=> \E n \in DOMAIN exits : exits[n].cleared

(* An approved exit can be cleared: no two of its lines are of one kind.    *)
(* (The code does not see to it, and an approved exit cannot be edited.)    *)
Clearable == \A n \in DOMAIN exits : exits[n].status = "Approved" => Distinct(Dues(n))
=============================================================================
