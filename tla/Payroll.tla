------------------------------ MODULE Payroll ------------------------------
(* Payroll periods and one employee's loan, a REDUCING transaction line:    *)
(* runs write the payslip and take the instalment off the line's balance,   *)
(* closing posts the payslips and rolls the line into the next period.      *)
(* Every request reads the period's status without a lock and writes later, *)
(* by key.  A run writes in one step: of two that overlap the unique P9     *)
(* line refuses one.  So does the unique name of the next period with two   *)
(* closings.                                                                *)
(*                                                                          *)
(* Not here: the arithmetic of taxes and statutories, formulas, employees   *)
(* paid side by side, lines for N periods, a name typed at closing.         *)
EXTENDS Integers, Sequences, Functions

CONSTANTS
    PayClerks,      \* requests under way
    Loan,           \* the loan
    Instalment,     \* its amount per period
    PeriodNames     \* names of periods, consecutive months

(* Amounts in cents, and a loan of something.                               *)
ASSUME LoanAssumption == Loan \in Nat \ {0} /\ Instalment \in Nat

VARIABLES
    periods,    \* in the order they were opened: payroll_period, its payslip, its line
    payReads,   \* the request, the period and the status it read
    payMarks    \* "again", "late", "hand", "beside": see the steps

payVars == <<periods, payReads, payMarks>>

Months == DOMAIN periods
NoLine == <<>>
LoanLine(balance) == <<[balance |-> balance, stopped |-> FALSE]>>

Period(name, line) ==
    [name |-> name, status |-> "OPEN", ran |-> FALSE, slip |-> 0, posted |-> 0, line |-> line]

PayInit ==
    /\ \E name \in PeriodNames : periods = <<Period(name, LoanLine(Loan))>>
    /\ payReads = [c \in PayClerks |-> <<>>]
    /\ payMarks = {}

Named(name) == \E n \in Months : periods[n].name = name

(* What each request demands of the period's status when it reads it        *)
Demands(op) ==
    CASE op \in {"run", "submit"} -> {"OPEN"}
      [] op \in {"return", "approve"} -> {"PENDING_APPROVAL"}
      [] OTHER -> {"APPROVED"}

PayAsk(c, op, n) ==
    /\ payReads[c] = <<>>
    /\ periods[n].status \in Demands(op)
    /\ op = "submit" => periods[n].ran
    /\ payReads' = [payReads EXCEPT ![c] = <<op, n, periods[n].status>>]
    /\ UNCHANGED <<periods, payMarks>>

PayDoing(c, op) == payReads[c] # <<>> /\ payReads[c][1] = op
Nr(c) == payReads[c][2]

PayDone(c, marks) ==
    /\ payReads' = [payReads EXCEPT ![c] = <<>>]
    /\ payMarks' = payMarks \cup marks
         \cup (IF periods[Nr(c)].status # payReads[c][3] THEN {"late"} ELSE {})

(* The line after a run took the instalment off it.                         *)
Reduced(line) ==
    LET left == IF line[1].balance > Instalment THEN line[1].balance - Instalment ELSE 0
    IN  <<[balance |-> left, stopped |-> left = 0]>>

(* A run replaces the payslip; the instalment comes off the balance every   *)
(* time ("again": the period had been run before).                          *)
RunPeriod(c) ==
    /\ PayDoing(c, "run")
    /\ LET p == periods[Nr(c)]
           due == p.line # NoLine /\ ~p.line[1].stopped
       IN  /\ periods' = [periods EXCEPT ![Nr(c)] =
                  [p EXCEPT !.ran = TRUE,
                            !.slip = IF due THEN Instalment ELSE 0,
                            !.line = IF due THEN Reduced(@) ELSE @]]
           /\ PayDone(c, IF p.ran THEN {"again"} ELSE {})

(* Sent, returned (recalled or rejected), approved, reopened.               *)
SetPeriodStatus(c) ==
    /\ payReads[c] # <<>> /\ payReads[c][1] \in {"submit", "return", "approve", "reopen"}
    /\ periods' = [periods EXCEPT ![Nr(c)].status =
            CASE payReads[c][1] = "submit" -> "PENDING_APPROVAL"
              [] payReads[c][1] = "approve" -> "APPROVED"
              [] OTHER -> "OPEN"]
    /\ PayDone(c, {})

(* What of the line the next period starts with: nothing once it is stopped *)
(* (first with a defect: it starts from the original amount again).         *)
RolledAnew(line) == IF line = NoLine \/ line[1].stopped THEN NoLine ELSE LoanLine(Loan)

Rolled(line) == IF line = NoLine \/ line[1].stopped THEN NoLine ELSE LoanLine(line[1].balance)

(* The payslip is posted, keyed to the period; the next period opens.       *)
ClosePeriod(c) ==
    /\ PayDoing(c, "close")
    /\ LET n == Nr(c)
           p == periods[n]
       IN  /\ p.name + 1 \in PeriodNames /\ ~Named(p.name + 1)
           /\ periods' = Append(
                  [periods EXCEPT ![n] =
                      [p EXCEPT !.status = "CLOSED",
                                !.posted = IF p.status = "CLOSED" THEN p.posted ELSE p.slip]],
                  Period(p.name + 1, Rolled(p.line)))
    /\ PayDone(c, {})

(* The period has a name already taken, the run's net pay would be          *)
(* negative, the user gives up.                                             *)
PayRefused(c) ==
    /\ payReads[c] # <<>>
    /\ payReads' = [payReads EXCEPT ![c] = <<>>]
    /\ UNCHANGED <<periods, payMarks>>

(* A period opened by hand, refused beside an open or pending one but not   *)
(* beside an approved one.                                                  *)
CreatePeriod(name) ==
    /\ ~Named(name)
    /\ \A n \in Months : periods[n].status \notin {"OPEN", "PENDING_APPROVAL"}
    /\ periods' = Append(periods, Period(name, NoLine))
    /\ payMarks' = payMarks \cup
         (IF \E n \in Months : periods[n].status = "APPROVED" THEN {"beside"} ELSE {})
    /\ UNCHANGED payReads

(* The line is removed from an open period, stopped or made active again.   *)
ChangeLine(n) ==
    /\ periods[n].line # NoLine
    /\ \/ periods[n].status = "OPEN" /\ periods' = [periods EXCEPT ![n].line = NoLine]
       \/ periods' = [periods EXCEPT ![n].line[1].stopped = ~periods[n].line[1].stopped]
    /\ payMarks' = payMarks \cup {"hand"}
    /\ UNCHANGED payReads

PayNext ==
    \/ \E c \in PayClerks :
          \/ \E op \in {"run", "submit", "return", "approve", "reopen", "close"}, n \in Months :
                PayAsk(c, op, n)
          \/ RunPeriod(c) \/ SetPeriodStatus(c) \/ ClosePeriod(c) \/ PayRefused(c)
    \/ \E name \in PeriodNames : CreatePeriod(name)
    \/ \E n \in Months : ChangeLine(n)

PaySpec == PayInit /\ [][PayNext]_payVars

----------------------------------------------------------------------------
Deducted == SumFunction([n \in Months |-> periods[n].slip])

(* The line of the loan that still runs: the last that there is.            *)
LastLine == {n \in Months : periods[n].line # NoLine /\ \A k \in Months : periods[k].line # NoLine => k <= n}

(* What is left of the loan is what the payslips have not deducted.         *)
LoanAgrees ==
    \A n \in LastLine :
        periods[n].line[1].balance = IF Loan > Deducted THEN Loan - Deducted ELSE 0

(* Through runs, approvals, reopenings and closings: the loan's balance is  *)
(* what the payslips left of it and the deductions pass the loan by less    *)
(* than an instalment, unless a period was run again, a request wrote over  *)
(* a status changed since it was read, or the line was changed by hand.  A  *)
(* closed period has posted the payslip it shows, unless overtaken.  Only   *)
(* one period is open or pending, unless one was created beside an approved *)
(* one.                                                                     *)
PayrollHolds ==
    /\ payMarks \subseteq {"beside"} =>
          LoanAgrees /\ Deducted < Loan + Instalment
    /\ "late" \notin payMarks =>
          \A n \in Months : periods[n].status = "CLOSED" => periods[n].posted = periods[n].slip
    /\ payMarks \cap {"late", "beside"} = {} =>
          \A n, k \in Months :
              {periods[n].status, periods[k].status} \subseteq {"OPEN", "PENDING_APPROVAL"} => n = k

(* The comment on a run, "re-runnable": running a period again leaves the   *)
(* loan with what the payslips have not deducted.                           *)
RunIsRepeatable == payMarks \subseteq {"again"} => LoanAgrees
=============================================================================
