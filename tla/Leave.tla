------------------------------- MODULE Leave -------------------------------
(* One employee's days of one leave type that checks its balance and is     *)
(* carried forward: applications, recalls, adjustments, accrual, and the    *)
(* closing of the leave calendar.  An application checks the balance when   *)
(* it is created, not when it is approved; a recall looks at recalls that   *)
(* were sent before, not at open ones; the closing reads the balance and    *)
(* closes the ledger in a later step.                                       *)
(*                                                                          *)
(* Not here: overtaken approvals (DocumentLife), dates, holidays, the leave *)
(* allowance, reimbursements, a calendar made current by hand.              *)
EXTENDS Integers, Sequences, FiniteSets, Functions

CONSTANTS
    LeaveDesks,         \* requests under way
    DaysApplied,        \* days an application is for
    Standard, MaxCarry, \* standard_days, max_carry_forward_days
    MaxCalendars, MaxApps, MaxRecalls, MaxGrants   \* bounds

ASSUME LeaveAssumption == DaysApplied \subseteq Nat /\ Standard \in Nat /\ MaxCarry \in Nat

VARIABLES
    balance,    \* open days in the ledger, per calendar
    current,    \* the calendars that are current
    apps,       \* hr_leave_application
    recalls,    \* hr_leave_recall
    granted,    \* days allotted, accrued or adjusted upwards so far
    leaveDesk,  \* what each request has read
    leaveMarks  \* "both", "late", "down", "recalls", "twice": see the steps

leaveVars == <<balance, current, apps, recalls, granted, leaveDesk, leaveMarks>>

LeaveStatuses == {"Open", "Pending", "Approved", "Deleted"}
AppType == [cal : Nat, days : Nat, status : LeaveStatuses]
RecallType == [app : Nat, days : Nat, status : LeaveStatuses]
DeskType == [op : {"idle", "apply", "accrue", "close", "carry"}, cal : Nat, days : Int]
Away == [op |-> "idle", cal |-> 0, days |-> 0]

LeaveTypeOK ==
    /\ balance \in Seq(Int) /\ current \subseteq DOMAIN balance /\ granted \in Nat
    /\ apps \in Seq(AppType) /\ recalls \in Seq(RecallType)
    /\ \A n \in DOMAIN apps : apps[n].cal \in DOMAIN balance
    /\ \A r \in DOMAIN recalls : recalls[r].app \in DOMAIN apps
    /\ leaveDesk \in [LeaveDesks -> DeskType]
    /\ \A k \in LeaveDesks : leaveDesk[k].op # "idle" => leaveDesk[k].cal \in DOMAIN balance
    /\ \A k \in LeaveDesks : leaveDesk[k].op = "apply" => leaveDesk[k].days \in Nat
    /\ leaveMarks \subseteq {"both", "late", "down", "recalls", "twice"}

DaysOf(seq, S) == SumFunctionOnSet([i \in DOMAIN seq |-> seq[i].days], S)
Unposted == {n \in DOMAIN apps : apps[n].status \in {"Open", "Pending"}}
Carry(days) == IF days < 0 THEN 0 ELSE IF days > MaxCarry THEN MaxCarry ELSE days

LeaveInit ==
    /\ balance = <<Standard>> /\ current = {1}
    /\ apps = <<>> /\ recalls = <<>>
    /\ granted = Standard
    /\ leaveDesk = [k \in LeaveDesks |-> Away]
    /\ leaveMarks = {}

(* An application is checked against the balance ...                        *)
AskLeave(k, days) ==
    /\ leaveDesk[k].op = "idle" /\ Len(apps) < MaxApps
    /\ \E c \in current :
          /\ days <= balance[c]
          /\ leaveDesk' = [leaveDesk EXCEPT ![k] = [op |-> "apply", cal |-> c, days |-> days]]
    /\ UNCHANGED <<balance, current, apps, recalls, granted, leaveMarks>>

(* ... and inserted ("both": beside one that is not posted, or the balance  *)
(* is gone by now).                                                         *)
CreateApp(k) ==
    /\ leaveDesk[k].op = "apply" /\ Len(apps) < MaxApps
    /\ LET c == leaveDesk[k].cal
           days == leaveDesk[k].days
       IN  /\ apps' = Append(apps, [cal |-> c, days |-> days, status |-> "Open"])
           /\ leaveMarks' = leaveMarks \cup
                (IF Unposted # {} \/ days > balance[c] THEN {"both"} ELSE {})
    /\ leaveDesk' = [leaveDesk EXCEPT ![k] = Away]
    /\ UNCHANGED <<balance, current, recalls, granted>>

(* Sent, recalled or rejected, deleted.                                     *)
MoveApp(n) ==
    /\ \/ apps[n].status = "Open" /\ \E st \in {"Pending", "Deleted"} : apps' = [apps EXCEPT ![n].status = st]
       \/ apps[n].status = "Pending" /\ apps' = [apps EXCEPT ![n].status = "Open"]
    /\ UNCHANGED <<balance, current, recalls, granted, leaveDesk, leaveMarks>>

(* The closings that have read the balance of a calendar.                   *)
Carrying(c) == \E k \in LeaveDesks : leaveDesk[k].op = "carry" /\ leaveDesk[k].cal = c

(* ("late": an entry for a calendar whose balance has been carried on)      *)
Entry(c, days) ==
    /\ balance' = [balance EXCEPT ![c] = @ + days]
    /\ leaveMarks' = leaveMarks \cup (IF c \notin current \/ Carrying(c) THEN {"late"} ELSE {})

(* Approval posts the days to the calendar the application was created in.  *)
ApproveApp(n) ==
    /\ apps[n].status = "Pending"
    /\ apps' = [apps EXCEPT ![n].status = "Approved"]
    /\ Entry(apps[n].cal, -apps[n].days)
    /\ UNCHANGED <<current, recalls, granted, leaveDesk>>

(* What of an application can still be recalled                             *)
(* (first with a defect: the recalls before are forgotten).                 *)
RemainingAll(n) == apps[n].days

Remaining(n) ==
    apps[n].days - DaysOf(recalls, {r \in DOMAIN recalls :
                                       recalls[r].app = n /\ recalls[r].status \in {"Pending", "Approved"}})

(* ("recalls": created beside an open one of the application)               *)
CreateRecall(n, days) ==
    /\ apps[n].status = "Approved" /\ days <= Remaining(n) /\ Len(recalls) < MaxRecalls
    /\ leaveMarks' = leaveMarks \cup
         (IF \E r \in DOMAIN recalls : recalls[r].app = n /\ recalls[r].status = "Open" THEN {"recalls"} ELSE {})
    /\ recalls' = Append(recalls, [app |-> n, days |-> days, status |-> "Open"])
    /\ UNCHANGED <<balance, current, apps, granted, leaveDesk>>

(* Sent, recalled or rejected, deleted.                                     *)
MoveRecall(r) ==
    /\ \/ recalls[r].status = "Open" /\ \E st \in {"Pending", "Deleted"} : recalls' = [recalls EXCEPT ![r].status = st]
       \/ recalls[r].status = "Pending" /\ recalls' = [recalls EXCEPT ![r].status = "Open"]
    /\ UNCHANGED <<balance, current, apps, granted, leaveDesk, leaveMarks>>

ApproveRecall(r) ==
    /\ recalls[r].status = "Pending"
    /\ recalls' = [recalls EXCEPT ![r].status = "Approved"]
    /\ Entry(apps[recalls[r].app].cal, recalls[r].days)
    /\ UNCHANGED <<current, apps, granted, leaveDesk>>

(* An adjustment is approved ("down": a negative one).                      *)
ApproveAdjustment(days) ==
    /\ granted + days <= MaxGrants
    /\ \E c \in current :
          /\ balance' = [balance EXCEPT ![c] = @ + days]
          /\ leaveMarks' = leaveMarks \cup (IF days < 0 THEN {"down"} ELSE {})
                                      \cup (IF Carrying(c) THEN {"late"} ELSE {})
    /\ granted' = IF days > 0 THEN granted + days ELSE granted
    /\ UNCHANGED <<current, apps, recalls, leaveDesk>>

(* Accrual and closing read the current calendar first.                     *)
ReadCalendar(k, op) ==
    /\ leaveDesk[k].op = "idle"
    /\ op = "close" => Len(balance) < MaxCalendars
    /\ \E c \in current : leaveDesk' = [leaveDesk EXCEPT ![k] = [op |-> op, cal |-> c, days |-> 0]]
    /\ UNCHANGED <<balance, current, apps, recalls, granted, leaveMarks>>

Accrue(k) ==
    /\ leaveDesk[k].op = "accrue" /\ granted < MaxGrants
    /\ Entry(leaveDesk[k].cal, 1)
    /\ granted' = granted + 1
    /\ leaveDesk' = [leaveDesk EXCEPT ![k] = Away]
    /\ UNCHANGED <<current, apps, recalls>>

ReadBalance(k) ==
    /\ leaveDesk[k].op = "close"
    /\ leaveDesk' = [leaveDesk EXCEPT ![k] = [op |-> "carry", cal |-> @.cal, days |-> balance[@.cal]]]
    /\ UNCHANGED <<balance, current, apps, recalls, granted, leaveMarks>>

(* The next calendar opens with what is carried and the standard days; what *)
(* is in the ledger of the old one by now is closed.                        *)
CloseCalendar(k) ==
    /\ leaveDesk[k].op = "carry" /\ Len(balance) < MaxCalendars
    /\ LET c == leaveDesk[k].cal
       IN  /\ balance' = Append([balance EXCEPT ![c] = 0], Carry(leaveDesk[k].days) + Standard)
           /\ current' = (current \ {c}) \cup {Len(balance) + 1}
           /\ leaveMarks' = leaveMarks \cup (IF c \notin current THEN {"twice"} ELSE {})
    /\ granted' = granted + Standard
    /\ leaveDesk' = [leaveDesk EXCEPT ![k] = Away]
    /\ UNCHANGED <<apps, recalls>>

LeaveNext ==
    \/ \E k \in LeaveDesks :
          \/ \E days \in DaysApplied : AskLeave(k, days)
          \/ \E op \in {"accrue", "close"} : ReadCalendar(k, op)
          \/ CreateApp(k) \/ Accrue(k) \/ ReadBalance(k) \/ CloseCalendar(k)
    \/ \E n \in DOMAIN apps :
          \/ MoveApp(n) \/ ApproveApp(n)
          \/ \E days \in DaysApplied : CreateRecall(n, days)
    \/ \E r \in DOMAIN recalls : MoveRecall(r) \/ ApproveRecall(r)
    \/ \E days \in {-1, 1} : ApproveAdjustment(days)

LeaveSpec == LeaveInit /\ [][LeaveNext]_leaveVars

----------------------------------------------------------------------------
Approved(seq) == {i \in DOMAIN seq : seq[i].status = "Approved"}
Recalled(n) == DaysOf(recalls, {r \in Approved(recalls) : recalls[r].app = n})

(* Through applications, approvals, recalls, accrual and closings: no more  *)
(* leave is taken than was granted and the current balance stays at zero or *)
(* above, no application gives back more than it took, and one calendar is  *)
(* current; unless two applications counted on the same days, an entry came *)
(* after its calendar's balance was carried on, days were taken away by an  *)
(* adjustment, a recall was created beside an open one, or two closings ran *)
(* at once.                                                                 *)
LeaveHolds ==
    /\ leaveMarks = {} =>
          /\ DaysOf(apps, Approved(apps)) - DaysOf(recalls, Approved(recalls)) <= granted
          /\ \A c \in current : balance[c] >= 0
    /\ "recalls" \notin leaveMarks => \A n \in DOMAIN apps : Recalled(n) <= apps[n].days
    /\ "twice" \notin leaveMarks => Cardinality(current) = 1
=============================================================================
