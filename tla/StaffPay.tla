------------------------------ MODULE StaffPay -------------------------------
(* What an employee is paid: the basic pay on the salary card, the salary   *)
(* of the current contract, which the payroll run reads, and the notch they *)
(* follow.  The card of a new record is written directly, later through an  *)
(* edit request, which begins as a copy of it; a contract change writes the *)
(* contract; a notch that changes reaches card and contract of everyone on  *)
(* it, one statement after the other.                                       *)
(*                                                                          *)
(* Not here: benefits, statutory switches, job grades, dates of contracts,  *)
(* the stages of requests that change no pay (kinds of DocumentLife).       *)
EXTENDS Naturals

CONSTANTS
    Scales, NoScale,   \* hr_salary_scale rows; on none
    Pays,              \* amounts
    NoContract,        \* there is no current contract yet
    PayDesks           \* requests under way

ASSUME StaffPayAssumption ==
    /\ Pays \subseteq Nat \ {0} /\ Pays # {}
    /\ NoScale \notin Scales /\ NoContract \notin Nat

VARIABLES
    card,       \* employee: status, salary_scale_id, basic_pay_cents
    contract,   \* salary_cents of the current contract
    scalePay,   \* basic pay of each notch
    edit,       \* the edit request in flight: stage, scale and pay, and whether HR put them in
    payDesk,    \* where each request is
    decided,    \* history: the pay decided last, and whether by following the notch
    staffMarks  \* "raised", "undone", "blank", "crossed"

staffVars == <<card, contract, scalePay, edit, payDesk, decided, staffMarks>>

NoEdit == [stage |-> "None", scale |-> NoScale, pay |-> 0, typed |-> FALSE]
AtRest == [op |-> "none"]

StaffInit ==
    /\ card = [status |-> "NEW", scale |-> NoScale, pay |-> 0]
    /\ contract = NoContract
    /\ scalePay \in [Scales -> Pays]
    /\ edit = NoEdit
    /\ payDesk = [k \in PayDesks |-> AtRest]
    /\ decided = [pay |-> 0, notch |-> FALSE]
    /\ staffMarks = {}

Mid(k) == payDesk[k] # AtRest
Goes(k, step) == payDesk' = [payDesk EXCEPT ![k] = step]
Rests(k) == Goes(k, AtRest)
(* ("crossed": another request is between two of its steps)                 *)
Wrote(k, more) ==
    staffMarks' = staffMarks \cup more
        \cup (IF \E other \in PayDesks \ {k} : Mid(other) THEN {"crossed"} ELSE {})

(* syncContractSalary finds no row while there is no contract (first with a *)
(* defect: it is not called).                                               *)
NotSynced(pay) == contract
Synced(pay) == IF contract = NoContract THEN NoContract ELSE pay

(* The card of a new record; a blank pay is written as nothing.             *)
AskCard(k, scale, pay) ==
    /\ ~Mid(k) /\ card.status = "NEW"
    /\ Goes(k, [op |-> "card", scale |-> scale, pay |-> pay, before |-> card.scale])
    /\ UNCHANGED <<card, contract, scalePay, edit, decided, staffMarks>>

SaveCard(k) ==
    /\ payDesk[k].op = "card"
    /\ card' = [card EXCEPT !.scale = payDesk[k].scale, !.pay = payDesk[k].pay]
    /\ contract' = Synced(payDesk[k].pay)
    /\ decided' = [pay |-> payDesk[k].pay, notch |-> FALSE]
    /\ Wrote(k, {})
    /\ IF payDesk[k].scale = payDesk[k].before THEN Rests(k)
       ELSE Goes(k, [payDesk[k] EXCEPT !.op = "confer"])
    /\ UNCHANGED <<scalePay, edit>>

(* A new notch confers its pay; a pay typed beside it wins.                 *)
Conferred(scale, typed) == IF typed > 0 \/ scale = NoScale THEN typed ELSE scalePay[scale]

Confer(k) ==
    /\ payDesk[k].op = "confer"
    /\ LET pay == Conferred(payDesk[k].scale, payDesk[k].pay)
       IN  /\ card' = [card EXCEPT !.scale = payDesk[k].scale, !.pay = pay]
           /\ contract' = Synced(pay)
           /\ decided' = [pay |-> pay, notch |-> pay # payDesk[k].pay]
    /\ Wrote(k, {}) /\ Rests(k)
    /\ UNCHANGED <<scalePay, edit>>

(* Sent for approval, recalled or rejected.                                 *)
MoveRecord ==
    /\ \/ card.status = "NEW" /\ card' = [card EXCEPT !.status = "PENDING_APPROVAL"]
       \/ card.status = "PENDING_APPROVAL" /\ card' = [card EXCEPT !.status = "NEW"]
    /\ UNCHANGED <<contract, scalePay, edit, payDesk, decided, staffMarks>>

(* Approval reads the record and opens the first contract from what it read.*)
AskActivate(k) ==
    /\ ~Mid(k) /\ card.status = "PENDING_APPROVAL"
    /\ Goes(k, [op |-> "activate", pay |-> card.pay])
    /\ UNCHANGED <<card, contract, scalePay, edit, decided, staffMarks>>

Activate(k) ==
    /\ payDesk[k].op = "activate"
    /\ card' = [card EXCEPT !.status = "ACTIVE"]
    /\ contract' = IF contract = NoContract THEN payDesk[k].pay ELSE contract
    /\ Wrote(k, {}) /\ Rests(k)
    /\ UNCHANGED <<scalePay, edit, decided>>

(* An approved change adds a contract and leaves the card alone.  A renewal *)
(* need not say a salary: then it is nothing, and nothing was decided.      *)
(* ("raised": the card says otherwise now; "blank": no salary)              *)
ApproveContractChange(k, pay) ==
    /\ ~Mid(k)
    /\ contract' = pay
    /\ decided' = IF pay = 0 THEN decided ELSE [pay |-> pay, notch |-> FALSE]
    /\ Wrote(k, (IF pay # card.pay THEN {"raised"} ELSE {}) \cup (IF pay = 0 THEN {"blank"} ELSE {}))
    /\ UNCHANGED <<card, scalePay, edit, payDesk>>

(* An edit request of an active employee is a copy of the card; HR may put  *)
(* another notch and pay in; it is approved, or deleted.                    *)
OpenEdit ==
    /\ card.status = "ACTIVE" /\ edit.stage = "None"
    /\ edit' = [stage |-> "Open", scale |-> card.scale, pay |-> card.pay, typed |-> FALSE]
    /\ UNCHANGED <<card, contract, scalePay, payDesk, decided, staffMarks>>

ChangeEdit(scale, pay) ==
    /\ edit.stage = "Open"
    /\ edit' = [stage |-> "Open", scale |-> scale, pay |-> pay, typed |-> TRUE]
    /\ UNCHANGED <<card, contract, scalePay, payDesk, decided, staffMarks>>

SettleEdit ==
    /\ edit.stage = "Open"
    /\ edit' \in {NoEdit, [edit EXCEPT !.stage = "Approved"]}
    /\ UNCHANGED <<card, contract, scalePay, payDesk, decided, staffMarks>>

(* Applied in one transaction: notch and pay of the request go onto the     *)
(* card and into the contract.  ("undone": nobody touched the pay in the    *)
(* request, and another was decided since, or was never on the card)        *)
ProcessEdit(k) ==
    /\ ~Mid(k) /\ edit.stage = "Approved"
    /\ card' = [card EXCEPT !.scale = edit.scale, !.pay = edit.pay]
    /\ contract' = Synced(edit.pay)
    /\ decided' = IF edit.typed THEN [pay |-> edit.pay, notch |-> FALSE] ELSE decided
    /\ Wrote(k, IF ~edit.typed /\ (edit.pay # decided.pay \/ edit.scale # card.scale) THEN {"undone"} ELSE {})
    /\ edit' = NoEdit
    /\ UNCHANGED <<scalePay, payDesk>>

(* A notch is saved, then written to the cards, then to the contracts.      *)
SaveScale(k, s, pay) ==
    /\ ~Mid(k) /\ scalePay[s] # pay
    /\ scalePay' = [scalePay EXCEPT ![s] = pay]
    /\ Goes(k, [op |-> "cards", scale |-> s, pay |-> pay])
    /\ Wrote(k, {})
    /\ UNCHANGED <<card, contract, edit, decided>>

ReachCards(k) ==
    /\ payDesk[k].op = "cards"
    /\ IF card.scale = payDesk[k].scale
       THEN card' = [card EXCEPT !.pay = payDesk[k].pay] /\ decided' = [pay |-> payDesk[k].pay, notch |-> TRUE]
       ELSE UNCHANGED <<card, decided>>
    /\ Goes(k, [payDesk[k] EXCEPT !.op = "contracts"])
    /\ Wrote(k, {})
    /\ UNCHANGED <<contract, scalePay, edit>>

ReachContracts(k) ==
    /\ payDesk[k].op = "contracts"
    /\ contract' = IF card.scale = payDesk[k].scale THEN Synced(payDesk[k].pay) ELSE contract
    /\ Wrote(k, {}) /\ Rests(k)
    /\ UNCHANGED <<card, scalePay, edit, decided>>

(* HR has the notch conferred once more.                                    *)
AskReapply(k) ==
    /\ ~Mid(k) /\ card.scale # NoScale
    /\ Goes(k, [op |-> "confer", scale |-> card.scale, pay |-> 0])
    /\ UNCHANGED <<card, contract, scalePay, edit, decided, staffMarks>>

StaffNext ==
    \/ MoveRecord \/ OpenEdit \/ SettleEdit
    \/ \E scale \in Scales \cup {NoScale}, pay \in Pays : ChangeEdit(scale, pay)
    \/ \E k \in PayDesks :
          \/ \E scale \in Scales \cup {NoScale}, pay \in Pays \cup {0} : AskCard(k, scale, pay)
          \/ SaveCard(k) \/ Confer(k) \/ AskActivate(k) \/ Activate(k)
          \/ \E pay \in Pays \cup {0} : ApproveContractChange(k, pay)
          \/ ProcessEdit(k)
          \/ \E s \in Scales, pay \in Pays : SaveScale(k, s, pay)
          \/ ReachCards(k) \/ ReachContracts(k) \/ AskReapply(k)

StaffSpec == StaffInit /\ [][StaffNext]_staffVars

----------------------------------------------------------------------------
Settled == \A k \in PayDesks : ~Mid(k)
Free(names) == names \cap staffMarks = {}

(* Between requests, the payroll pays what was decided last, from whichever *)
(* of the three places it was decided: card and contract say the same,      *)
(* unless a contract change, which does not write the card, set them apart; *)
(* the contract has the pay decided last, unless a copy of an older card    *)
(* was applied after it; and who was put on a notch's pay has the pay the   *)
(* notch has now.  Unless requests crossed, or a renewal named no salary.   *)
PaySound ==
    Settled /\ contract # NoContract /\ Free({"crossed", "blank"}) =>
        /\ Free({"raised"}) => card.pay = contract
        /\ Free({"undone"}) => contract = decided.pay
        /\ Free({"undone"}) /\ decided.notch => scalePay[card.scale] = contract

(* What a comment at syncContractSalary says: a change of the salary card   *)
(* or of the current contract is written onto the other.  (A contract       *)
(* change is not, even where no two requests cross.)                        *)
CardIsContract ==
    Settled /\ Free({"crossed"}) /\ card.status = "ACTIVE" => card.pay = contract
=============================================================================
