------------------------------ MODULE Imprest ------------------------------
(* One employee's imprests and staff claims, the employee ledger, the       *)
(* control account it mirrors, and the payroll period through which refunds *)
(* are recovered and claims paid.  A request reads its document without a   *)
(* lock; its journal is keyed to the document, so that one posted twice     *)
(* moves the control account once, while the ledger entries are plain       *)
(* inserts.  The open payroll period is read in the step that adds a line.  *)
(*                                                                          *)
(* Not here: approvals (DocumentLife), expense and bank accounts (the other *)
(* side of each journal), an imprest issued by a payment voucher.           *)
EXTENDS Integers, Sequences, FiniteSets, Functions

CONSTANTS
    Papers,         \* the documents
    Officers,       \* requests under way
    Advance,        \* amount of an imprest
    Spent,          \* amounts spent of an imprest, or claimed
    MaxOutstanding, \* imprests an employee may hold
    MaxLines        \* bound on the payroll lines

(* Documents of something; none is posted without an amount.                *)
ASSUME ImprestAssumption ==
    /\ IsFiniteSet(Papers) /\ Advance \in Nat \ {0} /\ Spent \subseteq Nat \ {0}
    /\ MaxOutstanding \in Nat

VARIABLES
    paper,      \* kind, amount spent, settlement and flags of each document
    empLedger,  \* balance of each document in the employee ledger
    control,    \* balance of the control account
    keys,       \* idempotency keys of the journals posted
    payLines,   \* temporary lines of the payroll period, as [doc, amount]
    payslip,    \* amounts on the employee's payslip, after the last run
    payroll,    \* status of the period
    desk,       \* what each request has read
    impMarks    \* "twice", "both", "late", "hand", "lost", "half", "over": see the steps

impVars == <<paper, empLedger, control, keys, payLines, payslip, payroll, desk, impMarks>>

EmployeeLedger == SumFunction(empLedger)

ImpInit ==
    /\ paper \in [Papers -> [kind : {"imprest", "claim"}, spent : Spent, toPayroll : BOOLEAN,
                             posted : {FALSE}, surrendered : {FALSE}, transferred : {FALSE}]]
    /\ empLedger = [d \in Papers |-> 0] /\ control = 0 /\ keys = {}
    /\ payLines = <<>> /\ payslip = <<>> /\ payroll = "OPEN"
    /\ desk = [o \in Officers |-> <<>>]
    /\ impMarks = {}

Outstanding == {d \in Papers : paper[d].kind = "imprest" /\ paper[d].posted /\ ~paper[d].surrendered}

Allows(op, d) ==
    LET p == paper[d]
    IN  CASE op = "issue" -> p.kind = "imprest" /\ ~p.posted /\ Cardinality(Outstanding) < MaxOutstanding
          [] op = "claim" -> p.kind = "claim" /\ ~p.posted
          [] op = "surrender" -> d \in Outstanding /\ ~p.transferred
          [] OTHER -> d \in Outstanding /\ ~p.transferred /\ empLedger[d] > 0 /\ payroll = "OPEN"

LookAt(o, op, d) ==
    /\ desk[o] = <<>> /\ Allows(op, d)
    /\ desk' = [desk EXCEPT ![o] = <<op, d, paper[d], empLedger[d]>>]
    /\ UNCHANGED <<paper, empLedger, control, keys, payLines, payslip, payroll, impMarks>>

AtWork(o, op) == desk[o] # <<>> /\ desk[o][1] = op
Of(o) == desk[o][2]
PaperSeen(o) == desk[o][3]

(* What a posting adds to the document's ledger, and what it sends to the   *)
(* payroll: a recovery when positive, a payment when negative.              *)
Effect(op, p) ==
    CASE op = "issue" -> [ledger |-> Advance, send |-> 0]
      [] op = "claim" -> IF p.toPayroll THEN [ledger |-> -p.spent, send |-> -p.spent]
                         ELSE [ledger |-> 0, send |-> 0]
      [] OTHER -> LET left == Advance - p.spent
                  IN  IF p.toPayroll /\ left # 0 THEN [ledger |-> -p.spent, send |-> left]
                      ELSE [ledger |-> -Advance, send |-> 0]

Sent(d, amount) == IF amount = 0 THEN payLines ELSE Append(payLines, [doc |-> d, amount |-> amount])

(* An issue, a surrender or a claim is posted, with the payroll line and    *)
(* the flags, in one transaction ("twice": the document changed since it    *)
(* was read; "over": the limit of imprests is passed).                      *)
PostPaper(o) ==
    /\ desk[o] # <<>> /\ desk[o][1] \in {"issue", "claim", "surrender"}
    /\ LET op == desk[o][1]
           d == Of(o)
           p == paper[d]
           key == <<op, d>>
           does == Effect(op, PaperSeen(o))
       IN  /\ does.send # 0 => payroll = "OPEN" /\ Len(payLines) < MaxLines
           /\ empLedger' = [empLedger EXCEPT ![d] = @ + does.ledger]
           /\ control' = IF key \in keys THEN control ELSE control + does.ledger
           /\ keys' = keys \cup {key}
           /\ payLines' = Sent(d, does.send)
           /\ paper' = [paper EXCEPT ![d] =
                [p EXCEPT !.posted = TRUE,
                          !.surrendered = p.surrendered \/ op = "surrender",
                          !.transferred = IF op = "surrender" THEN does.send # 0 ELSE p.transferred]]
           /\ impMarks' = impMarks
                \cup (IF p # PaperSeen(o) THEN {"twice"} ELSE {})
                \cup (IF op = "issue" /\ Cardinality(Outstanding \ {d}) >= MaxOutstanding THEN {"over"} ELSE {})
    /\ desk' = [desk EXCEPT ![o] = <<>>]
    /\ UNCHANGED <<payslip, payroll>>

(* An overdue imprest is sent to the payroll: the line is added, and the    *)
(* document marked in a second step, outside a transaction ("half": the     *)
(* second never comes).                                                     *)
Transfer(o) ==
    /\ AtWork(o, "transfer")
    /\ payroll = "OPEN" /\ Len(payLines) < MaxLines
    /\ payLines' = Sent(Of(o), desk[o][4])
    /\ desk' = [desk EXCEPT ![o] = <<"mark", Of(o), PaperSeen(o)>>]
    /\ impMarks' = impMarks \cup (IF paper[Of(o)] # PaperSeen(o) THEN {"twice"} ELSE {})
    /\ UNCHANGED <<paper, empLedger, control, keys, payslip, payroll>>

MarkTransferred(o) ==
    /\ AtWork(o, "mark")
    /\ paper' = [paper EXCEPT ![Of(o)].transferred = TRUE]
    /\ desk' = [desk EXCEPT ![o] = <<>>]
    /\ impMarks' = impMarks \cup (IF paper[Of(o)] # PaperSeen(o) THEN {"twice"} ELSE {})
    /\ UNCHANGED <<empLedger, control, keys, payLines, payslip, payroll>>

(* The posting is refused or its connection ends.                           *)
DropWork(o) ==
    /\ desk[o] # <<>>
    /\ impMarks' = impMarks \cup (IF AtWork(o, "mark") THEN {"half"} ELSE {})
    /\ desk' = [desk EXCEPT ![o] = <<>>]
    /\ UNCHANGED <<paper, empLedger, control, keys, payLines, payslip, payroll>>

(* The payroll is run: every line of the period, on the payslip.            *)
RunPayslip ==
    /\ payroll = "OPEN" /\ payslip # payLines
    /\ payslip' = payLines
    /\ UNCHANGED <<paper, empLedger, control, keys, payLines, payroll, desk, impMarks>>

RemoveLine(i) ==
    /\ payroll = "OPEN"
    /\ payLines' = SubSeq(payLines, 1, i - 1) \o SubSeq(payLines, i + 1, Len(payLines))
    /\ impMarks' = impMarks \cup {"hand"}
    /\ UNCHANGED <<paper, empLedger, control, keys, payslip, payroll, desk>>

ApprovePayroll ==
    /\ payroll = "OPEN" /\ payslip # <<>>
    /\ payroll' = "APPROVED"
    /\ UNCHANGED <<paper, empLedger, control, keys, payLines, payslip, desk, impMarks>>

SameCode(a, b) == (a.amount > 0) = (b.amount > 0)

(* Settling joins the payslip with the lines on the code and the employee:  *)
(* each line of the code gets an entry for each amount of the code          *)
(* (first with a defect: claims paid through the payroll are forgotten).    *)
LinesFor(d) == {j \in DOMAIN payLines : payLines[j].doc = d}
OfCode(line) == {i \in DOMAIN payslip : SameCode(payslip[i], line)}

SettledRecoveries(d) ==
    SumFunction([j \in LinesFor(d) |->
        SumFunction([i \in {i \in OfCode(payLines[j]) : payslip[i].amount > 0} |-> payslip[i].amount])])

Settled(d) ==
    SumFunction([j \in LinesFor(d) |-> SumFunction([i \in OfCode(payLines[j]) |-> payslip[i].amount])])

(* Closing the payroll posts the payslip to the control account and settles *)
(* the ledger; an imprest recovered in full is closed; temporary lines do   *)
(* not reach the next period ("both": two of a code; "lost": a line no run  *)
(* put on the payslip).                                                     *)
ClosePayroll ==
    /\ payroll = "APPROVED"
    /\ control' = control - SumFunction([i \in DOMAIN payslip |-> payslip[i].amount])
    /\ empLedger' = [d \in Papers |-> empLedger[d] - Settled(d)]
    /\ paper' = [d \in Papers |->
            IF d \in Outstanding /\ LinesFor(d) # {} /\ Settled(d) > 0
                          /\ empLedger[d] - Settled(d) <= 0
            THEN [paper[d] EXCEPT !.surrendered = TRUE] ELSE paper[d]]
    /\ payLines' = <<>> /\ payslip' = <<>> /\ payroll' = "OPEN"
    /\ impMarks' = impMarks
         \cup (IF \E i, j \in DOMAIN payLines : i # j /\ SameCode(payLines[i], payLines[j])
               THEN {"both"} ELSE {})
         \cup (IF payslip # payLines THEN {"lost"} ELSE {})
    /\ UNCHANGED <<keys, desk>>

ImpNext ==
    \/ \E o \in Officers :
          \/ \E op \in {"issue", "claim", "surrender", "transfer"}, d \in Papers : LookAt(o, op, d)
          \/ PostPaper(o) \/ Transfer(o) \/ MarkTransferred(o) \/ DropWork(o)
    \/ RunPayslip \/ ApprovePayroll \/ ClosePayroll
    \/ \E i \in DOMAIN payLines : RemoveLine(i)

ImpSpec == ImpInit /\ [][ImpNext]_impVars

----------------------------------------------------------------------------
(* Through issues, surrenders, refunds, claims and recoveries: the control  *)
(* account is the employee ledger, unless a request overtook another, two   *)
(* lines of one code were on a payroll, or a line was removed by hand; a    *)
(* line added after the last run is no harm here.                           *)
MirrorsLedger ==
    impMarks \cap {"twice", "both", "hand"} = {} => control = EmployeeLedger

(* A document that is surrendered or claimed owes nothing, and is owed      *)
(* nothing, but the line the open payroll has for it; and what is recovered *)
(* is on that payroll.  Otherwise the ways to lose it: a second line of the *)
(* code, a line added after the last run, one removed, a half transfer.     *)
SettledOrOnPayroll ==
    impMarks \subseteq {"over"} /\ (\A o \in Officers : ~AtWork(o, "mark")) =>
        \A d \in Papers :
            LET p == paper[d]
                due == SumFunction([i \in LinesFor(d) |-> payLines[i].amount])
            IN  p.surrendered \/ p.transferred \/ (p.posted /\ p.kind = "claim") => empLedger[d] = due

(* The employee never holds more imprests than allowed, unless two issues   *)
(* counted before either was posted.                                        *)
WithinLimit == "over" \notin impMarks => Cardinality(Outstanding) <= MaxOutstanding

Imprests == MirrorsLedger /\ SettledOrOnPayroll /\ WithinLimit

(* "the control account mirrors the ledger line for line", of documents     *)
(* posted one at a time and a payroll nobody touched.                       *)
ControlMirrorsLedger == impMarks \cap {"twice", "hand"} = {} => control = EmployeeLedger
=============================================================================
