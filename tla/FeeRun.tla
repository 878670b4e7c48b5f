------------------------------- MODULE FeeRun -------------------------------
(***************************************************************************)
(* Fee invoice runs (lib/fees/invoices.ts): a run bills every student in   *)
(* its scope for the term, each in a transaction of its own, and can be    *)
(* posted again for those whose billing failed.                            *)
(***************************************************************************)
EXTENDS Integers, Sequences, FiniteSets, Functions

CONSTANTS
    Students,      \* students of the term
    FeeRuns,       \* fee_invoice_run ids
    Clerks,        \* requests being served
    Scope,         \* the students of a run's grade, or all
    Schedule,      \* the percentages of a run's instalments; <<100>> when not split
    Bills,         \* what studentBill may answer: fee lines and the discount
    MaxEdits,      \* bound on changes of fee structures, options and discounts
    MaxClerkCrashes, \* bound on requests that die
    Deletions      \* whether runs are deleted

ASSUME FeeAssumption ==
    /\ IsFiniteSet(Students)
    /\ Scope \in [FeeRuns -> SUBSET Students]
    /\ \A r \in FeeRuns : Schedule[r] \in Seq(Nat) /\ Schedule[r] # <<>>
    /\ Bills \subseteq [lines : Seq(Nat), discount : Nat]
    /\ MaxEdits \in Nat /\ MaxClerkCrashes \in Nat /\ Deletions \in BOOLEAN

VARIABLES
    runs,         \* fee_invoice_run
    feeInvoices,  \* fee_invoice
    account,      \* per student, the bills posted on the fee account: run and invoices
    bill,         \* what studentBill answers now
    ready,        \* whether the student's fee account can be posted to
    clerk,        \* where each request is
    edits, clerkCrashes

feeVars == <<runs, feeInvoices, account, bill, ready, clerk, edits, clerkCrashes>>

FeeRunType == [status : {"none", "Open", "Posted", "deleted"}, billed : Nat, total : Int]
ClerkType == [at : {"idle", "preview", "bill", "delete"}, run : SUBSET FeeRuns,
            lines : SUBSET Students, todo : SUBSET Students, due : Nat,
            amount : [Students -> Int], posted : Nat, total : Int]

NoteType == [run : FeeRuns, student : Students, k : Nat \ {0}, amount : Int]
BilledType == [run : FeeRuns, net : Int, invoices : Seq(Int)]

FeeTypeOK ==
    /\ runs \in [FeeRuns -> FeeRunType]
    /\ feeInvoices \subseteq NoteType
    /\ account \in [Students -> Seq(BilledType)]
    /\ bill \in [Students -> Bills] /\ ready \in [Students -> BOOLEAN]
    /\ clerk \in [Clerks -> ClerkType]
    /\ edits \in 0 .. MaxEdits /\ clerkCrashes \in 0 .. MaxClerkCrashes

SumSeq(seq) == SumFunction(seq)
Gross(b) == SumSeq(b.lines)
Net(b) == Gross(b) - b.discount

\* splitByInstalments: each part rounded, what is left over on the last
\* (first with a defect: the last is rounded like the others)
Rounded(amount, pct) == (2 * amount * pct + 100) \div 200

SplitRounded(amount, pcts) == [k \in DOMAIN pcts |-> Rounded(amount, pcts[k])]

Split(amount, pcts) ==
    LET drift == amount - SumSeq([k \in DOMAIN pcts |-> Rounded(amount, pcts[k])])
    IN  [k \in DOMAIN pcts |-> Rounded(amount, pcts[k]) + IF k = Len(pcts) THEN drift ELSE 0]

\* What the invoice of each instalment comes to: every line is split, and the discount.
Invoices(b, pcts) ==
    [k \in DOMAIN pcts |-> SumSeq([i \in DOMAIN b.lines |-> Split(b.lines[i], pcts)[k]])
                           - Split(b.discount, pcts)[k]]

\* previewRun: who is in scope and has anything to pay, and who is invoiced already.
Billable(r) == {s \in Scope[r] : Gross(bill[s]) > 0}
Invoiced == {i.student : i \in feeInvoices}
ToBill(r) == Billable(r) \ Invoiced

NoAmount == [s \in Students |-> 0]
NoJob == [at |-> "idle", run |-> {}, lines |-> {}, todo |-> {}, due |-> 0,
         amount |-> NoAmount, posted |-> 0, total |-> 0]
OnRun(c, r) == clerk[c].run = {r}

FeeInit ==
    /\ runs = [r \in FeeRuns |-> [status |-> "none", billed |-> 0, total |-> 0]]
    /\ feeInvoices = {}
    /\ account = [s \in Students |-> <<>>]
    /\ bill \in [Students -> Bills]
    /\ ready \in [Students -> BOOLEAN]
    /\ clerk = [c \in Clerks |-> NoJob]
    /\ edits = 0 /\ clerkCrashes = 0

-----------------------------------------------------------------------------
\* createFeeInvoiceRun: the numbers of the preview are kept with the run.
CreateRun(r) ==
    /\ runs[r].status = "none"
    /\ runs' = [runs EXCEPT ![r] = [status |-> "Open", billed |-> Cardinality(ToBill(r)),
                                    total |-> SumFunctionOnSet([s \in Students |-> Net(bill[s])], ToBill(r))]]
    /\ UNCHANGED <<feeInvoices, account, bill, ready, clerk, edits, clerkCrashes>>

\* postFeeInvoiceRun reads the run, which its page offers to post while there is
\* somebody to bill ...
PostRead(c, r) ==
    /\ clerk[c].at = "idle" /\ runs[r].status = "Open" /\ ToBill(r) # {}
    /\ clerk' = [clerk EXCEPT ![c] = [NoJob EXCEPT !.at = "preview", !.run = {r}]]
    /\ UNCHANGED <<runs, feeInvoices, account, bill, ready, edits, clerkCrashes>>

\* ... lists whom to bill ...
PreviewRun(c, r) ==
    /\ clerk[c].at = "preview" /\ OnRun(c, r)
    /\ clerk' = [clerk EXCEPT ![c] = [at |-> "bill", run |-> {r}, lines |-> Billable(r), todo |-> ToBill(r),
                                  due |-> Cardinality(ToBill(r)),
                                  amount |-> [s \in Students |-> IF s \in ToBill(r) THEN Net(bill[s]) ELSE 0],
                                  posted |-> 0, total |-> 0]]
    /\ UNCHANGED <<runs, feeInvoices, account, bill, ready, edits, clerkCrashes>>

\* ... and bills them one by one. The transaction of a student posts an invoice for
\* every instalment and notes it in fee_invoice, where student and instalment are
\* unique; it leaves nothing when the account is not ready, nothing is to pay any
\* more, the run is gone or an instalment is noted.
Clash(s, r) == \E i \in feeInvoices : i.student = s /\ i.k \in DOMAIN Schedule[r]

BillsStudent(s, r) ==
    /\ ready[s] /\ Gross(bill[s]) > 0 /\ ~Clash(s, r)
    /\ runs[r].status \in {"Open", "Posted"}

BillStudent(c, r, s) ==
    /\ clerk[c].at = "bill" /\ OnRun(c, r) /\ s \in clerk[c].todo
    /\ IF BillsStudent(s, r)
       THEN LET invoices == Invoices(bill[s], Schedule[r])
            IN  /\ account' = [account EXCEPT ![s] = Append(@, [run |-> r, net |-> Net(bill[s]), invoices |-> invoices])]
                /\ feeInvoices' = feeInvoices \cup
                     {[run |-> r, student |-> s, k |-> k, amount |-> invoices[k]] : k \in DOMAIN invoices}
                /\ clerk' = [clerk EXCEPT ![c].todo = @ \ {s}, ![c].posted = @ + 1,
                                      ![c].total = @ + clerk[c].amount[s]]
       ELSE /\ clerk' = [clerk EXCEPT ![c].todo = @ \ {s}]
            /\ UNCHANGED <<account, feeInvoices>>
    /\ UNCHANGED <<runs, bill, ready, edits, clerkCrashes>>

\* At the end the run is Posted if nobody is left, whatever it is by now.
\* (first with a defect: the failures are forgotten)
StatusForgetting(c) == "Posted"
StatusAfter(c) == IF clerk[c].due > clerk[c].posted THEN "Open" ELSE "Posted"

FinishRun(c, r) ==
    /\ clerk[c].at = "bill" /\ OnRun(c, r) /\ clerk[c].todo = {}
    /\ runs' = IF runs[r].status = "deleted" THEN runs
               ELSE [runs EXCEPT ![r] = [status |-> StatusAfter(c), billed |-> clerk[c].posted,
                                         total |-> clerk[c].total]]
    /\ clerk' = [clerk EXCEPT ![c] = NoJob]
    /\ UNCHANGED <<feeInvoices, account, bill, ready, edits, clerkCrashes>>

\* deleteFeeInvoiceRun: an Open run is deleted, with its fee_invoice rows.
DeleteRead(c, r) ==
    /\ Deletions /\ clerk[c].at = "idle" /\ runs[r].status = "Open"
    /\ clerk' = [clerk EXCEPT ![c] = [NoJob EXCEPT !.at = "delete", !.run = {r}]]
    /\ UNCHANGED <<runs, feeInvoices, account, bill, ready, edits, clerkCrashes>>

DeleteRun(c, r) ==
    /\ clerk[c].at = "delete" /\ OnRun(c, r)
    /\ runs' = [runs EXCEPT ![r] = [status |-> "deleted", billed |-> 0, total |-> 0]]
    /\ feeInvoices' = {i \in feeInvoices : i.run # r}
    /\ clerk' = [clerk EXCEPT ![c] = NoJob]
    /\ UNCHANGED <<account, bill, ready, edits, clerkCrashes>>

\* A student's fee account is put right.
Mend(s) ==
    /\ ~ready[s]
    /\ ready' = [ready EXCEPT ![s] = TRUE]
    /\ UNCHANGED <<runs, feeInvoices, account, bill, clerk, edits, clerkCrashes>>

\* The fee structure, the student's options or discounts change, or the student comes
\* or goes.
ChangeBill(s) ==
    /\ edits < MaxEdits
    /\ edits' = edits + 1
    /\ \E b \in Bills \ {bill[s]} : bill' = [bill EXCEPT ![s] = b]
    /\ UNCHANGED <<runs, feeInvoices, account, ready, clerk, clerkCrashes>>

\* The request dies; what it committed stays.
ClerkCrash(c) ==
    /\ clerk[c].at # "idle" /\ clerkCrashes < MaxClerkCrashes
    /\ clerkCrashes' = clerkCrashes + 1
    /\ clerk' = [clerk EXCEPT ![c] = NoJob]
    /\ UNCHANGED <<runs, feeInvoices, account, bill, ready, edits>>

FeeNext ==
    \/ \E r \in FeeRuns : CreateRun(r)
    \/ \E c \in Clerks, r \in FeeRuns :
        \/ PostRead(c, r) \/ PreviewRun(c, r) \/ FinishRun(c, r)
        \/ DeleteRead(c, r) \/ DeleteRun(c, r)
        \/ \E s \in Students : BillStudent(c, r, s)
    \/ \E s \in Students : Mend(s) \/ ChangeBill(s)
    \/ \E c \in Clerks : ClerkCrash(c)

FeeSpec == FeeInit /\ [][FeeNext]_feeVars

-----------------------------------------------------------------------------
\* A student is billed once for the term, also when two requests post the same run or two
\* runs that overlap, when one fails half-way and is posted again, and when the first run
\* split the bill and the second did not. The only way to a second bill is to delete the
\* run of the first, which takes the notes of whom it billed along.
BilledAgainOnlyAfterDelete ==
    \A s \in Students : \A m, n \in DOMAIN account[s] :
        m < n => runs[account[s][m].run].status = "deleted"

\* The invoices of the instalments come to the bill exactly, whatever the rounding of
\* each line and of the discount.
InstalmentsAddUp ==
    \A s \in Students : \A n \in DOMAIN account[s] : SumSeq(account[s][n].invoices) = account[s][n].net

\* Nobody is billed twice for the term, and every bill comes to the student's net.
FeesSound == FeeTypeOK /\ InstalmentsAddUp /\ BilledAgainOnlyAfterDelete

\* A run becomes Posted only when everybody its last preview listed has been billed, by
\* itself or by another run.
PostedMeansBilled ==
    [][\A r \in FeeRuns : runs[r].status # "Posted" /\ runs'[r].status = "Posted" =>
         \E c \in Clerks : OnRun(c, r) /\ \A s \in clerk[c].lines : account'[s] # <<>>]_feeVars

\* Everybody an open run bills is billed in the end, also those whose fee account had to
\* be put right and after a request died, unless the run is deleted or their bill goes.
EverybodyBilled ==
    \A r \in FeeRuns, s \in Students :
        (runs[r].status = "Open" /\ s \in Billable(r)) ~>
            (account[s] # <<>> \/ s \notin Billable(r) \/ runs[r].status = "deleted")

\* A run that is Posted stays Posted.
PostedStays ==
    [][\A r \in FeeRuns : runs[r].status = "Posted" => runs'[r].status = "Posted"]_feeVars

\* What a Posted run says it invoiced is what it invoiced.
TotalIsInvoiced ==
    \A r \in FeeRuns : runs[r].status = "Posted" =>
        runs[r].total = SumFunctionOnSet([i \in feeInvoices |-> i.amount], {i \in feeInvoices : i.run = r})
=============================================================================
