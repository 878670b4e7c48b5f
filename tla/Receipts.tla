------------------------------ MODULE Receipts ------------------------------
(***************************************************************************)
(* The life of one cash receipt (lib/receipts.ts): made and edited by its  *)
(* maker, approved when it is at or above the approval limit, and posted   *)
(* to the journal and to the customer's ledger.                            *)
(*                                                                         *)
(* Every handler reads the header without a lock, checks it, and writes    *)
(* later: the two are separate steps, and other requests run in between.   *)
(***************************************************************************)
EXTENDS Naturals, Sequences, SequencesExt

CONSTANTS
    Users, Maker,   \* Maker created the receipt
    Tellers,        \* requests being served at the same time
    ReceiptAmounts, \* totals the lines can have
    ApprovalLimit,  \* receipt_header.approval_limit, stamped at creation
    MaxEdits        \* bound on edits

ASSUME ReceiptsAssumption ==
    /\ Maker \in Users /\ ReceiptAmounts \subseteq Nat \ {0} /\ ApprovalLimit \in Nat /\ MaxEdits \in Nat

VARIABLES
    header,    \* receipt_header; there = FALSE once it is deleted
    journal,   \* the journals posted under the key RECEIPT-no: none or one
    payments,  \* cust_ledger_entry rows of type Payment with this receipt as source
    copies,    \* posted_receipt rows
    messages,  \* how often the payer was told
    approved,  \* history: the amount of the approval in force
    edits,
    request,   \* where each request is in its handler
    raced      \* history: which kinds of request overlapped

receiptVars == <<header, journal, payments, copies, messages, approved, edits, request, raced>>

\* a receipt whose lines are all blank has the total 0
Totals == ReceiptAmounts \cup {0}

HeaderType ==
    [there : BOOLEAN, amount : Totals, received : Totals,
     status : {"Open", "Pending Approval", "Approved"}, posted : BOOLEAN]

Operations == {"update", "delete", "submit", "recall", "approve", "reject", "reopen", "post"}

RequestType ==
    [op : Operations \cup {"none", "notify"}, user : Users, read : HeaderType]

ReceiptTypeOK ==
    /\ header \in HeaderType
    /\ journal \in SUBSET ReceiptAmounts
    /\ payments \in Seq(ReceiptAmounts) /\ copies \in Seq(ReceiptAmounts)
    /\ messages \in Nat /\ approved \in SUBSET ReceiptAmounts /\ edits \in 0 .. MaxEdits
    /\ request \in [Tellers -> RequestType]
    /\ raced \subseteq {"posts", "change"}

-----------------------------------------------------------------------------
\* assertReceivedAmountAgrees: a received amount, once captured, is the lines' total
Agrees(h) == h.received \in {0, h.amount}

\* who may post: at or above the limit an approved receipt, below it the maker's own
\* (first with a defect: the limit is exclusive)
PostableAbove(h, u) ==
    /\ h.amount > ApprovalLimit => h.status = "Approved"
    /\ h.amount <= ApprovalLimit /\ h.status = "Open" => u = Maker
    /\ h.status \in {"Open", "Approved"}

Postable(h, u) ==
    /\ h.amount >= ApprovalLimit => h.status = "Approved"
    /\ h.amount < ApprovalLimit /\ h.status = "Open" => u = Maker
    /\ h.status \in {"Open", "Approved"}

\* the checks of each handler on the header as it was read; that the approver is
\* not the maker is the workflow's doing (module Workflow)
\* (first with a defect: posting does not look at the posted flag)
AllowedTwice(op, h, u) ==
    /\ h.there
    /\ op \in {"update", "delete"} => h.status = "Open" /\ u = Maker
    /\ op = "submit" => h.status = "Open" /\ h.amount > 0 /\ Agrees(h)
    /\ op = "recall" => h.status = "Pending Approval" /\ u = Maker
    /\ op \in {"approve", "reject"} => h.status = "Pending Approval" /\ u # Maker
    /\ op = "reopen" => h.status = "Approved" /\ ~h.posted
    /\ op = "post" => h.amount > 0 /\ Postable(h, u) /\ Agrees(h)

Allowed(op, h, u) ==
    /\ h.there
    /\ op \in {"update", "delete"} => h.status = "Open" /\ u = Maker
    /\ op = "submit" => h.status = "Open" /\ h.amount > 0 /\ Agrees(h)
    /\ op = "recall" => h.status = "Pending Approval" /\ u = Maker
    /\ op \in {"approve", "reject"} => h.status = "Pending Approval" /\ u # Maker
    /\ op = "reopen" => h.status = "Approved" /\ ~h.posted
    /\ op = "post" => ~h.posted /\ h.amount > 0 /\ Postable(h, u) /\ Agrees(h)

\* an UPDATE of a header that is gone changes nothing
WriteHeader(h) == header' = IF header.there THEN h ELSE header

Blank ==
    [there |-> FALSE, amount |-> 0, received |-> 0,
     status |-> "Open", posted |-> FALSE]
NoRequest == [op |-> "none", user |-> Maker, read |-> Blank]

ReceiptInit ==
    /\ header \in {[there |-> TRUE, amount |-> a, received |-> 0, status |-> "Open",
                    posted |-> FALSE] : a \in Totals}
    /\ journal = {} /\ payments = <<>> /\ copies = <<>>
    /\ messages = 0 /\ approved = {} /\ edits = 0
    /\ request = [s \in Tellers |-> NoRequest]
    /\ raced = {}

-----------------------------------------------------------------------------
\* which race it is when two requests are under way together
Race(op, other) ==
    IF op = "post" /\ other = "post" THEN {"posts"}
    ELSE IF {op, other} \cap {"update", "reopen"} # {} /\ other \notin {"none", "notify"}
    THEN {"change"} ELSE {}

\* A request reads the header and passes the handler's checks.
BeginRequest(s) ==
    /\ request[s].op = "none"
    /\ \E op \in Operations, u \in Users :
        /\ Allowed(op, header, u)
        /\ request' = [request EXCEPT ![s] = [op |-> op, user |-> u, read |-> header]]
        /\ raced' = raced \cup UNION {Race(op, request[t].op) : t \in Tellers \ {s}}
    /\ UNCHANGED <<header, journal, payments, copies, messages, approved, edits>>

EndRequest(s) == request' = [request EXCEPT ![s] = NoRequest]

\* updateReceipt: the lines are replaced and the total written, whatever the status now
UpdateReceipt(s) ==
    /\ request[s].op = "update" /\ edits < MaxEdits
    /\ \E a, r \in Totals :
        WriteHeader([header EXCEPT !.amount = a, !.received = r])
    /\ edits' = edits + 1
    /\ EndRequest(s)
    /\ UNCHANGED <<journal, payments, copies, messages, approved, raced>>

DeleteReceipt(s) ==
    /\ request[s].op = "delete"
    /\ WriteHeader([header EXCEPT !.there = FALSE])
    /\ EndRequest(s)
    /\ UNCHANGED <<journal, payments, copies, messages, approved, edits, raced>>

NewStatus(op) ==
    CASE op = "submit" -> "Pending Approval"
      [] op = "approve" -> "Approved"
      [] OTHER -> "Open"

\* submitReceipt, cancelReceiptApproval, approveReceipt, rejectReceipt, reopenReceipt
SetReceiptStatus(s) ==
    /\ request[s].op \in {"submit", "recall", "approve", "reject", "reopen"}
    /\ WriteHeader([header EXCEPT !.status = NewStatus(request[s].op)])
    /\ approved' = CASE request[s].op = "approve" -> {request[s].read.amount} \ {0}
                      [] request[s].op = "reopen" -> {}
                      [] OTHER -> approved
    /\ EndRequest(s)
    /\ UNCHANGED <<journal, payments, copies, messages, edits, raced>>

\* postReceipt's transaction: the customer's Payment and its application, the journal
\* under the key RECEIPT-no (an existing one is answered), the posted copy, the flag.
PostReceiptTx(s) ==
    /\ request[s].op = "post"
    /\ payments' = Append(payments, request[s].read.amount)
    /\ journal' = IF journal = {} THEN {request[s].read.amount} ELSE journal
    /\ copies' = Append(copies, request[s].read.amount)
    /\ WriteHeader([header EXCEPT !.posted = TRUE])
    /\ request' = [request EXCEPT ![s].op = "notify"]
    /\ UNCHANGED <<messages, approved, edits, raced>>

\* After the commit the payer is told; a failure here is swallowed.
NotifyPayer(s) ==
    /\ request[s].op = "notify"
    /\ messages' \in {messages, messages + 1}
    /\ EndRequest(s)
    /\ UNCHANGED <<header, journal, payments, copies, approved, edits, raced>>

\* A refusal or a crash before the write rolls everything back.
AbandonRequest(s) ==
    /\ request[s].op # "none"
    /\ EndRequest(s)
    /\ UNCHANGED <<header, journal, payments, copies, messages, approved, edits, raced>>

ReceiptNext ==
    \E s \in Tellers :
        \/ BeginRequest(s) \/ UpdateReceipt(s) \/ DeleteReceipt(s) \/ SetReceiptStatus(s)
        \/ PostReceiptTx(s) \/ NotifyPayer(s) \/ AbandonRequest(s)

ReceiptSpec == ReceiptInit /\ [][ReceiptNext]_receiptVars

-----------------------------------------------------------------------------
\* "This receipt has already been posted": the money is in the customer's ledger
\* exactly as often, and for as much, as in the journal.
SubledgerMatchesJournal ==
    /\ Len(payments) <= 1
    /\ ToSet(payments) = journal

\* The posted copies are those journals, and the payer hears of each at most once.
CopiesMatchJournal ==
    ToSet(copies) = journal /\ Len(copies) <= 1 /\ messages <= Len(copies)

\* That is true of a receipt unless two posts of it overlapped, whatever edits,
\* approvals and refusals run beside them.
PostedOnceUnlessTwoPosts ==
    /\ ReceiptTypeOK
    /\ (SubledgerMatchesJournal /\ CopiesMatchJournal) \/ "posts" \in raced

\* "A receipt at/above the approval limit must be Approved": what is posted at or
\* above the limit is an amount somebody approved.
PostedUnapproved == \E a \in journal' \ journal : a >= ApprovalLimit /\ a \notin approved
BigReceiptsApproved == [][~PostedUnapproved]_receiptVars

\* That is true unless the receipt was edited or reopened while another request was
\* between its checks and its writes.
BigReceiptsApprovedUnlessChanged == [][PostedUnapproved => "change" \in raced]_receiptVars
=============================================================================
