---------------------------- MODULE DocumentLife ----------------------------
(* The life of one approved document: edited, sent for approval, recalled,  *)
(* approved, rejected, reopened and finally applied, that is posted to the  *)
(* ledgers or written onto the record it is about.  Every handler reads the *)
(* header without a lock, decides, and later writes by the document's key,  *)
(* whatever the header has become meanwhile: a step in the model is one     *)
(* read or one write.  What the kinds of document do differently is a row   *)
(* of a table (AllRows), and the properties hold for every row that         *)
(* has one of the protections of RowsAssumption.                            *)
(*                                                                          *)
(* Not here: who may approve and the tasks that carry the approval          *)
(* (Workflow), and what the posting of a kind writes (Stock, Orders,        *)
(* FixedAsset, Imprest, Payroll, Leave).                                    *)
EXTENDS Naturals, Sequences, FiniteSets

CONSTANTS
    Rows,           \* the kinds of document, as rows of the table
    Sessions,       \* requests under way
    Contents,       \* what the document can say
    MaxEffects      \* bound on how often it is applied

Status == {"Open", "Pending", "Approved", "Final"}
Op == {"edit", "delete", "submit", "recall", "approve", "reject", "reopen", "post"}

(* on       the operation that applies the document: "post", or "approve"   *)
(* direct   posting from Open, below the approval limit                     *)
(* flags    the operations that test the posted flag                        *)
(* sets     applying sets the posted flag                                   *)
(* rereads  the flag is read again after the write that locked the header   *)
(* ends     what applying makes of the header: as it was, Final or deleted  *)
(* reopens  an approved document can be reopened                            *)
RowType ==
    [on : {"post", "approve"}, direct : BOOLEAN, flags : SUBSET Op, sets : BOOLEAN,
     rereads : BOOLEAN, ends : {"kept", "final", "gone"}, reopens : BOOLEAN]

Flagged(r) == r.sets /\ (r.on \in r.flags \/ r.rereads)
Deleted(r) == r.ends = "gone" /\ r.on = "post"
Ended(r) == IF r.on = "post" THEN r.ends = "final" ELSE ~r.reopens

(* Each kind is kept from being applied a second time by the flag, by the   *)
(* deletion of its header, or only by a status nothing leads out of.        *)
ASSUME RowsAssumption ==
    \A r \in Rows :
        /\ r \in RowType
        /\ Flagged(r) \/ Deleted(r) \/ Ended(r)
        /\ r.rereads => r.on = "approve" /\ r.sets
        /\ r.on = "approve" => r.ends = "kept" /\ ~r.direct /\ "post" \notin r.flags

----------------------------------------------------------------------------
(* The kinds of document and what sets each apart: every field is read off  *)
(* the handlers of the kind.                                                *)

(* A document that is approved, then posted, and keeps its posted flag.     *)
Posted == [on |-> "post", direct |-> FALSE, flags |-> {"reopen", "post"}, sets |-> TRUE,
           rereads |-> FALSE, ends |-> "kept", reopens |-> TRUE]

(* A change that its approval makes.                                        *)
Approval == [on |-> "approve", direct |-> FALSE, flags |-> {}, sets |-> FALSE,
             rereads |-> FALSE, ends |-> "kept", reopens |-> FALSE]

SalesInvoice == [Posted EXCEPT !.flags = {}, !.sets = FALSE, !.ends = "gone"]
PurchaseInvoice == [Posted EXCEPT !.flags = {}, !.sets = FALSE, !.ends = "gone"]
PaymentVoucher == [Posted EXCEPT !.direct = TRUE]
ItemJournalLine == [Posted EXCEPT !.ends = "final"]
FaJournalLine == [Posted EXCEPT !.ends = "final"]
StaffClaim == [Posted EXCEPT !.flags = {"edit", "delete", "reopen", "post"}]
ImprestRequest == [Posted EXCEPT !.flags = {"edit", "delete", "submit", "reopen", "post"}]
PettyCash == [Posted EXCEPT !.flags = {"edit", "delete", "reopen", "post"}]
EmployeeEdit == [Posted EXCEPT !.flags = {}, !.sets = FALSE, !.ends = "final", !.reopens = FALSE]
PayrollPeriod == [Posted EXCEPT !.flags = {}, !.sets = FALSE, !.ends = "final"]
PurchaseRequisition == Posted
LeaveApplication == [Approval EXCEPT !.sets = TRUE, !.rereads = TRUE]
LeaveAdjustment == Approval
LeaveRecall == Approval
ContractChange == Approval

AllRows ==
    {SalesInvoice, PurchaseInvoice, PaymentVoucher, ItemJournalLine, FaJournalLine, StaffClaim,
     ImprestRequest, PettyCash, PurchaseRequisition, EmployeeEdit, PayrollPeriod, LeaveApplication, LeaveAdjustment,
     LeaveRecall, ContractChange}

----------------------------------------------------------------------------
VARIABLES
    row,        \* the kind of this document
    header,     \* {}: deleted; {h}: the header row
    held,       \* the read of each request that has not written yet
    approved,   \* contents an approver has let through
    effects,    \* contents applied, in order
    late        \* operations that wrote over a header changed since their read

docVars == <<row, header, held, approved, effects, late>>

HeaderType == [status : Status, posted : BOOLEAN, content : Contents]

DocTypeOK ==
    /\ row \in Rows
    /\ header \in SUBSET HeaderType /\ \A g, h \in header : g = h
    /\ held \in [Sessions -> {<<>>} \cup Op \X HeaderType]
    /\ approved \in SUBSET Contents
    /\ effects \in Seq(Contents)
    /\ late \in SUBSET Op

DocInit ==
    /\ row \in Rows
    /\ \E c \in Contents : header = {[status |-> "Open", posted |-> FALSE, content |-> c]}
    /\ held = [s \in Sessions |-> <<>>]
    /\ approved = {}
    /\ effects = <<>>
    /\ late = {}

(* The conditions under which a handler goes on, on the header it read      *)
(* (first with defects: posting ignores the posted flag; a pending document *)
(* can still be edited).                                                    *)
AcceptsPosted(op, h) ==
    /\ op \in row.flags \ {"post"} => ~h.posted
    /\ op \in {"edit", "delete", "submit"} => h.status = "Open"
    /\ op \in {"recall", "approve", "reject"} => h.status = "Pending"
    /\ op = "reopen" => row.reopens /\ h.status = "Approved"
    /\ op = "post" => row.on = "post" /\ h.status = "Approved"

AcceptsPendingEdit(op, h) ==
    /\ op \in row.flags => ~h.posted
    /\ op = "edit" => h.status \in {"Open", "Pending", "Approved"}
    /\ op \in {"delete", "submit"} => h.status = "Open"
    /\ op \in {"recall", "approve", "reject"} => h.status = "Pending"
    /\ op = "reopen" => row.reopens /\ h.status = "Approved"
    /\ op = "post" => row.on = "post" /\ h.status = "Approved"

Accepts(op, h) ==
    /\ op \in row.flags => ~h.posted
    /\ op \in {"edit", "delete", "submit"} => h.status = "Open"
    /\ op \in {"recall", "approve", "reject"} => h.status = "Pending"
    /\ op = "reopen" => row.reopens /\ h.status = "Approved"
    /\ op = "post" => /\ row.on = "post"
                      /\ h.status = "Approved" \/ (row.direct /\ h.status = "Open")

Read(s, op) ==
    /\ held[s] = <<>>
    /\ \E h \in header :
        /\ Accepts(op, h)
        /\ held' = [held EXCEPT ![s] = <<op, h>>]
    /\ UNCHANGED <<row, header, approved, effects, late>>

Seen(s) == held[s][2]
Reads(s, op) == held[s] # <<>> /\ held[s][1] = op

(* The request is over; it was late if the header changed since its read.   *)
Done(s) ==
    /\ held' = [held EXCEPT ![s] = <<>>]
    /\ late' = IF header = {Seen(s)} THEN late ELSE late \cup {held[s][1]}

(* UPDATE ... WHERE no = ?: whatever the header is now, and nothing if it   *)
(* is gone.                                                                 *)
SetStatus(st) == header' = {[h EXCEPT !.status = st] : h \in header}

Edit(s) ==
    /\ Reads(s, "edit")
    /\ \E c \in Contents : header' = {[h EXCEPT !.content = c] : h \in header}
    /\ Done(s)
    /\ UNCHANGED <<row, approved, effects>>

Delete(s) ==
    /\ Reads(s, "delete")
    /\ header' = {}
    /\ Done(s)
    /\ UNCHANGED <<row, approved, effects>>

Submit(s) ==
    /\ Reads(s, "submit")
    /\ SetStatus("Pending")
    /\ Done(s)
    /\ UNCHANGED <<row, approved, effects>>

Return(s) ==
    /\ \E op \in {"recall", "reject", "reopen"} : Reads(s, op)
    /\ SetStatus("Open")
    /\ Done(s)
    /\ UNCHANGED <<row, approved, effects>>

(* What is applied is the document, its lines read by a query of their own  *)
(* after the header.                                                        *)
Apply(s) ==
    /\ Len(effects) < MaxEffects
    /\ \E c \in {Seen(s).content} \cup {h.content : h \in header} : effects' = Append(effects, c)

(* An approval that applies the document writes its effects whatever the    *)
(* header has become; with rereads it first reads the flag of the row its   *)
(* own update has locked.                                                   *)
ApprovalApplies == row.on = "approve" /\ (row.rereads => \E h \in header : ~h.posted)

Approve(s) ==
    /\ Reads(s, "approve")
    /\ header' = {[h EXCEPT !.status = "Approved",
                            !.posted = h.posted \/ (row.on = "approve" /\ row.sets)] : h \in header}
    /\ approved' = approved \cup {Seen(s).content}
    /\ IF ApprovalApplies THEN Apply(s) ELSE UNCHANGED effects
    /\ Done(s)
    /\ UNCHANGED row

AfterPosting ==
    IF row.ends = "gone" THEN {}
    ELSE {[h EXCEPT !.posted = row.sets,
                    !.status = IF row.ends = "final" THEN "Final" ELSE h.status] : h \in header}

Post(s) ==
    /\ Reads(s, "post")
    /\ Apply(s)
    /\ header' = AfterPosting
    /\ Done(s)
    /\ UNCHANGED <<row, approved>>

DocNext ==
    \E s \in Sessions :
        \/ \E op \in Op : Read(s, op)
        \/ Edit(s) \/ Delete(s) \/ Submit(s) \/ Return(s) \/ Approve(s) \/ Post(s)

DocSpec == DocInit /\ [][DocNext]_docVars

----------------------------------------------------------------------------
(* No document is paid, posted or written onto its record twice, whatever   *)
(* recall, reopening, edit or second submission comes after it, unless the  *)
(* request that applies it was overtaken (two postings at once); a kind     *)
(* that has nothing but its status to protect it is also exposed to any     *)
(* late write, which can bring an applied document back; a kind that reads  *)
(* its flag again under the row's lock is not exposed at all.               *)
AppliedOnce ==
    Len(effects) > 1 =>
        IF Flagged(row) \/ Deleted(row) THEN row.on \in late /\ ~row.rereads ELSE late # {}

(* What is applied is what an approver let through (or a document below     *)
(* the limit that its creator may post), unless an edit landed after the    *)
(* document had left Open, or the approval or the posting itself was        *)
(* overtaken.                                                               *)
AppliedAsApproved ==
    ~row.direct /\ late \cap {"edit", "approve", "post"} = {} =>
        \A i \in 1 .. Len(effects) : effects[i] \in approved
=============================================================================
