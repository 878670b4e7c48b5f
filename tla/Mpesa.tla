------------------------------- MODULE Mpesa -------------------------------
(***************************************************************************)
(* Money arriving through M-Pesa (lib/mpesa/index.ts): paybill             *)
(* confirmations (C2B), requests pushed to a handset (STK) with their      *)
(* callback, status query and 24-hour limit, and the posting of what       *)
(* arrived as a receipt on a student's fee account.                        *)
(*                                                                         *)
(* Every statement outside lib/receipts.ts is a transaction of its own, so *)
(* each handler is a chain of steps between which other requests run.      *)
(* Safaricom is the environment: it may deliver a callback late, never, or *)
(* any number of times.                                                    *)
(***************************************************************************)
EXTENDS Naturals, Sequences

CONSTANTS
    C2B, Pushes,   \* paybill payments (TransIDs) and STK requests (CheckoutRequestIDs)
    Students,      \* the students with a fee account
    Nobody,        \* no student matched
    Handlers,      \* requests and jobs being served at the same time
    MaxRows,       \* bound on mpesa_transaction rows
    MaxDeaths      \* bound on handlers that die between two steps

ASSUME MpesaAssumption ==
    /\ C2B \cap Pushes = {} /\ Nobody \notin Students \cup C2B \cup Pushes
    /\ MaxRows \in Nat /\ MaxDeaths \in Nat

VARIABLES
    outcome,  \* what the payer did, as Safaricom knows it
    rows,     \* mpesa_transaction
    credits,  \* receipts posted through lib/receipts.ts
    landed,   \* history: the pushes whose success callback was answered
    deaths,
    handler,  \* where each handler is
    shared    \* history: payments two handlers worked on at once, or one died on

mpesaVars == <<outcome, rows, credits, landed, deaths, handler, shared>>

Payments == C2B \cup Pushes
RowIds == 1 .. MaxRows
Statuses == {"PENDING", "RECEIVED", "POSTED", "FAILED", "CANCELLED"}
RowType ==
    [pay : Payments, status : Statuses, student : Students \cup {Nobody},
     receipt : BOOLEAN, old : BOOLEAN]
CreditType == [row : Nat \ {0}, pay : Payments, student : Students]

Steps ==
    {"idle", "c2bInsert", "stkInsert", "callback", "query", "allocate", "cancel",
     "post", "receipt", "mark"}
HandlerType ==
    [at : Steps, pay : Payments \cup {Nobody}, row : Nat, student : Students \cup {Nobody}]

MpesaTypeOK ==
    /\ outcome \in [Payments -> {"none", "asked", "paid", "declined"}]
    /\ rows \in Seq(RowType) /\ Len(rows) <= MaxRows
    /\ credits \in Seq(CreditType)
    /\ landed \subseteq Pushes /\ deaths \in 0 .. MaxDeaths
    /\ handler \in [Handlers -> HandlerType]
    /\ shared \subseteq Payments

IdleHandler == [at |-> "idle", pay |-> Nobody, row |-> 0, student |-> Nobody]
FreeHandler(s) == handler[s].at = "idle"
Go(s, step) == handler' = [handler EXCEPT ![s].at = step]
EndHandler(s) == handler' = [handler EXCEPT ![s] = IdleHandler]
AtWorkOn(p) == \E s \in Handlers : handler[s].pay = p
Noted(p) == shared' = IF AtWorkOn(p) THEN shared \cup {p} ELSE shared
StartOn(s, step, r) ==
    /\ handler' = [handler EXCEPT ![s] = [IdleHandler EXCEPT !.at = step, !.row = r, !.pay = rows[r].pay]]
    /\ Noted(rows[r].pay)

MpesaInit ==
    /\ outcome = [p \in Payments |-> "none"]
    /\ rows = <<>> /\ credits = <<>> /\ landed = {} /\ deaths = 0
    /\ handler = [s \in Handlers |-> IdleHandler]
    /\ shared = {}

-----------------------------------------------------------------------------
\* The payer: a paybill payment is simply made; a pushed one is accepted or not.
Pay(p) ==
    /\ \/ p \in C2B /\ outcome[p] = "none" /\ outcome' = [outcome EXCEPT ![p] = "paid"]
       \/ /\ p \in Pushes /\ outcome[p] = "asked"
          /\ \E o \in {"paid", "declined"} : outcome' = [outcome EXCEPT ![p] = o]
    /\ UNCHANGED <<rows, credits, landed, deaths, handler, shared>>

-----------------------------------------------------------------------------
\* recordC2bPayment: a TransID already on file is acknowledged and ignored.
Confirmation(s, p) ==
    /\ FreeHandler(s) /\ p \in C2B /\ outcome[p] = "paid"
    /\ \A r \in DOMAIN rows : rows[r].pay # p
    /\ handler' = [handler EXCEPT ![s] = [IdleHandler EXCEPT !.at = "c2bInsert", !.pay = p]]
    /\ Noted(p)
    /\ UNCHANGED <<outcome, rows, credits, landed, deaths>>

\* ... matchReference finds the student, or nobody; the row is inserted and posting starts.
C2bInsert(s) ==
    /\ handler[s].at = "c2bInsert" /\ Len(rows) < MaxRows
    /\ \E match \in Students \cup {Nobody} :
        rows' = Append(rows, [pay |-> handler[s].pay, status |-> "RECEIVED", student |-> match,
                              receipt |-> TRUE, old |-> FALSE])
    /\ handler' = [handler EXCEPT ![s] = [@ EXCEPT !.at = "post", !.row = Len(rows) + 1]]
    /\ UNCHANGED <<outcome, credits, landed, deaths, shared>>

-----------------------------------------------------------------------------
\* requestStkPayment: the handset is asked first, the row is written after.
StkPush(s, p) ==
    /\ FreeHandler(s) /\ p \in Pushes /\ outcome[p] = "none"
    /\ outcome' = [outcome EXCEPT ![p] = "asked"]
    /\ handler' = [handler EXCEPT ![s] = [IdleHandler EXCEPT !.at = "stkInsert", !.pay = p]]
    /\ UNCHANGED <<rows, credits, landed, deaths, shared>>

StkInsert(s) ==
    /\ handler[s].at = "stkInsert" /\ Len(rows) < MaxRows
    /\ \E st \in Students :
        rows' = Append(rows, [pay |-> handler[s].pay, status |-> "PENDING", student |-> st,
                              receipt |-> FALSE, old |-> FALSE])
    /\ EndHandler(s)
    /\ UNCHANGED <<outcome, credits, landed, deaths, shared>>

\* handleStkCallback: a row that is not PENDING any more is left as it is.
Callback(s, r) ==
    /\ FreeHandler(s) /\ r \in DOMAIN rows /\ rows[r].pay \in Pushes
    /\ outcome[rows[r].pay] \in {"paid", "declined"}
    /\ IF rows[r].status = "PENDING"
       THEN StartOn(s, "callback", r) /\ UNCHANGED landed
       ELSE /\ landed' = IF outcome[rows[r].pay] = "paid" THEN landed \cup {rows[r].pay} ELSE landed
            /\ UNCHANGED <<handler, shared>>
    /\ UNCHANGED <<outcome, rows, credits, deaths>>

\* ... result code 0: RECEIVED with Safaricom's receipt number, and posting starts;
\* anything else: FAILED. The row is written by id, whatever its status is by now.
\* (first with a defect: the result code is not looked at)
CallbackWriteAny(s) ==
    LET r == handler[s].row IN
    /\ handler[s].at = "callback"
    /\ rows' = [rows EXCEPT ![r].status = "RECEIVED", ![r].receipt = TRUE]
    /\ landed' = landed \cup {handler[s].pay}
    /\ Go(s, "post")
    /\ UNCHANGED <<outcome, credits, deaths, shared>>

CallbackWrite(s) ==
    LET r == handler[s].row IN
    /\ handler[s].at = "callback"
    /\ \/ /\ outcome[handler[s].pay] = "paid"
          /\ rows' = [rows EXCEPT ![r].status = "RECEIVED", ![r].receipt = TRUE]
          /\ landed' = landed \cup {handler[s].pay}
          /\ Go(s, "post")
       \/ /\ outcome[handler[s].pay] = "declined"
          /\ rows' = [rows EXCEPT ![r].status = "FAILED"]
          /\ EndHandler(s) /\ UNCHANGED landed
    /\ UNCHANGED <<outcome, credits, deaths, shared>>

\* queryStkStatus: an unanswered push is "still being processed" and changes nothing.
Query(s, r) ==
    /\ FreeHandler(s) /\ r \in DOMAIN rows /\ rows[r].status = "PENDING"
    /\ outcome[rows[r].pay] \in {"paid", "declined"}
    /\ StartOn(s, "query", r)
    /\ UNCHANGED <<outcome, rows, credits, landed, deaths>>

\* ... the answer is written only if the row is still PENDING; after a success
\* posting starts either way.
QueryWrite(s) ==
    LET r == handler[s].row
        paid == outcome[handler[s].pay] = "paid" IN
    /\ handler[s].at = "query"
    /\ rows' = IF rows[r].status = "PENDING"
               THEN [rows EXCEPT ![r].status = IF paid THEN "RECEIVED" ELSE "FAILED"] ELSE rows
    /\ IF paid THEN Go(s, "post") ELSE EndHandler(s)
    /\ UNCHANGED <<outcome, credits, landed, deaths, shared>>

\* A day passes; chasePendingStk then fails every push that is still unanswered.
GrowOld(r) ==
    /\ r \in DOMAIN rows /\ rows[r].status = "PENDING" /\ ~rows[r].old
    /\ rows' = [rows EXCEPT ![r].old = TRUE]
    /\ UNCHANGED <<outcome, credits, landed, deaths, handler, shared>>

ExpirePushes ==
    LET dead == {r \in DOMAIN rows : rows[r].status = "PENDING" /\ rows[r].old} IN
    /\ dead # {}
    /\ rows' = [r \in DOMAIN rows |-> IF r \in dead THEN [rows[r] EXCEPT !.status = "FAILED"] ELSE rows[r]]
    /\ UNCHANGED <<outcome, credits, landed, deaths, handler, shared>>

-----------------------------------------------------------------------------
\* The M-Pesa screen: a person posts, allocates or cancels a row.
PersonPosts(s, r) ==
    /\ FreeHandler(s) /\ r \in DOMAIN rows
    /\ StartOn(s, "post", r)
    /\ UNCHANGED <<outcome, rows, credits, landed, deaths>>

AllocateRow(s, r) ==
    /\ FreeHandler(s) /\ r \in DOMAIN rows /\ rows[r].status = "RECEIVED"
    /\ StartOn(s, "allocate", r)
    /\ UNCHANGED <<outcome, rows, credits, landed, deaths>>

\* (first with a defect: the receipt is made for the student matched before)
AllocateWriteAfter(s) ==
    LET r == handler[s].row IN
    /\ handler[s].at = "allocate"
    /\ \E st \in Students : rows' = [rows EXCEPT ![r].student = st]
    /\ handler' = [handler EXCEPT ![s] = [@ EXCEPT !.at = IF rows[r].student = Nobody THEN "post" ELSE "receipt",
                                             !.student = rows[r].student]]
    /\ UNCHANGED <<outcome, credits, landed, deaths, shared>>

AllocateWrite(s) ==
    /\ handler[s].at = "allocate"
    /\ \E st \in Students : rows' = [rows EXCEPT ![handler[s].row].student = st]
    /\ Go(s, "post")
    /\ UNCHANGED <<outcome, credits, landed, deaths, shared>>

CancelRow(s, r) ==
    /\ FreeHandler(s) /\ r \in DOMAIN rows /\ rows[r].status # "POSTED"
    /\ StartOn(s, "cancel", r)
    /\ UNCHANGED <<outcome, rows, credits, landed, deaths>>

CancelWrite(s) ==
    /\ handler[s].at = "cancel"
    /\ rows' = [rows EXCEPT ![handler[s].row].status = "CANCELLED"]
    /\ EndHandler(s)
    /\ UNCHANGED <<outcome, credits, landed, deaths, shared>>

-----------------------------------------------------------------------------
\* postMpesaTransaction: only a RECEIVED row that is matched is posted.
PostRead(s) ==
    LET t == rows[handler[s].row] IN
    /\ handler[s].at = "post"
    /\ IF t.status = "RECEIVED" /\ t.student # Nobody
       THEN handler' = [handler EXCEPT ![s] = [@ EXCEPT !.at = "receipt", !.student = t.student]]
       ELSE EndHandler(s)
    /\ UNCHANGED <<outcome, rows, credits, landed, deaths, shared>>

\* ... createReceipt and postReceipt commit, or a refusal is noted on the row.
PostReceipt(s) ==
    /\ handler[s].at = "receipt"
    /\ \/ /\ credits' = Append(credits, [row |-> handler[s].row, pay |-> handler[s].pay, student |-> handler[s].student])
          /\ Go(s, "mark")
       \/ EndHandler(s) /\ UNCHANGED credits
    /\ UNCHANGED <<outcome, rows, landed, deaths, shared>>

\* ... and only then is the row marked POSTED.
Mark(s) ==
    /\ handler[s].at = "mark"
    /\ rows' = [rows EXCEPT ![handler[s].row].status = "POSTED"]
    /\ EndHandler(s)
    /\ UNCHANGED <<outcome, credits, landed, deaths, shared>>

\* A handler dies between two steps; what it committed stays.
HandlerDies(s) ==
    /\ ~FreeHandler(s) /\ deaths < MaxDeaths
    /\ deaths' = deaths + 1
    /\ shared' = shared \cup ({handler[s].pay} \cap Payments)
    /\ EndHandler(s)
    /\ UNCHANGED <<outcome, rows, credits, landed>>

-----------------------------------------------------------------------------
HandlerStep(s) ==
    \/ C2bInsert(s) \/ StkInsert(s) \/ CallbackWrite(s) \/ QueryWrite(s)
    \/ AllocateWrite(s) \/ CancelWrite(s) \/ PostRead(s) \/ PostReceipt(s) \/ Mark(s)

MpesaNext ==
    \/ \E p \in Payments : Pay(p)
    \/ \E s \in Handlers, p \in Payments : Confirmation(s, p) \/ StkPush(s, p)
    \/ \E s \in Handlers, r \in RowIds :
        Callback(s, r) \/ Query(s, r) \/ PersonPosts(s, r) \/ AllocateRow(s, r) \/ CancelRow(s, r)
    \/ \E s \in Handlers : HandlerStep(s) \/ HandlerDies(s)
    \/ \E r \in RowIds : GrowOld(r)
    \/ ExpirePushes

MpesaSpec == MpesaInit /\ [][MpesaNext]_mpesaVars

-----------------------------------------------------------------------------
CreditsOf(p) == {c \in DOMAIN credits : credits[c].pay = p}

\* "a replayed M-Pesa callback returns the original receipt instead of posting a
\* second one": however a payment is confirmed, it is credited at most once.
CreditedOnce == \A c, d \in DOMAIN credits : credits[c].pay = credits[d].pay => c = d

\* That much is true of a payment no two handlers worked on at once and none died on,
\* however often it was confirmed, queried, refused, allocated and posted by hand: it
\* has one row and is credited at most once ...
OnceUndisturbed ==
    /\ \A c, d \in DOMAIN credits :
        credits[c].pay = credits[d].pay => c = d \/ credits[c].pay \in shared
    /\ \A q, r \in DOMAIN rows :
        rows[q].pay = rows[r].pay => q = r \/ rows[q].pay \in shared

\* ... to the student its POSTED row shows.
ShownAsCreditedUndisturbed ==
    \A r \in DOMAIN rows, c \in DOMAIN credits :
        rows[r].status = "POSTED" /\ credits[c].row = r =>
            credits[c].student = rows[r].student \/ rows[r].pay \in shared

\* Both at once.
RightUnlessDisturbed == OnceUndisturbed /\ ShownAsCreditedUndisturbed

\* Nothing is credited that the payer did not pay: not a declined push, not one
\* still unanswered, whatever callbacks, queries, cancellations and time do.
OnlyPaidCredited == \A c \in DOMAIN credits : outcome[credits[c].pay] = "paid"

\* A row that says POSTED has its receipt: the money is on a fee account.
PostedRowsCredited ==
    \A r \in DOMAIN rows : rows[r].status = "POSTED" => CreditsOf(rows[r].pay) # {}

\* The rows are well typed; what is credited was paid, and what is shown as credited is.
PaidIffCredited == MpesaTypeOK /\ OnlyPaidCredited /\ PostedRowsCredited

\* "success -> RECEIVED (+ receipt, amount as paid) and post": a push whose success
\* callback was answered is not among the failed ones.
SuccessIsKept ==
    \A r \in DOMAIN rows : rows[r].pay \in landed => rows[r].status # "FAILED"

\* "the callback fills that in if it ever lands": once the success callback was
\* answered, a received or posted row carries Safaricom's receipt number.
ReceiptFilledIn ==
    \A r \in DOMAIN rows :
        rows[r].pay \in landed /\ rows[r].status \in {"RECEIVED", "POSTED"} => rows[r].receipt
=============================================================================
