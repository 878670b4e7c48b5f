----------------------------- MODULE CustLedger -----------------------------
(***************************************************************************)
(* The customer subledger of lib/custLedger.ts for one customer: ledger    *)
(* entries, the application of an entry to others of the opposite sign,    *)
(* payment discounts and exchange differences, unapplication, the balance  *)
(* kept on the customer card beside the receivables account, and the       *)
(* reversal of a document's journal from the G/L, which reaches only the   *)
(* receivables account.                                                    *)
(*                                                                         *)
(* The "Apply" button calls applyCustomerEntries outside any transaction   *)
(* (app/actions/receivables.ts:311): every matched entry is written before *)
(* the next is looked at, and other sessions run in between.               *)
(***************************************************************************)
EXTENDS Integers, FiniteSets, Sequences, SequencesExt

CONSTANTS
    Sessions,
    Customers,   \* kinds of customer: what is posted on one, the signs of the entries
                 \* its applications start from, who applies, whether a journal may be
                 \* refused, and bounds on its entries and on reversals from the G/L
    MaxUnapply   \* bound on unapplications

\* amount is in the document's currency, debit positive; factor is LCY per unit;
\* pays is the posting date, due the due date, until the payment discount date
\* (0: none) and disc the discount possible.
DocumentType ==
    [amount : Int \ {0}, factor : Nat \ {0}, pays : Nat, due : Nat, until : Nat, disc : Nat]

ASSUME ConstantsAssumption ==
    /\ \A c \in Customers :
        /\ c.documents \subseteq DocumentType /\ c.appliedFrom \subseteq {-1, 1}
        /\ c.clerks \subseteq Sessions /\ c.refusals \in BOOLEAN
        /\ c.maxEntries \in Nat /\ c.maxReversals \in Nat
    /\ MaxUnapply \in Nat

VARIABLES
    customer, \* the kind of customer this one is
    entry,    \* cust_ledger_entry, in order of id
    detail,   \* detailed_cust_ledger_entry, in order of id
    control,  \* G/L balance of the receivables account for this customer, in LCY
    balance,  \* customer.balance
    apply,    \* the application each session is in the middle of
    undone,   \* unapplications so far
    reversed, \* entries whose document's journal was reversed from the G/L
    disturbed \* history: entries written while another application held them in memory,
              \* or left by an application that broke off

vars == <<customer, entry, detail, control, balance, apply, undone, reversed, disturbed>>

EntryType == [doc : DocumentType, remaining : Int, lcy : Int, open : BOOLEAN]

DetailType ==
    [entry : Nat, type : {"Initial Entry", "Application", "Payment Discount", "Unapplied"},
     amount : Int, applied : Nat, unapplied : BOOLEAN]

\* what applyCustomerEntries holds in memory: the rows as they were loaded
LoadedType == [id : Nat, remaining : Int, lcy : Int, open : BOOLEAN]

ApplyType ==
    [pc : {"idle", "loop"}, entry : Nat, remaining : Int, targets : Seq(LoadedType),
     wrote : BOOLEAN]   \* history: it has written a target

TypeOK ==
    /\ customer \in Customers
    /\ entry \in Seq(EntryType)
    /\ detail \in Seq(DetailType)
    /\ \A i \in DOMAIN detail : detail[i].entry \in DOMAIN entry
    /\ control \in Int /\ balance \in Int
    /\ apply \in [Sessions -> ApplyType]
    /\ \A s \in Sessions : \A i \in DOMAIN apply[s].targets :
           apply[s].targets[i].id \in DOMAIN entry
    /\ undone \in 0 .. MaxUnapply
    /\ reversed \subseteq DOMAIN entry /\ disturbed \subseteq DOMAIN entry

-----------------------------------------------------------------------------
Entries == DOMAIN entry
Abs(n) == IF n < 0 THEN -n ELSE n
Sign(e) == IF entry[e].doc.amount >= 0 THEN 1 ELSE -1
Least(m, n) == IF m <= n THEN m ELSE n

\* recomputeCustomerBalance
OpenTotal(es) == SumFunction([e \in DOMAIN es |-> IF es[e].open THEN es[e].lcy ELSE 0])

Row(e, type, amount, applied) ==
    [entry |-> e, type |-> type, amount |-> amount, applied |-> applied, unapplied |-> FALSE]

Idle == [pc |-> "idle", entry |-> 0, remaining |-> 0, targets |-> <<>>, wrote |-> FALSE]

Init ==
    /\ customer \in Customers
    /\ entry = <<>> /\ detail = <<>>
    /\ control = 0 /\ balance = 0
    /\ apply = [s \in Sessions |-> Idle]
    /\ undone = 0
    /\ reversed = {} /\ disturbed = {}

-----------------------------------------------------------------------------
\* A document is posted: its journal moves the receivables account and the
\* entry is opened with its "Initial Entry" row, in one transaction.
CreateEntry ==
    /\ Len(entry) < customer.maxEntries
    /\ \E d \in customer.documents :
        /\ entry' = Append(entry, [doc |-> d, remaining |-> d.amount,
                                   lcy |-> d.amount * d.factor, open |-> TRUE])
        /\ detail' = Append(detail, Row(Len(entry) + 1, "Initial Entry", d.amount, 0))
        /\ control' = control + d.amount * d.factor
    /\ balance' = OpenTotal(entry')
    /\ UNCHANGED <<customer, apply, undone, reversed, disturbed>>

Loaded(e) == [id |-> e, remaining |-> entry[e].remaining, lcy |-> entry[e].lcy, open |-> entry[e].open]

Opposite(e) == {t \in Entries : Sign(t) # Sign(e)}

\* 'auto': open entries of the other sign, oldest due date first
DueOrder(a, b) ==
    \/ entry[a].doc.due < entry[b].doc.due
    \/ entry[a].doc.due = entry[b].doc.due /\ entry[a].doc.pays < entry[b].doc.pays
    \/ entry[a].doc.due = entry[b].doc.due /\ entry[a].doc.pays = entry[b].doc.pays /\ a < b

AutoTargets(e) ==
    {ts \in SetToSeqs({t \in Opposite(e) : entry[t].open}) :
        \A i, j \in DOMAIN ts : i < j => DueOrder(ts[i], ts[j])}

\* entries ticked in the dialog, in the order they were ticked
PickedTargets(e) ==
    {<<t>> : t \in Opposite(e)}
        \cup {<<p[1], p[2]>> : p \in {q \in Opposite(e) \X Opposite(e) : q[1] # q[2]}}

StartApply(s) ==
    /\ apply[s].pc = "idle" /\ s \in customer.clerks
    /\ \E e \in Entries :
        /\ entry[e].open /\ entry[e].remaining # 0 /\ Sign(e) \in customer.appliedFrom
        /\ \E ts \in PickedTargets(e) \cup AutoTargets(e) :
            apply' = [apply EXCEPT ![s] =
                [pc |-> "loop", entry |-> e, remaining |-> entry[e].remaining,
                 targets |-> [i \in DOMAIN ts |-> Loaded(ts[i])], wrote |-> FALSE]]
    /\ UNCHANGED <<customer, entry, detail, control, balance, undone, reversed, disturbed>>

\* The payment discount an application gives: to a payment posted in time, on an
\* invoice nothing has been applied to yet.
\* (first with a defect: a discount for every instalment)
DiscountEachTime(e, t) ==
    IF /\ Sign(e) = -1 /\ Sign(t.id) = 1
       /\ entry[t.id].doc.until # 0 /\ entry[e].doc.pays <= entry[t.id].doc.until
    THEN Least(entry[t.id].doc.disc, Abs(t.remaining)) ELSE 0

Discount(e, t) ==
    IF /\ Sign(e) = -1 /\ Sign(t.id) = 1
       /\ entry[t.id].doc.until # 0 /\ entry[e].doc.pays <= entry[t.id].doc.until
       /\ Abs(t.remaining) = entry[t.id].doc.amount
    THEN Least(entry[t.id].doc.disc, Abs(t.remaining)) ELSE 0

Applied(s, t) ==
    Least(Abs(t.remaining) - Discount(apply[s].entry, t), Abs(apply[s].remaining))

\* The exchange difference realized on what is applied, debited to receivables
RealizedFx(s, t) ==
    Applied(s, t) * (entry[apply[s].entry].doc.factor - entry[t.id].doc.factor)

\* The target as it is written back: absolute values, from the row loaded.
\* (first with a defect: the discount is posted but not taken off the invoice)
SettledWithoutDiscount(s, t) ==
    LET left == t.remaining - Sign(t.id) * Applied(s, t) IN
    [entry[t.id] EXCEPT
        !.remaining = left,
        !.lcy = IF left = 0 THEN 0
                ELSE t.lcy - Sign(t.id) * Applied(s, t) * entry[t.id].doc.factor,
        !.open = left # 0]

Settled(s, t) ==
    LET settled == Applied(s, t) + Discount(apply[s].entry, t)
        left == t.remaining - Sign(t.id) * settled
    IN
    [entry[t.id] EXCEPT
        !.remaining = left,
        !.lcy = IF left = 0 THEN 0 ELSE t.lcy - Sign(t.id) * settled * entry[t.id].doc.factor,
        !.open = left # 0]

\* The rows that record it on either side.
AppliedRows(e, t, applied, discount) ==
    <<Row(e, "Application", -Sign(e) * applied, t.id),
      Row(t.id, "Application", -Sign(t.id) * (applied + discount), e)>>
    \o IF discount = 0 THEN <<>>
       ELSE <<Row(t.id, "Payment Discount", -Sign(t.id) * discount, e)>>

\* entries another application has loaded
HeldElsewhere(s) ==
    UNION {{apply[o].entry} \cup {t.id : t \in Range(apply[o].targets)} : o \in Sessions \ {s}}

\* One pass of the loop over the targets.
ApplyNext(s) ==
    /\ apply[s].pc = "loop" /\ apply[s].remaining # 0 /\ apply[s].targets # <<>>
    /\ LET e == apply[s].entry
           t == Head(apply[s].targets)
           applied == Applied(s, t)
           discount == Discount(e, t)
       IN \/ /\ ~t.open
             /\ apply' = [apply EXCEPT ![s].targets = Tail(@)]
             /\ UNCHANGED <<entry, detail, control, disturbed>>
          \/ /\ t.open
             /\ entry' = [entry EXCEPT ![t.id] = Settled(s, t),
                                       ![e].lcy = @ - Sign(e) * applied * entry[e].doc.factor]
             /\ detail' = detail \o AppliedRows(e, t, applied, discount)
             /\ control' = control + RealizedFx(s, t) - discount
             /\ apply' = [apply EXCEPT ![s].targets = Tail(@),
                                       ![s].remaining = @ - Sign(e) * applied,
                                       ![s].wrote = TRUE]
             /\ disturbed' = disturbed \cup ({t.id, e} \cap HeldElsewhere(s))
    /\ UNCHANGED <<customer, balance, undone, reversed>>

\* The entry itself, written back with what is left of it.
WrittenBack(s) ==
    LET left == apply[s].remaining IN
    [entry[apply[s].entry] EXCEPT
        !.remaining = left, !.lcy = IF left = 0 THEN 0 ELSE @, !.open = left # 0]

\* After the loop the applying entry itself is written and the balance rolled up.
\* (first with a defect: the balance on the card is not rolled up)
FinishWithoutRollUp(s) ==
    /\ apply[s].pc = "loop"
    /\ apply[s].remaining = 0 \/ apply[s].targets = <<>>
    /\ entry' = [entry EXCEPT ![apply[s].entry] = WrittenBack(s)]
    /\ apply' = [apply EXCEPT ![s] = Idle]
    /\ UNCHANGED <<customer, balance, detail, control, undone, reversed, disturbed>>

FinishApply(s) ==
    /\ apply[s].pc = "loop"
    /\ apply[s].remaining = 0 \/ apply[s].targets = <<>>
    /\ entry' = [entry EXCEPT ![apply[s].entry] = WrittenBack(s)]
    /\ balance' = OpenTotal(entry')
    /\ disturbed' = disturbed \cup ({apply[s].entry} \cap HeldElsewhere(s))
    /\ apply' = [apply EXCEPT ![s] = Idle]
    /\ UNCHANGED <<customer, detail, control, undone, reversed>>

\* A journal of the loop is refused, or the server stops: what was written stays.
FailApply(s) ==
    /\ customer.refusals /\ apply[s].pc = "loop"
    /\ disturbed' = disturbed \cup {e \in {apply[s].entry} : apply[s].wrote}
    /\ apply' = [apply EXCEPT ![s] = Idle]
    /\ UNCHANGED <<customer, entry, detail, control, balance, undone, reversed>>

\* reverseJournalEntry on the journal a document was posted with: the receivables
\* account is moved back; nothing looks for the entry the journal belongs to.
ReverseFromGL(e) ==
    /\ e \notin reversed /\ Cardinality(reversed) < customer.maxReversals
    /\ control' = control - entry[e].doc.amount * entry[e].doc.factor
    /\ reversed' = reversed \cup {e}
    /\ UNCHANGED <<customer, entry, detail, balance, apply, undone, disturbed>>

\* unapplyCustomerEntry: every application row of the entry or against it is
\* struck and mirrored by an "Unapplied" row, and the entries touched get the
\* sum of the rows not struck. remaining_amount_lcy is left as it is.
Applications(e) ==
    {i \in DOMAIN detail : /\ detail[i].type = "Application" /\ ~detail[i].unapplied
                           /\ e \in {detail[i].entry, detail[i].applied}}

Struck(e) ==
    [i \in DOMAIN detail |->
        IF i \in Applications(e) THEN [detail[i] EXCEPT !.unapplied = TRUE] ELSE detail[i]]

Mirrors(e) ==
    LET is == SetToSortSeq(Applications(e), <) IN
    [k \in DOMAIN is |->
        Row(detail[is[k]].entry, "Unapplied", -detail[is[k]].amount, detail[is[k]].applied)]

RemainingOf(e, rows) ==
    SumFunction([i \in DOMAIN rows |->
        IF rows[i].entry = e /\ ~rows[i].unapplied THEN rows[i].amount ELSE 0])

Unapply(e) ==
    /\ undone < MaxUnapply
    /\ Applications(e) # {}
    /\ detail' = Struck(e) \o Mirrors(e)
    /\ entry' = [t \in Entries |->
         IF \E i \in Applications(e) : detail[i].entry = t
         THEN [entry[t] EXCEPT !.remaining = RemainingOf(t, detail'),
                               !.open = RemainingOf(t, detail') # 0]
         ELSE entry[t]]
    /\ balance' = OpenTotal(entry')
    /\ undone' = undone + 1
    /\ UNCHANGED <<customer, control, apply, reversed, disturbed>>

-----------------------------------------------------------------------------
Next ==
    \/ CreateEntry
    \/ \E s \in Sessions : StartApply(s) \/ ApplyNext(s) \/ FinishApply(s) \/ FailApply(s)
    \/ \E e \in Entries : ReverseFromGL(e)

Spec == Init /\ [][Next]_vars

SpecUnapply == Init /\ [][Next \/ \E e \in Entries : Unapply(e)]_vars

-----------------------------------------------------------------------------
AtRest == \A s \in Sessions : apply[s].pc = "idle"

\* recomputeCustomerBalance's comment: the customer's balance ties to the
\* receivables control account. Between applications they differ by exactly what
\* was reversed from the G/L behind the ledger's back - unless two applications
\* crossed on an entry or one broke off half way, the only other ways apart.
BalanceTiesToControl ==
    (AtRest /\ disturbed = {}) =>
        balance = control + SumFunction([e \in reversed |-> entry[e].doc.amount * entry[e].doc.factor])

\* Customers on whom that can be relied: applications that start from an invoice
\* (whose exchange difference is posted with the sign of a payment's) meet one rate
\* only, and discounts are in base currency, the one their posting assumes.
Straight(c) ==
    /\ 1 \in c.appliedFrom => \A d, f \in c.documents : d.factor = f.factor
    /\ \A d \in c.documents : d.disc # 0 => d.factor = 1

\* The detailed rows explain the remaining amount of every entry no application
\* was disturbed on: the initial entry less what was applied.
Explained(e) ==
    SumFunction([i \in DOMAIN detail |->
        IF detail[i].entry = e /\ detail[i].type \in {"Initial Entry", "Application"}
        THEN detail[i].amount ELSE 0])

DetailExplainsRemaining ==
    AtRest => \A e \in Entries \ disturbed : entry[e].remaining = Explained(e)

\* What leaves one side leaves the other: remaining amounts always add up to the
\* documents less the discounts given, so an undisturbed application creates no money.
DiscountsGiven ==
    SumFunction([i \in DOMAIN detail |->
        IF detail[i].type = "Payment Discount" THEN detail[i].amount ELSE 0])

ApplicationConserves ==
    (AtRest /\ disturbed = {}) =>
        SumFunction([e \in Entries |-> entry[e].remaining]) =
            SumFunction([e \in Entries |-> entry[e].doc.amount]) + DiscountsGiven

\* An entry is never settled beyond its amount, nor does it change side, whoever
\* else applies it or breaks off.
NeverOverApplied ==
    \A e \in Entries : /\ Sign(e) * entry[e].remaining >= 0
                       /\ Abs(entry[e].remaining) <= Abs(entry[e].doc.amount)

\* An entry is open exactly while something remains on it.
OpenIffOwed == AtRest => \A e \in Entries : entry[e].open <=> entry[e].remaining # 0

\* An invoice's payment discount is given once, however many payments settle it
\* one after the other.
DiscountOnce ==
    \A i, j \in DOMAIN detail :
        (/\ detail[i].type = "Payment Discount" /\ detail[j].type = "Payment Discount"
         /\ detail[i].entry = detail[j].entry /\ detail[i].entry \notin disturbed) => i = j

\* An entry's row is sound: well typed, between nothing and its amount, open exactly
\* while it is owed, discounted at most once, and explained by its detailed rows; and
\* applications among the entries create no money.
EntriesSound ==
    /\ TypeOK /\ NeverOverApplied /\ OpenIffOwed /\ DiscountOnce
    /\ DetailExplainsRemaining /\ ApplicationConserves
=============================================================================
