------------------------------ MODULE BankRec ------------------------------
(* Reconciling one bank account: its ledger entries, written by journals at *)
(* any time, and the reconciliations, each with the balance of the last     *)
(* statement as it was when it was started.  Starting checks that none is   *)
(* open and inserts later; posting reads the reconciliation with its lines, *)
(* writes from what it read, and its journal has no idempotency key.        *)
(*                                                                          *)
(* Not here: statement dates, foreign currency, entries suggested but never *)
(* applied.                                                                 *)
EXTENDS Integers, Sequences, FiniteSets, Functions

CONSTANTS
    Cashiers,       \* requests under way
    Amounts,        \* amounts of entries and adjustments
    Statements,     \* ending balances of statements
    MaxEntries, MaxRecs

ASSUME RecAssumption == Amounts \subseteq Int /\ Statements \subseteq Int

VARIABLES
    entry,      \* bank_account_ledger_entry: amount, closed by a reconciliation
    lastStmt,   \* bank_account.balance_last_statement
    recs,       \* bank_reconciliation with its lines
    view,       \* what each request has read
    recMarks    \* "both", "twice": see the steps

recVars == <<entry, lastStmt, recs, view, recMarks>>

AmountOf(S) == SumFunctionOnSet([i \in DOMAIN entry |-> entry[i].amount], S)
OpenRec(r) == recs[r].status = "OPEN"

RecInit ==
    /\ entry = <<>> /\ lastStmt = 0 /\ recs = <<>>
    /\ view = [c \in Cashiers |-> <<>>]
    /\ recMarks = {}

(* A journal reaches the bank account.                                      *)
Arrive(a) ==
    /\ Len(entry) < MaxEntries
    /\ entry' = Append(entry, [amount |-> a, closed |-> FALSE])
    /\ UNCHANGED <<lastStmt, recs, view, recMarks>>

AskStart(c, stmt) ==
    /\ view[c] = <<>> /\ Len(recs) < MaxRecs
    /\ \A r \in DOMAIN recs : ~OpenRec(r)
    /\ view' = [view EXCEPT ![c] = <<"start", stmt, lastStmt>>]
    /\ UNCHANGED <<entry, lastStmt, recs, recMarks>>

(* ("both": another was started or posted since the check)                  *)
StartRec(c) ==
    /\ view[c] # <<>> /\ view[c][1] = "start" /\ Len(recs) < MaxRecs
    /\ recs' = Append(recs, [last |-> view[c][3], stmt |-> view[c][2], applied |-> {},
                             adjust |-> 0, status |-> "OPEN"])
    /\ recMarks' = recMarks \cup
         (IF lastStmt # view[c][3] \/ \E r \in DOMAIN recs : OpenRec(r) THEN {"both"} ELSE {})
    /\ view' = [view EXCEPT ![c] = <<>>]
    /\ UNCHANGED <<entry, lastStmt>>

(* An open entry is suggested and matched, or unmatched; an item on the     *)
(* statement only is added, or removed.                                     *)
MatchEntry(r, i) ==
    /\ OpenRec(r) /\ (i \in recs[r].applied \/ ~entry[i].closed)
    /\ recs' = [recs EXCEPT ![r].applied = IF i \in @ THEN @ \ {i} ELSE @ \cup {i}]
    /\ UNCHANGED <<entry, lastStmt, view, recMarks>>

AdjustRec(r, a) ==
    /\ OpenRec(r) /\ recs[r].adjust # a
    /\ recs' = [recs EXCEPT ![r].adjust = a]
    /\ UNCHANGED <<entry, lastStmt, view, recMarks>>

(* What a reconciliation comes to: statement, lines and adjustment          *)
(* (first with a defect: the adjustment is left out).                       *)
DifferenceOfLines(rec) == rec.stmt - (rec.last + AmountOf(rec.applied))

Difference(rec) == rec.stmt - (rec.last + AmountOf(rec.applied) + rec.adjust)

AskPost(c, r) ==
    /\ view[c] = <<>> /\ OpenRec(r) /\ Difference(recs[r]) = 0
    /\ view' = [view EXCEPT ![c] = <<"post", r, recs[r]>>]
    /\ UNCHANGED <<entry, lastStmt, recs, recMarks>>

(* The adjustment's entry is inserted and closed with the matched ones, and *)
(* the statement becomes the last one ("twice": the reconciliation changed  *)
(* since it was read).                                                      *)
PostRec(c) ==
    /\ view[c] # <<>> /\ view[c][1] = "post"
    /\ LET r == view[c][2]
           read == view[c][3]
           closed == [i \in DOMAIN entry |->
                         IF i \in read.applied THEN [entry[i] EXCEPT !.closed = TRUE] ELSE entry[i]]
       IN  /\ entry' = IF read.adjust = 0 THEN closed
                       ELSE Append(closed, [amount |-> read.adjust, closed |-> TRUE])
           /\ lastStmt' = read.stmt
           /\ recs' = [recs EXCEPT ![r].status = "POSTED"]
           /\ recMarks' = recMarks \cup (IF recs[r] # read THEN {"twice"} ELSE {})
    /\ view' = [view EXCEPT ![c] = <<>>]

RecNext ==
    \/ \E a \in Amounts : Arrive(a)
    \/ \E c \in Cashiers :
          \/ \E stmt \in Statements : AskStart(c, stmt)
          \/ \E r \in DOMAIN recs : AskPost(c, r)
          \/ StartRec(c) \/ PostRec(c)
    \/ \E r \in DOMAIN recs :
          \/ \E i \in DOMAIN entry : MatchEntry(r, i)
          \/ \E a \in Amounts \cup {0} : AdjustRec(r, a)

RecSpec == RecInit /\ [][RecNext]_recVars

----------------------------------------------------------------------------
(* The balance of the last statement is the sum of the entries closed by    *)
(* reconciliations, while entries arrive and lines change, unless two       *)
(* reconciliations were started at once or one changed while it was posted; *)
(* so no entry is lost to the statements and none counted twice.            *)
StatementIsReconciled ==
    recMarks = {} => lastStmt = AmountOf({i \in DOMAIN entry : entry[i].closed})
=============================================================================
