------------------------------- MODULE Review -------------------------------
(* The review of an approved purchase requisition: each line is decided on  *)
(* (a new purchase order, or the order it is appended to), and executing    *)
(* the review raises the documents, stamps the lines and closes the         *)
(* requisition when none is left.  Nothing is locked: a decision and a      *)
(* closing check before they write, an execution reads the requisition, its *)
(* lines and the order it appends to before it writes, and appending        *)
(* rewrites all the lines of the order.                                     *)
(*                                                                          *)
(* Not here: requests for quotation (as new orders), vendors, amounts, the  *)
(* approval of the requisition (DocumentLife), what becomes of the orders   *)
(* (Orders).                                                                *)
EXTENDS Naturals, Sequences, FiniteSets, SequencesExt

CONSTANTS
    PrLines,      \* lines of the requisition
    Reviewers,    \* requests under way
    MaxRaised     \* bound on the purchase orders

(* A requisition without lines is not submitted, so never reviewed.         *)
ASSUME PrLinesAssumption == IsFiniteSet(PrLines) /\ PrLines # {} /\ 0 \notin PrLines

VARIABLES
    prLines,      \* decision ("": none), processed, order number (0: none)
    prClosed,     \* "no", "order": all lines ordered, "hand": by hand
    raised,       \* purchase orders: status, lines; a line of its own is 0
    reviewer,     \* what each request has read
    reviewMarks   \* "twice", "late", "rewritten", "released": see the steps

reviewVars == <<prLines, prClosed, raised, reviewer, reviewMarks>>

ReviewInit ==
    /\ prLines = [l \in PrLines |-> [decision |-> "", processed |-> FALSE, order |-> 0]]
    /\ prClosed = "no"
    /\ raised = <<[status |-> "Open", lines |-> <<0>>]>>
    /\ reviewer = [k \in Reviewers |-> <<>>]
    /\ reviewMarks = {}

Reviewing(k, op) == reviewer[k] # <<>> /\ reviewer[k][1] = op
Flag(condition, name) == IF condition THEN {name} ELSE {}
Free(k) == reviewer' = [reviewer EXCEPT ![k] = <<>>]

(* A line is decided on while it is not processed; an order it is appended  *)
(* to is open ...                                                           *)
AskDecision(k, l, decision) ==
    /\ reviewer[k] = <<>> /\ prClosed = "no" /\ ~prLines[l].processed
    /\ decision = "Append to Order" => raised[1].status = "Open"
    /\ reviewer' = [reviewer EXCEPT ![k] = <<"decide", l, decision>>]
    /\ UNCHANGED <<prLines, prClosed, raised, reviewMarks>>

(* ... and the decision written by key ("late": processed or closed now).   *)
SetLineDecision(k) ==
    /\ Reviewing(k, "decide")
    /\ LET l == reviewer[k][2]
       IN  /\ prLines' = [prLines EXCEPT ![l].decision = reviewer[k][3]]
           /\ reviewMarks' = reviewMarks \cup Flag(prLines[l].processed \/ prClosed # "no", "late")
    /\ Free(k)
    /\ UNCHANGED <<prClosed, raised>>

(* The lines an execution raises.                                           *)
Pending == {l \in PrLines : ~prLines[l].processed /\ prLines[l].decision # ""}

(* An execution reads the requisition and its lines: the group of those to  *)
(* append, of those for a new order, and those processed already (none).    *)
ReadReview(k) ==
    /\ reviewer[k] = <<>> /\ prClosed = "no" /\ Pending # {}
    /\ reviewer' = [reviewer EXCEPT ![k] =
         <<"execute", {l \in Pending : prLines[l].decision = "Append to Order"},
                      {l \in Pending : prLines[l].decision = "Order"},
                      {l \in Pending : prLines[l].processed}>>]
    /\ UNCHANGED <<prLines, prClosed, raised, reviewMarks>>

(* It reads the order it appends to, which must be open, and its lines.     *)
ReadTarget(k) ==
    /\ Reviewing(k, "execute")
    /\ reviewer[k][2] # {} => raised[1].status = "Open"
    /\ reviewer' = [reviewer EXCEPT ![k] = <<"raise", @[2], @[3], @[4], raised[1].lines>>]
    /\ UNCHANGED <<prLines, prClosed, raised, reviewMarks>>

(* The order is not open any more: nothing of the execution remains.        *)
RefuseTarget(k) ==
    /\ Reviewing(k, "execute") /\ reviewer[k][2] # {} /\ raised[1].status # "Open"
    /\ Free(k)
    /\ UNCHANGED <<prLines, prClosed, raised, reviewMarks>>

(* It writes and commits.  The lines of the order are deleted and those it  *)
(* read inserted with the group; where another did so since, lines get lost *)
(* or stand there twice ("rewritten").  A line may have been ordered since  *)
(* ("twice"), the requisition closed ("late": an execution that leaves some  *)
(* lines opens it again), the order released.                               *)
ExecuteReview(k) ==
    /\ Reviewing(k, "raise")
    /\ LET appended == reviewer[k][2]
           fresh == reviewer[k][3]
           before == reviewer[k][4]
           known == reviewer[k][5]
           now == raised[1].lines
           new == Len(raised) + 1
           written == [l \in PrLines |->
               IF l \in appended THEN [prLines[l] EXCEPT !.processed = TRUE, !.order = 1]
               ELSE IF l \in fresh THEN [prLines[l] EXCEPT !.processed = TRUE, !.order = new]
               ELSE prLines[l]]
           tail == SetToSeq(appended)
           \* the set of what the lines of the order may be afterwards
           after == IF appended = {} THEN {now}
                    ELSE {known \o tail} \cup (IF now # known THEN {now \o known \o tail} ELSE {})
       IN  /\ fresh # {} => new <= MaxRaised
           /\ \E lines \in after :
                 raised' = [raised EXCEPT ![1].lines = lines] \o
                           (IF fresh = {} THEN <<>> ELSE <<[status |-> "Open", lines |-> SetToSeq(fresh)]>>)
           /\ prLines' = written
           /\ prClosed' = IF \A l \in PrLines : written[l].processed THEN "order" ELSE "no"
           /\ reviewMarks' = reviewMarks
                \cup Flag(\E l \in (appended \cup fresh) \ before : prLines[l].processed, "twice")
                \cup Flag(prClosed # "no", "late")
                \cup Flag(appended # {} /\ now # known, "rewritten")
                \cup Flag(appended # {} /\ raised[1].status # "Open", "released")
    /\ Free(k)

(* The requisition is closed without an order ("late": it was closed by     *)
(* its orders since).                                                       *)
AskClose(k) ==
    /\ reviewer[k] = <<>> /\ prClosed = "no"
    /\ reviewer' = [reviewer EXCEPT ![k] = <<"close">>]
    /\ UNCHANGED <<prLines, prClosed, raised, reviewMarks>>

ClosePr(k) ==
    /\ Reviewing(k, "close")
    /\ prClosed' = "hand"
    /\ reviewMarks' = reviewMarks \cup Flag(prClosed # "no", "late")
    /\ Free(k)
    /\ UNCHANGED <<prLines, raised>>

(* The order is released, or reopened and given a line of its own.          *)
MoveOrder ==
    /\ \/ \E st \in {"Open", "Released"} \ {raised[1].status} : raised' = [raised EXCEPT ![1].status = st]
       \/ /\ raised[1].status = "Open" /\ Cardinality({i \in DOMAIN raised[1].lines : raised[1].lines[i] = 0}) < 2
          /\ raised' = [raised EXCEPT ![1].lines = Append(@, 0)]
    /\ UNCHANGED <<prLines, prClosed, reviewer, reviewMarks>>

ReviewNext ==
    \/ \E k \in Reviewers :
          \/ \E l \in PrLines, decision \in {"", "Order", "Append to Order"} : AskDecision(k, l, decision)
          \/ SetLineDecision(k) \/ ReadReview(k) \/ ReadTarget(k) \/ RefuseTarget(k) \/ ExecuteReview(k)
          \/ AskClose(k) \/ ClosePr(k)
    \/ MoveOrder

ReviewSpec == ReviewInit /\ [][ReviewNext]_reviewVars

----------------------------------------------------------------------------
OnOrder(o, l) == Cardinality({i \in DOMAIN raised[o].lines : raised[o].lines[i] = l})

(* Through decisions, executions, appended orders and closings: a line that *)
(* is processed stands once on the order it names and on no other, a line   *)
(* that is not stands on none, and the requisition counts as ordered        *)
(* exactly when every line is; unless two executions raised the same line   *)
(* or rewrote one order, or a write came after the closing.                 *)
ReviewSound ==
    reviewMarks = {} =>
        /\ \A l \in PrLines, o \in DOMAIN raised :
              OnOrder(o, l) = IF prLines[l].processed /\ prLines[l].order = o THEN 1 ELSE 0
        /\ prClosed = "order" <=> \A l \in PrLines : prLines[l].processed
=============================================================================
