------------------------------ MODULE NoSeries ------------------------------
(***************************************************************************)
(* One number series of lib/noSeries.ts: its date-effective lines, the     *)
(* draw of one number (getNextNo) or of a block (nextSequenceBatch) inside *)
(* the caller's transaction, and the administrator's line form.            *)
(*                                                                         *)
(* A number is the value of its last digit run; prefix, padding and suffix *)
(* are the same for every number of a line and are left out.               *)
(***************************************************************************)
EXTENDS Integers, FiniteSets

CONSTANTS
    Sessions,    \* sessions that draw numbers
    Lines,       \* no_series_line.line_no of its lines
    StartDate,   \* starting_date per line, 0 when blank
    First,       \* starting_no per line
    Ending,      \* ending_no per line at the start, NoEnding when blank
    NoEnding,
    Increment,   \* increment_by_no per line
    DateOrder,   \* no_series.date_order
    Dates,       \* document dates
    Batches,     \* how many numbers a caller asks for at a time
    MaxIssued    \* bound on numbers issued, for a line without Ending No.

Endings == Nat \cup {NoEnding}

ASSUME ConstantsAssumption ==
    /\ Lines \subseteq Nat /\ Lines # {}
    /\ StartDate \in [Lines -> Nat]
    /\ First \in [Lines -> Nat \ {0}]
    /\ NoEnding \notin Nat
    /\ Ending \in [Lines -> Endings]
    /\ Increment \in [Lines -> Nat \ {0}]
    /\ DateOrder \in BOOLEAN
    /\ Dates \subseteq Nat \ {0}
    /\ Batches \subseteq Nat \ {0}
    /\ MaxIssued \in Nat

NoSession == "none"
ASSUME NoSessionAssumption == NoSession \notin Sessions

VARIABLES
    line,    \* committed rows: last_no_used (0 = none), last_date_used, ending_no, open
    lock,    \* session holding the lines FOR UPDATE
    sess,    \* what each session is doing
    issued,  \* history: every number a committed transaction carries
    form,    \* the line form the administrator has on screen: none or one
    overwritten \* history: lines whose form was saved over draws made since it was opened

vars == <<line, lock, sess, issued, form, overwritten>>

RowType == [last : Nat, lastDate : Nat, ending : Endings, open : BOOLEAN]

SessionType ==
    [pc : {"idle", "ask", "drawn"}, date : Nat, count : Nat,
     row : RowType, line : Lines]

IssuedType == [no : Nat, line : Lines, date : Nat, tick : Nat]

FormType == [line : Lines, last : Nat]

TypeOK ==
    /\ line \in [Lines -> RowType]
    /\ lock \in Sessions \cup {NoSession}
    /\ sess \in [Sessions -> SessionType]
    /\ issued \subseteq IssuedType
    /\ form \subseteq FormType
    /\ overwritten \subseteq Lines

-----------------------------------------------------------------------------
Exceeds(n, ending) == ending # NoEnding /\ n > ending

\* applicableLine: of the open lines that have started, the one that started
\* last, the greater line number breaking a tie.
InScope(date) == {l \in Lines : line[l].open /\ StartDate[l] <= date}

Applicable(date) ==
    {l \in InScope(date) : \A m \in InScope(date) :
        \/ StartDate[m] < StartDate[l]
        \/ StartDate[m] = StartDate[l] /\ m <= l}

\* Last No. Used + Increment-by No., or Starting No. for the first one
NextNo(l) ==
    IF line[l].last = 0 THEN First[l] ELSE line[l].last + Increment[l]

LastOfBlock(l, n) == NextNo(l) + (n - 1) * Increment[l]

\* every refusal of computeNext and nextSequenceBatch once a line is found
CanDraw(l, date, n) ==
    /\ DateOrder => line[l].lastDate <= date
    /\ ~Exceeds(LastOfBlock(l, n), line[l].ending)

\* the bound on numbers issued, where the line itself sets none
WithinBound(n) == Cardinality(issued) + n <= MaxIssued

\* the row after the draw: stamped, and closed once its next number is past the end
Stamped(l, date, n) ==
    [line[l] EXCEPT !.last = LastOfBlock(l, n),
                    !.lastDate = date,
                    !.open = ~Exceeds(LastOfBlock(l, n) + Increment[l], line[l].ending)]

SomeLine == CHOOSE l \in Lines : TRUE
BlankRow == [last |-> 0, lastDate |-> 0, ending |-> NoEnding, open |-> TRUE]
Idle == [pc |-> "idle", date |-> 0, count |-> 0, row |-> BlankRow, line |-> SomeLine]

Init ==
    /\ line = [l \in Lines |-> [BlankRow EXCEPT !.ending = Ending[l]]]
    /\ lock = NoSession
    /\ sess = [s \in Sessions |-> Idle]
    /\ issued = {}
    /\ form = {}
    /\ overwritten = {}

-----------------------------------------------------------------------------
EndTransaction(s) ==
    /\ sess' = [sess EXCEPT ![s] = Idle]
    /\ lock' = IF lock = s THEN NoSession ELSE lock

Ask(s) ==
    /\ sess[s].pc = "idle"
    /\ \E d \in Dates, n \in Batches :
        sess' = [sess EXCEPT ![s] = [Idle EXCEPT !.pc = "ask", !.date = d, !.count = n]]
    /\ UNCHANGED <<line, lock, issued, form, overwritten>>

\* (first with defects: no FOR UPDATE; stamped outside the caller's transaction)
DrawUnlocked(s) ==
    /\ sess[s].pc = "ask"
    /\ \E l \in Applicable(sess[s].date) :
         /\ CanDraw(l, sess[s].date, sess[s].count)
         /\ WithinBound(sess[s].count)
         /\ sess' = [sess EXCEPT ![s] =
              [@ EXCEPT !.pc = "drawn", !.line = l,
                        !.row = Stamped(l, sess[s].date, sess[s].count)]]
    /\ UNCHANGED <<line, lock, issued, form, overwritten>>

DrawAutocommitted(s) ==
    /\ sess[s].pc = "ask"
    /\ lock = NoSession
    /\ \E l \in Applicable(sess[s].date) :
         /\ CanDraw(l, sess[s].date, sess[s].count)
         /\ WithinBound(sess[s].count)
         /\ line' = [line EXCEPT ![l] = Stamped(l, sess[s].date, sess[s].count)]
         /\ sess' = [sess EXCEPT ![s] =
              [@ EXCEPT !.pc = "drawn", !.line = l,
                        !.row = Stamped(l, sess[s].date, sess[s].count)]]
    /\ lock' = s
    /\ UNCHANGED <<issued, form, overwritten>>

\* SELECT ... FOR UPDATE of the lines, computeNext, UPDATE of the line found.
Draw(s) ==
    /\ sess[s].pc = "ask"
    /\ lock = NoSession
    /\ \/ \E l \in Applicable(sess[s].date) :
            /\ CanDraw(l, sess[s].date, sess[s].count)
            /\ WithinBound(sess[s].count)
            /\ sess' = [sess EXCEPT ![s] =
                 [@ EXCEPT !.pc = "drawn", !.line = l,
                           !.row = Stamped(l, sess[s].date, sess[s].count)]]
            /\ lock' = s
       \/ /\ \/ \A l \in Applicable(sess[s].date) :
                  ~CanDraw(l, sess[s].date, sess[s].count)
             \/ ~WithinBound(sess[s].count)
          /\ EndTransaction(s)
    /\ UNCHANGED <<line, issued, form, overwritten>>

\* The numbers of a drawn block.
Block(s) ==
    LET l == sess[s].line IN
    {sess[s].row.last - k * Increment[l] : k \in 0 .. sess[s].count - 1}

Tick == Cardinality(issued)

\* The document and the stamped line are committed together.
Commit(s) ==
    /\ sess[s].pc = "drawn"
    /\ line' = [line EXCEPT ![sess[s].line] = sess[s].row]
    /\ issued' = issued \cup
         {[no |-> n, line |-> sess[s].line, date |-> sess[s].date, tick |-> Tick] : n \in Block(s)}
    /\ EndTransaction(s)
    /\ UNCHANGED <<form, overwritten>>

\* The caller's transaction fails after the draw, or the connection drops.
Abort(s) ==
    /\ sess[s].pc # "idle"
    /\ EndTransaction(s)
    /\ UNCHANGED <<line, issued, form, overwritten>>

\* The administrator opens a line: the form shows its Last No. Used.
OpenForm(l) ==
    /\ form = {}
    /\ form' = {[line |-> l, last |-> line[l].last]}
    /\ UNCHANGED <<line, lock, sess, issued, overwritten>>

\* saveNoSeriesLine: every field of the form is written, Last No. Used among
\* them, and the line re-opens if there is room under the Ending No. given.
SaveForm ==
    /\ lock = NoSession
    /\ \E f \in form, e \in {Ending[l] : l \in Lines} :
        /\ ~Exceeds(First[f.line], e)
        /\ ~Exceeds(f.last, e)
        /\ line' = [line EXCEPT ![f.line] =
             [@ EXCEPT !.last = f.last, !.ending = e,
                       !.open = f.last = 0 \/ ~Exceeds(f.last + Increment[f.line], e)]]
    /\ form' = {}
    /\ overwritten' = overwritten \cup {f.line : f \in {g \in form : g.last # line[g.line].last}}
    /\ UNCHANGED <<lock, sess, issued>>

Next ==
    \/ \E s \in Sessions : Ask(s) \/ Draw(s) \/ Commit(s) \/ Abort(s)
    \/ \E l \in Lines : OpenForm(l)
    \/ SaveForm

Spec == Init /\ [][Next]_vars

-----------------------------------------------------------------------------
\* "two clerks can never be given the same number": no number of a line is on
\* two documents, whichever draws overlap, fail or are rolled back.
NeverTwice ==
    \A a, b \in issued : (a.line = b.line /\ a.no = b.no) => a = b

\* The only way to a number given twice is an administrator who saves a form opened
\* before a draw, and so puts Last No. Used back.
NeverTwiceUnlessOverwritten ==
    \A a, b \in issued :
        (a.line = b.line /\ a.no = b.no) => a = b \/ a.line \in overwritten

\* "The numbers are still contiguous": a line's numbers run from its Starting
\* No. in steps without a hole, because a draw and its document commit or
\* vanish together (a saved form can only put the line back, and leaves none either).
NoGaps ==
    \A l \in Lines :
        LET nos == {a.no : a \in {x \in issued : x.line = l}} IN
        nos = {First[l] + k * Increment[l] : k \in 0 .. Cardinality(nos) - 1}

\* "still stop at the line's Ending No.", the last one of a block included, also
\* while administrators move the end.
WithinRange ==
    \A a \in issued :
        \/ First[a.line] <= a.no /\ ~Exceeds(a.no, line[a.line].ending)
        \/ a.line \in overwritten

\* A series kept in date order never has a later number on an earlier date.
DatesInOrder ==
    DateOrder => \A a, b \in issued :
        (a.line = b.line /\ a.no < b.no) => a.date <= b.date \/ a.line \in overwritten

\* A line is open exactly while it has a next number, after every draw and
\* after every save of the administrator's form.
OpenIffRoom ==
    \A l \in Lines :
        line[l].open <=> (line[l].last = 0
                          \/ ~Exceeds(line[l].last + Increment[l], line[l].ending))

\* A line's row is sound: well typed, open exactly while it has a number left, and
\* what was taken from it lies between its ends.
LineSound == TypeOK /\ OpenIffRoom /\ WithinRange

\* Whatever draws overlap or fail and whatever forms are saved: the rows are sound, the
\* numbers leave no gap, they are in the order of their dates where that is asked for,
\* and none is given twice unless a stale form put the line back.
NumbersSound == LineSound /\ NoGaps /\ DatesInOrder /\ NeverTwiceUnlessOverwritten
=============================================================================
