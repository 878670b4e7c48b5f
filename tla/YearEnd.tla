------------------------------ MODULE YearEnd -------------------------------
(* The end of a fiscal year: the year is closed once the next one exists,   *)
(* and then the income statement is: one journal takes the net change of    *)
(* every income and expense account to retained earnings, per dimension     *)
(* value if asked.  Postings into a closed year remain possible, and so is  *)
(* another closing, or the reversal of one (by the original's date, locked  *)
(* once: PostingEngine).  A closing reads the net changes and posts them in *)
(* one transaction that locks nothing it read.                              *)
(*                                                                          *)
(* Not here: whether a period takes postings (PostingEngine), retained      *)
(* earnings in one line or one per account (the same sum), warnings.        *)
EXTENDS Integers, Sequences, FiniteSets, FiniteSetsExt, Functions

CONSTANTS
    ResultAccounts,   \* income and expense accounts
    DimValues,        \* values of a global dimension, and "none"
    Accountants,      \* requests under way
    MaxYears, MaxPosted, MaxClosings   \* bounds

(* An entry without a dimension value has "none".                           *)
ASSUME YearAssumption ==
    /\ IsFiniteSet(ResultAccounts) /\ IsFiniteSet(DimValues) /\ "none" \in DimValues
    /\ MaxYears \in Nat \ {0}

VARIABLES
    years,          \* fiscal years created
    fiscallyClosed, \* those that are closed
    ordinary,       \* per year, account and dimension value: net posted otherwise
    closings,       \* closing journals: year, lines, reversed, and what they read
    retained,       \* retained earnings per dimension value
    accountant,     \* what each request has read
    closeMarks      \* "twice": a closing missed another

yearVars == <<years, fiscallyClosed, ordinary, closings, retained, accountant, closeMarks>>

Cells == ResultAccounts \X DimValues

YearInit ==
    /\ years = 1 /\ fiscallyClosed = {}
    /\ ordinary = [y \in 1 .. MaxYears |-> [c \in Cells |-> 0]]
    /\ closings = <<>>
    /\ retained = [d \in DimValues |-> 0]
    /\ accountant = [k \in Accountants |-> <<>>]
    /\ closeMarks = {}

Busy(k, op) == accountant[k] # <<>> /\ accountant[k][1] = op
ClosingsOf(y) == {i \in DOMAIN closings : closings[i].year = y}
Standing(y) == {i \in ClosingsOf(y) : ~closings[i].reversed}

(* The net change of an account and dimension value over the year (first    *)
(* with a defect: without the closing entries on its last day).             *)
NetOfOrdinary(y, c) == ordinary[y][c]
ClosedBy(w, c) == SumFunction([i \in w |-> closings[i].lines[c]])
NetChange(y, c) == ordinary[y][c] - ClosedBy(Standing(y), c)
NetOfAccount(y, a) == SumFunction([d \in DimValues |-> NetChange(y, <<a, d>>)])

(* What a closing would transfer: by dimension value, or in total under no  *)
(* dimension.                                                               *)
RowsToClose(y, byDimension) ==
    [c \in Cells |-> IF byDimension THEN NetChange(y, c)
                     ELSE IF c[2] = "none" THEN NetOfAccount(y, c[1]) ELSE 0]

RetainedLine(lines, d) == SumFunction([a \in ResultAccounts |-> lines[<<a, d>>]])

PostedInAll == SumFunction([p \in (1 .. MaxYears) \X Cells |-> ordinary[p[1]][p[2]]])

PostInto(y, c) ==
    /\ y <= years
    /\ PostedInAll < MaxPosted
    /\ ordinary' = [ordinary EXCEPT ![y][c] = @ + 1]
    /\ UNCHANGED <<years, fiscallyClosed, closings, retained, accountant, closeMarks>>

CreateFiscalYear ==
    /\ years < MaxYears
    /\ years' = years + 1
    /\ UNCHANGED <<fiscallyClosed, ordinary, closings, retained, accountant, closeMarks>>

(* The earliest year still open is closed, when the next one exists: read,  *)
(* then written.                                                            *)
AskCloseYear(k) ==
    /\ accountant[k] = <<>>
    /\ LET open == (1 .. years) \ fiscallyClosed
       IN  /\ open # {} /\ Min(open) < years
           /\ accountant' = [accountant EXCEPT ![k] = <<"year", Min(open)>>]
    /\ UNCHANGED <<years, fiscallyClosed, ordinary, closings, retained, closeMarks>>

CloseFiscalYear(k) ==
    /\ Busy(k, "year")
    /\ fiscallyClosed' = fiscallyClosed \cup {accountant[k][2]}
    /\ accountant' = [accountant EXCEPT ![k] = <<>>]
    /\ UNCHANGED <<years, ordinary, closings, retained, closeMarks>>

(* A closing of a closed year reads the net changes; there must be some.    *)
ReadNetChanges(k, y, byDimension) ==
    /\ accountant[k] = <<>> /\ y \in fiscallyClosed
    /\ \E c \in Cells : RowsToClose(y, byDimension)[c] # 0
    /\ accountant' = [accountant EXCEPT ![k] =
         <<"close", [year |-> y, lines |-> RowsToClose(y, byDimension), reversed |-> FALSE, byDimension |-> byDimension,
                     read |-> ordinary[y], standing |-> Standing(y)], Cardinality(ClosingsOf(y))>>]
    /\ UNCHANGED <<years, fiscallyClosed, ordinary, closings, retained, closeMarks>>

(* It posts them on the year's closing date, and the sums to retained       *)
(* earnings ("twice": another closing of the year was posted since).        *)
PostClosing(k) ==
    /\ Busy(k, "close") /\ Len(closings) < MaxClosings
    /\ LET closing == accountant[k][2]
       IN  /\ closings' = Append(closings, closing)
           /\ retained' = [d \in DimValues |-> retained[d] + RetainedLine(closing.lines, d)]
           /\ closeMarks' = IF Cardinality(ClosingsOf(closing.year)) # accountant[k][3] THEN closeMarks \cup {"twice"} ELSE closeMarks
    /\ accountant' = [accountant EXCEPT ![k] = <<>>]
    /\ UNCHANGED <<years, fiscallyClosed, ordinary>>

(* A closing is reversed once, on its own date, and itself a closing entry. *)
ReverseClosing(i) ==
    /\ ~closings[i].reversed
    /\ closings' = [closings EXCEPT ![i].reversed = TRUE]
    /\ retained' = [d \in DimValues |-> retained[d] - RetainedLine(closings[i].lines, d)]
    /\ UNCHANGED <<years, fiscallyClosed, ordinary, accountant, closeMarks>>

YearNext ==
    \/ \E y \in 1 .. MaxYears, c \in Cells : PostInto(y, c)
    \/ CreateFiscalYear
    \/ \E k \in Accountants :
          \/ AskCloseYear(k) \/ CloseFiscalYear(k) \/ PostClosing(k)
          \/ \E y \in 1 .. MaxYears, byDimension \in BOOLEAN : ReadNetChanges(k, y, byDimension)
    \/ \E i \in DOMAIN closings : ReverseClosing(i)

YearSpec == YearInit /\ [][YearNext]_yearVars

----------------------------------------------------------------------------
(* What should be left of a cell after the last closing of its year:        *)
(* postings since it read, and closings reversed since.                     *)
Since(last, y, c) ==
    ordinary[y][c] - closings[last].read[c]
    + ClosedBy((closings[last].standing \cup {last}) \ Standing(y), c)

(* However closings, late postings and reversals follow one another, by     *)
(* dimension or in total: a closing leaves in every income statement        *)
(* account just what was posted or given back since it looked, per          *)
(* dimension value if it closed by them, so that no result is transferred   *)
(* twice; an account never falls below zero; what is in retained earnings   *)
(* and what is left makes up what was posted; and years close in order.     *)
(* Unless a closing of a year missed another of the same year.              *)
YearEndSound ==
    /\ fiscallyClosed = 1 .. Cardinality(fiscallyClosed)
    /\ closings # <<>> /\ closeMarks = {} =>
          /\ \A y \in 1 .. years : ClosingsOf(y) # {} =>
                LET last == Max(ClosingsOf(y))
                IN  /\ closings[last].byDimension =>
                          \A c \in Cells : NetChange(y, c) = Since(last, y, c)
                    /\ \A a \in ResultAccounts :
                          /\ NetOfAccount(y, a) = SumFunction([d \in DimValues |-> Since(last, y, <<a, d>>)])
                          /\ NetOfAccount(y, a) >= 0
          /\ SumFunction(retained)
               + SumFunction([p \in (1 .. MaxYears) \X Cells |-> NetChange(p[1], p[2])])
             = PostedInAll
=============================================================================
