---------------------------- MODULE FixedAsset ----------------------------
(* One fixed asset in one depreciation book: the roll-ups of the book, the  *)
(* FA ledger, the cost and accumulated-depreciation accounts, moved by FA   *)
(* journal lines (entered by hand, or drafted by Calculate Depreciation),   *)
(* by a purchase and by a sale.  The book is read without a lock; the       *)
(* roll-ups are written relative to what they are by then, the disposed     *)
(* flag and what a disposal reverses are what was read.                     *)
(*                                                                          *)
(* Not here: approval of a line (DocumentLife), maintenance lines, which    *)
(* leave the book value alone, gains and losses, dates outside the ranges.  *)
EXTENDS Integers, Sequences

CONSTANTS
    Keepers,        \* requests under way
    EnteredByHand,  \* posting types and days entered by hand
    Cost, Step,     \* amount of an acquisition, of any other line
    Salvage, Life,  \* salvage value; depreciable days of straight line
    FaMethods,      \* depreciation methods tried
    FinalRounding,
    Days,           \* posting dates; depreciation starts on day 0
    MaxDrafts       \* bound on the journal lines

Acquisition == "Acquisition Cost"
FaTypes == {Acquisition, "Depreciation", "Write-Down", "Appreciation", "Disposal"}

ASSUME AssetAssumption ==
    /\ Cost \in Nat \ {0} /\ Step \in Nat \ {0} /\ Life \in Nat \ {0}
    /\ Salvage \in Nat /\ FinalRounding \in Nat
    /\ Days \subseteq Nat /\ EnteredByHand \subseteq FaTypes \X Nat

VARIABLES
    faMethod,   \* depreciation_method
    book,       \* roll-ups: cost, accum, down, up, value; disposed; last date
    faGl,       \* balances of the cost and the accumulated-depreciation account
    faLedger,   \* sum of fa_ledger_entry.amount
    drafts,     \* fa_journal_line
    faDesk,     \* what each request has read
    faMarks     \* "manual", "stale", "twice", "changed", "revived": see PostFa

faVars == <<faMethod, book, faGl, faLedger, drafts, faDesk, faMarks>>

FaRound(n, d) == (2 * n + d) \div (2 * d)
Least(a, b) == IF a < b THEN a ELSE b
NoBook == [cost |-> 0, accum |-> 0, down |-> 0, up |-> 0, value |-> 0, disposed |-> FALSE, last |-> 0]

FaInit ==
    /\ faMethod \in FaMethods
    /\ book = NoBook /\ faGl = [cost |-> 0, accum |-> 0] /\ faLedger = 0
    /\ drafts = <<>>
    /\ faDesk = [k \in Keepers |-> <<>>]
    /\ faMarks = {}

(* What depreciation is due on a book up to a day                           *)
(* (first with a defect: the salvage value is only part of the basis).      *)
DueBelow(b, day) ==
    LET days == day - b.last
        basis == b.cost + b.down + b.up - Salvage
    IN  IF b.disposed \/ days <= 0 \/ basis <= 0 THEN 0 ELSE FaRound(basis * days, Life)

PeriodAmount(straight, declining) ==
    CASE faMethod = "Straight-Line" -> straight
      [] faMethod = "Declining-Balance 1" -> declining
      [] OTHER -> IF straight > declining THEN straight ELSE declining

Due(b, day) ==
    LET days == day - b.last
        basis == b.cost + b.down + b.up - Salvage
        room == b.value - Salvage
        amount == Least(PeriodAmount(FaRound(basis * days, Life), FaRound(room * days, 2)), room)
    IN  IF b.disposed \/ days <= 0 \/ basis <= 0 \/ room <= 0 THEN 0
        ELSE IF FinalRounding > 0 /\ room - amount <= FinalRounding THEN room ELSE amount

Draft(type, amount, day, of) ==
    [type |-> type, amount |-> amount, day |-> day, of |-> of, posted |-> FALSE]

(* A line is entered by hand: not on a disposed book, and an acquisition    *)
(* first.                                                                   *)
EnterLine(type, day) ==
    /\ Len(drafts) < MaxDrafts
    /\ ~book.disposed /\ (type = Acquisition \/ book.cost > 0)
    /\ drafts' = Append(drafts, Draft(type, IF type = Acquisition THEN Cost ELSE Step, day, <<>>))
    /\ UNCHANGED <<faMethod, book, faGl, faLedger, faDesk, faMarks>>

(* Calculate Depreciation reads the books, then looks for a line of the     *)
(* day, then drafts.                                                        *)
Calculate(k, day) ==
    /\ faDesk[k] = <<>> /\ ~book.disposed
    /\ faDesk' = [faDesk EXCEPT ![k] = <<"look", day, book>>]
    /\ UNCHANGED <<faMethod, book, faGl, faLedger, drafts, faMarks>>

LookForLine(k) ==
    /\ faDesk[k] # <<>> /\ faDesk[k][1] = "look"
    /\ LET day == faDesk[k][2]
           found == \E i \in DOMAIN drafts :
                       drafts[i].type = "Depreciation" /\ ~drafts[i].posted /\ drafts[i].day = day
       IN  faDesk' = [faDesk EXCEPT ![k] =
               IF found \/ Due(@[3], day) = 0 THEN <<>> ELSE <<"draft", day, @[3]>>]
    /\ UNCHANGED <<faMethod, book, faGl, faLedger, drafts, faMarks>>

DraftLine(k) ==
    /\ faDesk[k] # <<>> /\ faDesk[k][1] = "draft" /\ Len(drafts) < MaxDrafts
    /\ LET day == faDesk[k][2]
           of == faDesk[k][3]
       IN  drafts' = Append(drafts, Draft("Depreciation", Due(of, day), day, <<of>>))
    /\ faDesk' = [faDesk EXCEPT ![k] = <<>>]
    /\ UNCHANGED <<faMethod, book, faGl, faLedger, faMarks>>

(* A posting reads line and book: the i-th line, or a document's, whose     *)
(* disposals and acquisitions are the journal's but for their own checks.   *)
BeginLine(k, i) ==
    /\ faDesk[k] = <<>> /\ ~drafts[i].posted
    /\ ~book.disposed /\ (drafts[i].type = Acquisition \/ book.cost > 0)
    /\ faDesk' = [faDesk EXCEPT ![k] = <<"post", i, drafts[i], book>>]
    /\ UNCHANGED <<faMethod, book, faGl, faLedger, drafts, faMarks>>

BeginDocument(k, type) ==
    /\ faDesk[k] = <<>> /\ ~book.disposed
    /\ IF type = "Disposal" THEN book.cost > 0 ELSE book.cost = 0
    /\ faDesk' = [faDesk EXCEPT ![k] = <<"post", 0, Draft(type, Cost, 0, <<>>), book>>]
    /\ UNCHANGED <<faMethod, book, faGl, faLedger, drafts, faMarks>>

(* What a posting adds to the roll-ups.                                     *)
FaDelta(type, a, b) ==
    CASE type = Acquisition -> [NoBook EXCEPT !.cost = a, !.value = a]
      [] type = "Depreciation" -> [NoBook EXCEPT !.accum = -a, !.value = -a]
      [] type = "Write-Down" -> [NoBook EXCEPT !.down = -a, !.value = -a]
      [] type = "Appreciation" -> [NoBook EXCEPT !.up = a, !.value = a]
      [] OTHER -> [NoBook EXCEPT !.cost = -b.cost, !.accum = -b.accum, !.down = -b.down,
                               !.up = -b.up, !.value = -b.value]

(* The posting writes: a line's journal is keyed to the line, so the        *)
(* accounts move once; roll-ups, ledger and flag are written in any case    *)
(* ("twice": the line was posted by then; "changed": a disposal reverses    *)
(* what the book no longer is; "revived": a line on a book disposed of by   *)
(* then; "stale": a drafted line on a book no longer as calculated;         *)
(* "manual": depreciation entered by hand).                                 *)
PostFa(k) ==
    /\ faDesk[k] # <<>> /\ faDesk[k][1] = "post"
    /\ LET i == faDesk[k][2]
           l == faDesk[k][3]
           read == faDesk[k][4]
           d == FaDelta(l.type, l.amount, read)
           disposal == l.type = "Disposal"
           twice == i # 0 /\ drafts[i].posted
       IN  /\ book' = [cost |-> book.cost + d.cost, accum |-> book.accum + d.accum,
                       down |-> book.down + d.down, up |-> book.up + d.up,
                       value |-> IF i = 0 /\ disposal THEN 0 ELSE book.value + d.value,
                       disposed |-> IF i = 0 THEN disposal \/ book.disposed ELSE disposal,
                       last |-> IF l.type = "Depreciation" THEN l.day ELSE book.last]
           /\ faGl' = IF twice THEN faGl
                      ELSE [cost |-> faGl.cost + d.cost + d.up, accum |-> faGl.accum + d.accum + d.down]
           /\ faLedger' = faLedger + d.value
           /\ drafts' = IF i = 0 THEN drafts ELSE [drafts EXCEPT ![i].posted = TRUE]
           /\ faMarks' = faMarks
                \cup (IF twice THEN {"twice"} ELSE {})
                \cup (IF disposal /\ [book EXCEPT !.last = 0] # [read EXCEPT !.last = 0]
                      THEN {"changed"} ELSE {})
                \cup (IF ~disposal /\ book.disposed THEN {"revived"} ELSE {})
                \cup (IF l.of # <<>> /\ l.of # <<book>> THEN {"stale"} ELSE {})
                \cup (IF l.of = <<>> /\ l.type = "Depreciation" THEN {"manual"} ELSE {})
    /\ faDesk' = [faDesk EXCEPT ![k] = <<>>]
    /\ UNCHANGED faMethod

(* The request is refused, or its connection ends.                          *)
GiveUp(k) ==
    /\ faDesk[k] # <<>>
    /\ faDesk' = [faDesk EXCEPT ![k] = <<>>]
    /\ UNCHANGED <<faMethod, book, faGl, faLedger, drafts, faMarks>>

FaNext ==
    \/ \E entry \in EnteredByHand : EnterLine(entry[1], entry[2])
    \/ \E k \in Keepers :
          \/ \E day \in Days : Calculate(k, day)
          \/ \E i \in DOMAIN drafts : BeginLine(k, i)
          \/ \E type \in {"Disposal", Acquisition} : BeginDocument(k, type)
          \/ LookForLine(k) \/ DraftLine(k) \/ PostFa(k) \/ GiveUp(k)

FaSpec == FaInit /\ [][FaNext]_faVars

----------------------------------------------------------------------------
(* The roll-ups, the FA ledger and the two accounts tell the same story     *)
(* however postings interleave, and a disposed asset is worth nothing,      *)
(* except where a line was posted twice, a disposal reversed an older book, *)
(* or a line was posted on a book disposed of meanwhile.                    *)
BookAgrees ==
    faMarks \cap {"twice", "changed", "revived"} = {} =>
        /\ book.value = faLedger
        /\ book.value = book.cost + book.accum + book.down + book.up
        /\ faGl = [cost |-> book.cost + book.up, accum |-> book.accum + book.down]
        /\ book.disposed => book.value = 0 /\ book.cost = 0

(* Calculated depreciation never takes the asset below its salvage value    *)
(* (one worth less to begin with is not depreciated at all) and never       *)
(* passes the straight line (but for rounding), as long as each             *)
(* line is posted on the book it was calculated of: two drafts of two days, *)
(* or a line entered by hand, count the same days twice.                    *)
DepreciationSound ==
    faMarks = {} /\ book.down = 0 /\ ~book.disposed /\ book.cost > 0 =>
        /\ book.value >= Salvage \/ book.accum = 0
        /\ faMethod = "Straight-Line" /\ book.up = 0 /\ book.cost = Cost =>
              2 * Life * (-book.accum) <=
                  2 * (book.cost - Salvage) * book.last + Life * (Len(drafts) + 2 * FinalRounding)

AssetSound == BookAgrees /\ DepreciationSound
=============================================================================
