--------------------------- MODULE MoneyInProofs ---------------------------
(***************************************************************************)
(* Proofs about what customers owe and the two ways their money comes in.  *)
(*                                                                         *)
(* The ledger: no entry is settled beyond what it is of, its rows explain  *)
(* it and the balance on the card ties to the receivables account, for     *)
(* every customer, session and length of history.  CustInv is inductive:   *)
(* of every session it says what its loop holds in memory, of every entry  *)
(* what holds even when two applications crossed on it, of an undisturbed  *)
(* one that memory, table and detailed rows agree, and of the books that   *)
(* the three sums move together.                                           *)
(*                                                                         *)
(* Then a receipt that several tellers write, approve and post at once, and*)
(* a payment by M-Pesa that a callback, a query and an allocation may all  *)
(* try to credit.  What is undisturbed in the history variables is right;  *)
(* the inductive invariants say what each request knows of the rows it     *)
(* read.                                                                   *)
(***************************************************************************)
EXTENDS CustLedger, Receipts, Mpesa, SumTheorems, TLAPS
-----------------------------------------------------------------------------
(* CustLedger: the customer's entries, their detailed rows, the balance.    *)

\* What one detailed row says of an entry, and of the discounts.
Tells(row, e) == IF row.entry = e /\ row.type \in {"Initial Entry", "Application"} THEN row.amount ELSE 0
Gives(row) == IF row.type = "Payment Discount" THEN row.amount ELSE 0
ToldBy(listed, e) == SumFunction([i \in DOMAIN listed |-> Tells(listed[i], e)])
GivenBy(listed) == SumFunction([i \in DOMAIN listed |-> Gives(listed[i])])

LEMMA RowsAreSummed ==
    /\ \A e : Explained(e) = ToldBy(detail, e)
    /\ DiscountsGiven = GivenBy(detail)
BY DEF Explained, ToldBy, Tells, DiscountsGiven, GivenBy, Gives

\* A sequence adds up to one term more for one element more.
LEMMA SumLonger ==
    ASSUME NEW n \in Nat, NEW f, NEW g, DOMAIN f = 1 .. n, DOMAIN g = 1 .. n + 1,
           \A i \in 1 .. n : f[i] \in Int /\ g[i] = f[i], g[n + 1] \in Int
    PROVE  SumFunction(f) \in Int /\ SumFunction(g) = SumFunction(f) + g[n + 1]
<1>1. IsFiniteSet(1 .. n) /\ n + 1 \notin 1 .. n /\ 1 .. n + 1 = (1 .. n) \cup {n + 1}
  <2>1. IsFiniteSet(1 .. n)
    BY FS_Interval
  <2>2. n + 1 \notin 1 .. n /\ 1 .. n + 1 = (1 .. n) \cup {n + 1}
    OBVIOUS
  <2> QED
    BY <2>1, <2>2
<1>2. SumOver(g, 1 .. n + 1) = SumOver(g, 1 .. n) + g[n + 1]
  BY <1>1, SumWith
<1>3. SumOver(g, 1 .. n) = SumOver(f, 1 .. n) /\ SumOver(f, 1 .. n) \in Int
  BY <1>1, SumSame, SumIsInt
<1> QED
  BY <1>2, <1>3, SumOfFunction

\* A sum of which two terms changed.
TwoChange(S, x, y, f, g) ==
    /\ IsFiniteSet(S) /\ x \in S /\ y \in S /\ x # y
    /\ \A z \in S : f[z] \in Int /\ g[z] \in Int
    /\ \A z \in S : z # x /\ z # y => f[z] = g[z]

LEMMA SumChangedTwice ==
    ASSUME NEW S, NEW x, NEW y, NEW f, NEW g, TwoChange(S, x, y, f, g)
    PROVE  SumOver(f, S) \in Int /\ SumOver(g, S) = SumOver(f, S) + (g[x] - f[x]) + (g[y] - f[y])
<1>1. PICK h : h = [z \in S |-> IF z = x THEN g[x] ELSE f[z]]
  OBVIOUS
<1>2. /\ \A z \in S : h[z] \in Int
      /\ \A z \in S \ {x} : f[z] = h[z]
      /\ \A z \in S \ {y} : h[z] = g[z]
      /\ h[x] = g[x] /\ h[y] = f[y]
  BY <1>1 DEF TwoChange
<1>3. SumOver(h, S) = SumOver(f, S) + (h[x] - f[x])
  BY <1>2, SumChanged DEF TwoChange
<1>4. SumOver(g, S) = SumOver(h, S) + (g[y] - h[y])
  BY <1>2, SumChanged DEF TwoChange
<1>5. SumOver(f, S) \in Int /\ f[x] \in Int /\ g[x] \in Int /\ f[y] \in Int /\ g[y] \in Int
  BY SumIsInt DEF TwoChange
<1> QED
  BY <1>2, <1>3, <1>4, <1>5

LEMMA TermsAreInts ==
    ASSUME NEW row \in DetailType
    PROVE  Gives(row) \in Int /\ \A e : Tells(row, e) \in Int
<1>1. row.amount \in Int
  BY DEF DetailType
<1>2. ASSUME NEW e PROVE Tells(row, e) \in Int
  <2>1. CASE row.entry = e /\ row.type \in {"Initial Entry", "Application"}
    BY <1>1, <2>1 DEF Tells
  <2>2. CASE ~ (row.entry = e /\ row.type \in {"Initial Entry", "Application"})
    <3>1. Tells(row, e) = 0
      BY <2>2, Zenon DEF Tells
    <3> QED
      BY <3>1
  <2> QED
    BY <2>1, <2>2
<1>3. Gives(row) \in {row.amount, 0}
  BY Zenon DEF Gives
<1> QED
  BY <1>1, <1>2, <1>3

LEMMA RowAdded ==
    ASSUME NEW q \in Seq(DetailType), NEW row \in DetailType
    PROVE  /\ \A e : ToldBy(q, e) \in Int /\ ToldBy(Append(q, row), e) = ToldBy(q, e) + Tells(row, e)
           /\ GivenBy(q) \in Int /\ GivenBy(Append(q, row)) = GivenBy(q) + Gives(row)
<1>1. PICK n \in Nat : n = Len(q)
  OBVIOUS
<1>2. PICK w : w = Append(q, row)
  OBVIOUS
<1>3. DOMAIN q = 1 .. n /\ DOMAIN w = 1 .. n + 1 /\ w[n + 1] = row /\ \A i \in 1 .. n : w[i] = q[i] /\ q[i] \in DetailType
  BY <1>1, <1>2
<1>4. \A i \in 1 .. n : q[i] \in DetailType
  BY <1>3
<1>5. ASSUME NEW e PROVE ToldBy(q, e) \in Int /\ ToldBy(w, e) = ToldBy(q, e) + Tells(row, e)
  <2> DEFINE f == [i \in DOMAIN q |-> Tells(q[i], e)]
             g == [i \in DOMAIN w |-> Tells(w[i], e)]
  <2>1. DOMAIN f = 1 .. n /\ DOMAIN g = 1 .. n + 1
    BY <1>3
  <2>0. Tells(row, e) \in Int /\ \A i \in 1 .. n : Tells(q[i], e) \in Int
    BY <1>4, TermsAreInts
  <2>2. \A i \in 1 .. n : f[i] \in Int /\ g[i] = f[i]
    BY <1>3, <2>0
  <2>3. g[n + 1] = Tells(row, e) /\ g[n + 1] \in Int
    BY <1>3, <2>0
  <2>4. ToldBy(q, e) = SumFunction(f) /\ ToldBy(w, e) = SumFunction(g)
    BY DEF ToldBy
  <2> HIDE DEF f, g
  <2> QED
    BY <2>1, <2>2, <2>3, <2>4, SumLonger
<1>6. GivenBy(q) \in Int /\ GivenBy(w) = GivenBy(q) + Gives(row)
  <2> DEFINE f == [i \in DOMAIN q |-> Gives(q[i])]
             g == [i \in DOMAIN w |-> Gives(w[i])]
  <2>1. DOMAIN f = 1 .. n /\ DOMAIN g = 1 .. n + 1
    BY <1>3
  <2>0. Gives(row) \in Int /\ \A i \in 1 .. n : Gives(q[i]) \in Int
    BY <1>4, TermsAreInts
  <2>2. \A i \in 1 .. n : f[i] \in Int /\ g[i] = f[i]
    BY <1>3, <2>0
  <2>3. g[n + 1] = Gives(row) /\ g[n + 1] \in Int
    BY <1>3, <2>0
  <2>4. GivenBy(q) = SumFunction(f) /\ GivenBy(w) = SumFunction(g)
    BY DEF GivenBy
  <2> HIDE DEF f, g
  <2> QED
    BY <2>1, <2>2, <2>3, <2>4, SumLonger
<1> QED
  BY <1>2, <1>5, <1>6

\* An entry that has no row is told nothing.
LEMMA ToldNothing ==
    ASSUME NEW q \in Seq(DetailType), NEW e, \A i \in DOMAIN q : q[i].entry # e
    PROVE  ToldBy(q, e) = 0
<1> DEFINE f == [i \in DOMAIN q |-> Tells(q[i], e)]
<1>1. IsFiniteSet(DOMAIN q) /\ DOMAIN f = DOMAIN q
  BY FS_Interval
<1>2. \A i \in DOMAIN q : f[i] = 0
  BY DEF Tells
<1>3. ToldBy(q, e) = SumFunction(f)
  BY DEF ToldBy
<1> HIDE DEF f
<1> QED
  BY <1>1, <1>2, <1>3, SumOfZeros, SumOfFunction

\* The open entries are worth one entry more, or what two entries changed by.
Worth(x) == IF x.open THEN x.lcy ELSE 0

LEMMA OpenTotalIsSum == \A es : OpenTotal(es) = SumFunction([e \in DOMAIN es |-> Worth(es[e])])
BY DEF OpenTotal, Worth

LEMMA EntryAdded ==
    ASSUME NEW es \in Seq(EntryType), NEW x \in EntryType
    PROVE  OpenTotal(es) \in Int /\ OpenTotal(Append(es, x)) = OpenTotal(es) + Worth(x)
<1>1. PICK n \in Nat : n = Len(es)
  OBVIOUS
<1>2. PICK w : w = Append(es, x)
  OBVIOUS
<1>3. DOMAIN es = 1 .. n /\ DOMAIN w = 1 .. n + 1 /\ w[n + 1] = x /\ \A i \in 1 .. n : w[i] = es[i] /\ es[i] \in EntryType
  BY <1>1, <1>2
<1>4. \A i \in 1 .. n : es[i].lcy \in Int
  BY <1>3 DEF EntryType
<1> DEFINE f == [i \in DOMAIN es |-> Worth(es[i])]
           g == [i \in DOMAIN w |-> Worth(w[i])]
<1>5. DOMAIN f = 1 .. n /\ DOMAIN g = 1 .. n + 1
  BY <1>3
<1>6. \A i \in 1 .. n : f[i] \in Int /\ g[i] = f[i]
  BY <1>3, <1>4 DEF Worth
<1>7. g[n + 1] = Worth(x) /\ g[n + 1] \in Int
  BY <1>3 DEF Worth, EntryType
<1>8. OpenTotal(es) = SumFunction(f) /\ OpenTotal(w) = SumFunction(g)
  BY OpenTotalIsSum
<1>9. SumFunction(f) \in Int /\ SumFunction(g) = SumFunction(f) + g[n + 1]
  <2> HIDE DEF f, g
  <2> QED
    BY <1>5, <1>6, <1>7, SumLonger
<1> HIDE DEF f, g
<1> QED
  BY <1>2, <1>7, <1>8, <1>9

LEMMA EntriesChanged ==
    ASSUME NEW es \in Seq(EntryType), NEW ws \in Seq(EntryType), Len(ws) = Len(es),
           NEW x \in DOMAIN es, NEW y \in DOMAIN es, x # y,
           \A z \in DOMAIN es : z # x /\ z # y => ws[z] = es[z]
    PROVE  /\ OpenTotal(es) \in Int
           /\ OpenTotal(ws) = OpenTotal(es) + (Worth(ws[x]) - Worth(es[x])) + (Worth(ws[y]) - Worth(es[y]))
<1>1. DOMAIN ws = DOMAIN es /\ IsFiniteSet(DOMAIN es)
  BY FS_Interval
<1>2. \A z \in DOMAIN es : es[z].lcy \in Int /\ ws[z].lcy \in Int
  <2>1. \A z \in DOMAIN es : es[z] \in EntryType /\ ws[z] \in EntryType
    BY <1>1
  <2> QED
    BY <2>1 DEF EntryType
<1>f. PICK f : f = [i \in DOMAIN es |-> Worth(es[i])]
  OBVIOUS
<1>g. PICK g : g = [i \in DOMAIN ws |-> Worth(ws[i])]
  OBVIOUS
<1>3. /\ \A z \in DOMAIN es : f[z] \in Int /\ g[z] \in Int
      /\ \A z \in DOMAIN es : z # x /\ z # y => f[z] = g[z]
      /\ f[x] = Worth(es[x]) /\ f[y] = Worth(es[y]) /\ g[x] = Worth(ws[x]) /\ g[y] = Worth(ws[y])
      /\ DOMAIN f = DOMAIN es /\ DOMAIN g = DOMAIN es
  BY <1>1, <1>2, <1>f, <1>g DEF Worth
<1>4. OpenTotal(es) = SumFunction(f) /\ OpenTotal(ws) = SumFunction(g)
  BY <1>f, <1>g, OpenTotalIsSum
<1>5. PICK S : S = DOMAIN es
  OBVIOUS
<1>6. /\ IsFiniteSet(S) /\ x \in S /\ y \in S
      /\ \A z \in S : f[z] \in Int /\ g[z] \in Int
      /\ \A z \in S : z # x /\ z # y => f[z] = g[z]
  BY <1>1, <1>3, <1>5
<1>7. SumOver(f, S) \in Int /\ SumOver(g, S) = SumOver(f, S) + (g[x] - f[x]) + (g[y] - f[y])
  <2>1. TwoChange(S, x, y, f, g)
    BY <1>6 DEF TwoChange
  <2> QED
    BY <2>1, SumChangedTwice
<1>8. SumFunction(f) = SumOver(f, S) /\ SumFunction(g) = SumOver(g, S)
  BY <1>3, <1>5, SumOfFunction
<1> QED
  BY <1>3, <1>4, <1>7, <1>8

-----------------------------------------------------------------------------
Loop(s) == apply[s].pc = "loop"
Writes(s, e) == Loop(s) /\ apply[s].wrote /\ apply[s].entry = e
IsDiscount(row) == row.type = "Payment Discount"
Discounts(i, e) == IsDiscount(detail[i]) /\ detail[i].entry = e

\* An amount between nothing and a document's, and one nearer to nothing than another.
Within(d, m) == (d.amount > 0 => 0 <= m /\ m <= d.amount) /\ (d.amount < 0 => d.amount <= m /\ m <= 0)
Nearer(d, m, n) == (d.amount > 0 => m <= n) /\ (d.amount < 0 => n <= m)

EntrySound(e) ==
    /\ entry[e].doc \in customer.documents
    /\ Within(entry[e].doc, entry[e].remaining)
    /\ entry[e].open <=> entry[e].remaining # 0

\* What an application holds in memory was true of the entries once.
TargetSound(s, t) ==
    /\ Sign(t.id) # Sign(apply[s].entry)
    /\ Within(entry[t.id].doc, t.remaining)
    /\ t.open <=> t.remaining # 0
SessionSound(s) == Loop(s) =>
    /\ apply[s].entry \in Entries /\ Sign(apply[s].entry) \in customer.appliedFrom
    /\ Within(entry[apply[s].entry].doc, apply[s].remaining)
    /\ \A i \in DOMAIN apply[s].targets : TargetSound(s, apply[s].targets[i])
    /\ \A i, j \in DOMAIN apply[s].targets : apply[s].targets[i].id = apply[s].targets[j].id => i = j

\* It still is, of an entry no application was disturbed on: who holds it holds what is
\* written, but for the one that is applying it.
HeldAsWritten(e) ==
    /\ \A s \in Sessions : Loop(s) /\ apply[s].entry = e =>
          /\ Nearer(entry[e].doc, apply[s].remaining, entry[e].remaining)
          /\ ~ apply[s].wrote => apply[s].remaining = entry[e].remaining
    /\ \A s \in Sessions : Loop(s) =>
          \A i \in DOMAIN apply[s].targets : apply[s].targets[i].id = e => apply[s].targets[i] = Loaded(e)
    /\ \A s, o \in Sessions : Writes(s, e) /\ Writes(o, e) => s = o

\* Its rows tell what remains, on paper or in the memory of the one that applies it; its
\* worth is that at its own rate; and it was discounted at most once.
ToldRight(e) ==
    /\ \A s \in Sessions : Writes(s, e) => Explained(e) = apply[s].remaining
    /\ (\A s \in Sessions : ~ Writes(s, e)) => Explained(e) = entry[e].remaining
    /\ entry[e].lcy = Explained(e) * entry[e].doc.factor
DiscountedOnce(e) ==
    /\ \A i \in DOMAIN detail : Discounts(i, e) => entry[e].doc.amount > 0 /\ entry[e].remaining < entry[e].doc.amount
    /\ \A i, j \in DOMAIN detail : Discounts(i, e) /\ Discounts(j, e) => i = j
Clean(e) == HeldAsWritten(e) /\ ToldRight(e) /\ DiscountedOnce(e)

\* The books: no application makes money, the balance is rolled up, and the control
\* account follows on a customer of whom that can be said.
ExplainedTotal == SumFunction([e \in Entries |-> Explained(e)])
DocumentTotal == SumFunction([e \in Entries |-> entry[e].doc.amount])
ReversedTotal == SumFunction([e \in reversed |-> entry[e].doc.amount * entry[e].doc.factor])
NoneWrites == \A s \in Sessions : Loop(s) => ~ apply[s].wrote
BooksSound ==
    /\ ExplainedTotal = DocumentTotal + DiscountsGiven
    /\ disturbed = {} /\ NoneWrites => balance = OpenTotal(entry)
    /\ disturbed = {} /\ Straight(customer) => OpenTotal(entry) = control + ReversedTotal

CustInv ==
    /\ TypeOK
    /\ \A e \in Entries : EntrySound(e)
    /\ \A s \in Sessions : SessionSound(s)
    /\ \A e \in Entries \ disturbed : Clean(e)
    /\ BooksSound

LEMMA CustTyped ==
    ASSUME TypeOK
    PROVE  /\ \A e \in Entries : entry[e] \in EntryType /\ entry[e].doc \in DocumentType
           /\ \A i \in DOMAIN detail : detail[i] \in DetailType
           /\ \A s \in Sessions : apply[s] \in ApplyType /\ \A i \in DOMAIN apply[s].targets : apply[s].targets[i] \in LoadedType
<1>1. \A S : \A q \in Seq(S) : \A i \in DOMAIN q : q[i] \in S
  OBVIOUS
<1>2. \A e \in Entries : entry[e] \in EntryType
  BY <1>1 DEF TypeOK, Entries
<1>3. \A s \in Sessions : apply[s] \in ApplyType
  BY DEF TypeOK
<1>4. \A s \in Sessions : apply[s].targets \in Seq(LoadedType)
  BY <1>3 DEF ApplyType
<1>5. \A i \in DOMAIN detail : detail[i] \in DetailType
  BY <1>1 DEF TypeOK
<1>6. \A e \in Entries : entry[e].doc \in DocumentType
  BY <1>2 DEF EntryType
<1> QED
  BY <1>1, <1>2, <1>3, <1>4, <1>5, <1>6

LEMMA CustInitInv == Init => CustInv
<1> SUFFICES ASSUME Init PROVE CustInv
  OBVIOUS
<1>1. Entries = {} /\ DOMAIN detail = {} /\ reversed = {} /\ disturbed = {}
  BY DEF Init, Entries
<1>2. \A s \in Sessions : ~ Loop(s)
  BY DEF Init, Idle, Loop
<1>3. Idle \in ApplyType
  BY DEF Idle, ApplyType
<1>4. TypeOK
  <2>1. \A s \in Sessions : apply[s].targets = <<>>
    BY DEF Init, Idle
  <2>2. <<>> \in Seq(EntryType) /\ <<>> \in Seq(DetailType)
    OBVIOUS
  <2> QED
    BY <1>1, <1>3, <2>1, <2>2, ConstantsAssumption DEF Init, TypeOK, Entries
<1>5. \A f : DOMAIN f = {} => SumFunction(f) = 0
  BY SumOfNothing, SumOfFunction
<1>6. ExplainedTotal = 0 /\ DocumentTotal = 0 /\ ReversedTotal = 0 /\ DiscountsGiven = 0
  BY <1>1, <1>5 DEF ExplainedTotal, DocumentTotal, ReversedTotal, DiscountsGiven
<1>7. OpenTotal(entry) = 0
  BY <1>1, <1>5 DEF OpenTotal, Entries
<1>8. BooksSound
  BY <1>6, <1>7 DEF BooksSound, Init
<1> QED
  BY <1>1, <1>2, <1>4, <1>8 DEF CustInv, SessionSound

\* What another session holds is held elsewhere.
LEMMA HeldByOthers ==
    ASSUME NEW s \in Sessions, NEW o \in Sessions, o # s
    PROVE  /\ apply[o].entry \in HeldElsewhere(s)
           /\ \A i \in DOMAIN apply[o].targets : apply[o].targets[i].id \in HeldElsewhere(s)
<1>1. \A i \in DOMAIN apply[o].targets : apply[o].targets[i] \in Range(apply[o].targets)
  BY DEF Range
<1> QED
  BY <1>1 DEF HeldElsewhere

\* A session a step leaves alone stays sound, as no document ever changes.
DocumentsStand ==
    /\ customer' = customer
    /\ \A e \in Entries : e \in Entries' /\ entry'[e].doc = entry[e].doc

LEMMA SessionStands ==
    ASSUME TypeOK, NEW s \in Sessions, SessionSound(s), apply'[s] = apply[s], DocumentsStand
    PROVE  SessionSound(s)'
<1> SUFFICES ASSUME Loop(s)' PROVE SessionSound(s)'
  BY DEF SessionSound
<1>1. Loop(s) /\ apply[s].entry \in Entries
  BY DEF Loop, SessionSound
<1>2. \A e \in Entries : Sign(e)' = Sign(e)
  BY DEF Sign, DocumentsStand
<1>3. \A i \in DOMAIN apply[s].targets : apply[s].targets[i].id \in Entries
  BY DEF TypeOK, Entries
<1>4. ASSUME NEW t \in LoadedType, t.id \in Entries, TargetSound(s, t) PROVE TargetSound(s, t)'
  BY <1>1, <1>2, <1>4 DEF TargetSound, DocumentsStand
<1>5. \A i \in DOMAIN apply[s].targets : TargetSound(s, apply[s].targets[i])'
  <2> SUFFICES ASSUME NEW i \in DOMAIN apply[s].targets PROVE TargetSound(s, apply[s].targets[i])'
    OBVIOUS
  <2>1. PICK t : t = apply[s].targets[i]
    OBVIOUS
  <2>2. t \in LoadedType /\ t.id \in Entries /\ TargetSound(s, t)
    BY <1>1, <1>3, <2>1, CustTyped DEF SessionSound
  <2>3. t = apply'[s].targets[i]
    BY <2>1
  <2> QED
    BY <1>4, <2>2, <2>3
<1> QED
  BY <1>1, <1>2, <1>5 DEF SessionSound, DocumentsStand

\* An entry a step leaves alone.
StandsStill(e) ==
    /\ e \in Entries /\ entry'[e] = entry[e] /\ Explained(e)' = Explained(e)
    /\ \A i \in DOMAIN detail' : Discounts(i, e)' => i \in DOMAIN detail /\ Discounts(i, e)
    /\ \A s \in Sessions : Loop(s)' /\ apply'[s].entry = e =>
          \/ /\ Loop(s) /\ apply[s].entry = e
             /\ apply'[s].remaining = apply[s].remaining /\ apply'[s].wrote = apply[s].wrote
          \/ ~ apply'[s].wrote /\ apply'[s].remaining = entry[e].remaining
    /\ \A s \in Sessions : Writes(s, e) => Writes(s, e)'
    /\ \A s \in Sessions : Loop(s)' =>
          \A i \in DOMAIN apply'[s].targets : apply'[s].targets[i].id = e =>
              \/ apply'[s].targets[i] = Loaded(e)
              \/ Loop(s) /\ \E j \in DOMAIN apply[s].targets : apply[s].targets[j] = apply'[s].targets[i]

LEMMA CleanStands ==
    ASSUME TypeOK, NEW e, StandsStill(e), Clean(e)
    PROVE  Clean(e)'
<1>0. entry[e].remaining \in Int
  BY CustTyped DEF StandsStill, EntryType
<1>1. \A s \in Sessions : Writes(s, e)' <=> Writes(s, e)
  BY DEF StandsStill, Writes, Loop
<1>2. \A s \in Sessions : Writes(s, e)' => apply'[s].remaining = apply[s].remaining
  BY DEF StandsStill, Writes, Loop
<1>3. Loaded(e)' = Loaded(e)
  BY DEF StandsStill, Loaded
<1>4. HeldAsWritten(e)'
  <2>1. ASSUME NEW s \in Sessions, Loop(s)', apply'[s].entry = e
        PROVE  /\ Nearer(entry[e].doc, apply'[s].remaining, entry[e].remaining)
               /\ ~ apply'[s].wrote => apply'[s].remaining = entry[e].remaining
    BY <1>0, <2>1 DEF StandsStill, Clean, HeldAsWritten, Nearer
  <2>2. ASSUME NEW s \in Sessions, Loop(s)', NEW i \in DOMAIN apply'[s].targets, apply'[s].targets[i].id = e
        PROVE  apply'[s].targets[i] = Loaded(e)'
    BY <1>3, <2>2 DEF StandsStill, Clean, HeldAsWritten
  <2>3. \A s, o \in Sessions : Writes(s, e)' /\ Writes(o, e)' => s = o
    BY <1>1 DEF Clean, HeldAsWritten
  <2> QED
    BY <2>1, <2>2, <2>3 DEF HeldAsWritten, StandsStill
<1>5. ToldRight(e)'
  BY <1>1, <1>2 DEF StandsStill, Clean, ToldRight
<1>6. DiscountedOnce(e)'
  BY DEF StandsStill, Clean, DiscountedOnce
<1> QED
  BY <1>4, <1>5, <1>6 DEF Clean

\* A session goes on without writing: it loads entries, drops a target or gives up.
LEMMA QuietStep ==
    ASSUME CustInv, NEW s \in Sessions, NEW new \in ApplyType, apply' = [apply EXCEPT ![s] = new],
           UNCHANGED <<customer, entry, detail, control, balance, undone, reversed>>,
           disturbed \subseteq disturbed', disturbed' \subseteq Entries,
           \A i \in DOMAIN new.targets : new.targets[i].id \in Entries,
           SessionSound(s)',
           new.pc = "loop" =>
              \/ /\ Loop(s) /\ apply[s].entry = new.entry
                 /\ new.remaining = apply[s].remaining /\ new.wrote = apply[s].wrote
              \/ ~ new.wrote /\ new.remaining = entry[new.entry].remaining,
           \A e \in Entries : e \notin disturbed' /\ Writes(s, e) => new.pc = "loop" /\ new.wrote /\ new.entry = e,
           new.pc = "loop" => \A i \in DOMAIN new.targets :
              \/ new.targets[i] = Loaded(new.targets[i].id)
              \/ Loop(s) /\ \E j \in DOMAIN apply[s].targets : apply[s].targets[j] = new.targets[i]
    PROVE  CustInv'
<1>1. /\ apply \in [Sessions -> ApplyType] /\ apply'[s] = new /\ apply' \in [Sessions -> ApplyType]
      /\ \A o \in Sessions : o # s => apply'[o] = apply[o]
  BY DEF CustInv, TypeOK
<1>2. TypeOK'
  BY <1>1 DEF CustInv, TypeOK, Entries
<1>3. \A e \in Entries' : EntrySound(e)'
  BY DEF CustInv, EntrySound, Entries
<1>4. DocumentsStand
  BY DEF DocumentsStand, Entries
<1>5. \A o \in Sessions : SessionSound(o)'
  BY <1>1, <1>4, SessionStands DEF CustInv
<1>6. ASSUME NEW e \in Entries' \ disturbed' PROVE Clean(e)'
  <2>1. e \in Entries \ disturbed
    BY DEF Entries
  <2>2. Explained(e)' = Explained(e)
    BY DEF Explained
  <2>3. \A o \in Sessions : Loop(o)' /\ apply'[o].entry = e =>
          \/ /\ Loop(o) /\ apply[o].entry = e
             /\ apply'[o].remaining = apply[o].remaining /\ apply'[o].wrote = apply[o].wrote
          \/ ~ apply'[o].wrote /\ apply'[o].remaining = entry[e].remaining
    BY <1>1 DEF Loop
  <2>4. \A o \in Sessions : Writes(o, e) => Writes(o, e)'
    BY <1>1, <2>1 DEF Writes, Loop
  <2>5. \A o \in Sessions : Loop(o)' =>
          \A i \in DOMAIN apply'[o].targets : apply'[o].targets[i].id = e =>
              \/ apply'[o].targets[i] = Loaded(e)
              \/ Loop(o) /\ \E j \in DOMAIN apply[o].targets : apply[o].targets[j] = apply'[o].targets[i]
    BY <1>1 DEF Loop
  <2>6. StandsStill(e)
    BY <2>1, <2>2, <2>3, <2>4, <2>5 DEF StandsStill, Discounts
  <2> QED
    BY <2>1, <2>6, CleanStands DEF CustInv
<1>7. BooksSound'
  <2>1. /\ ExplainedTotal' = ExplainedTotal /\ DocumentTotal' = DocumentTotal /\ ReversedTotal' = ReversedTotal
        /\ DiscountsGiven' = DiscountsGiven
    BY DEF ExplainedTotal, DocumentTotal, ReversedTotal, DiscountsGiven, Entries, Explained
  <2>2. ASSUME disturbed' = {}, NoneWrites' PROVE NoneWrites
    <3>1. \A o \in Sessions : o # s => (Loop(o) => ~ apply[o].wrote)
      BY <1>1, <2>2 DEF NoneWrites, Loop
    <3>2. Loop(s) => ~ apply[s].wrote
      <4> SUFFICES ASSUME Loop(s), apply[s].wrote PROVE FALSE
        OBVIOUS
      <4>1. Writes(s, apply[s].entry) /\ apply[s].entry \in Entries
        BY DEF Writes, CustInv, SessionSound
      <4>2. new.pc = "loop" /\ new.wrote
        BY <2>2, <4>1
      <4> QED
        BY <1>1, <2>2, <4>2 DEF NoneWrites, Loop
    <3> QED
      BY <3>1, <3>2 DEF NoneWrites
  <2>3. BooksSound
    BY DEF CustInv
  <2> QED
    BY <2>1, <2>2, <2>3 DEF BooksSound
<1> QED
  BY <1>2, <1>3, <1>5, <1>6, <1>7 DEF CustInv

\* The signs and bounds of what an entry can be applied to.
LEMMA SignsAre ==
    ASSUME TypeOK
    PROVE  \A e \in Entries : /\ Sign(e) = 1 <=> entry[e].doc.amount > 0
                              /\ Sign(e) = -1 <=> entry[e].doc.amount < 0
                              /\ Sign(e) \in {1, -1} /\ entry[e].doc.amount \in Int
<1>1. \A e \in Entries : entry[e].doc.amount \in Int \ {0}
  BY CustTyped DEF DocumentType
<1> QED
  BY <1>1 DEF Sign

\* Entries of the other side, each of them once.
Distinct(e, ts) ==
    /\ \E n \in Nat : DOMAIN ts = 1 .. n
    /\ \A i \in DOMAIN ts : ts[i] \in Entries /\ Sign(ts[i]) # Sign(e)
    /\ \A i, j \in DOMAIN ts : ts[i] = ts[j] => i = j

LEMMA TargetsDistinct ==
    ASSUME TypeOK, NEW e \in Entries, NEW ts \in PickedTargets(e) \cup AutoTargets(e)
    PROVE  Distinct(e, ts)
<1>1. \A x \in Opposite(e) : x \in Entries /\ Sign(x) # Sign(e)
  BY DEF Opposite
<1>2. CASE ts \in AutoTargets(e)
  <2>1. PICK T : T = {x \in Opposite(e) : entry[x].open}
    OBVIOUS
  <2>2. ts \in [1 .. Cardinality(T) -> T] /\ \A i, j \in 1 .. Cardinality(T) : i # j => ts[i] # ts[j]
    BY <1>2, <2>1 DEF AutoTargets, SetToSeqs
  <2>3. Cardinality(T) \in Nat
    <3>1. IsFiniteSet(Entries)
      BY FS_Interval DEF Entries, TypeOK
    <3>2. T \subseteq Entries
      BY <1>1, <2>1
    <3> QED
      BY <3>1, <3>2, FS_Subset, FS_CardinalityType
  <2>4. PICK n \in Nat : n = Cardinality(T)
    BY <2>3
  <2> QED
    BY <1>1, <2>1, <2>2, <2>4 DEF Distinct
<1>3. ASSUME NEW x \in Opposite(e), ts = <<x>> PROVE Distinct(e, ts)
  BY <1>1, <1>3 DEF Distinct
<1>4. ASSUME NEW p \in Opposite(e) \X Opposite(e), p[1] # p[2], ts = <<p[1], p[2]>> PROVE Distinct(e, ts)
  BY <1>1, <1>4 DEF Distinct
<1> QED
  BY <1>2, <1>3, <1>4 DEF PickedTargets

LEMMA StartStepC ==
    ASSUME CustInv, NEW s \in Sessions, StartApply(s)
    PROVE  CustInv'
<1>e. PICK e \in Entries :
        /\ entry[e].open /\ entry[e].remaining # 0 /\ Sign(e) \in customer.appliedFrom
        /\ \E ts \in PickedTargets(e) \cup AutoTargets(e) :
            apply' = [apply EXCEPT ![s] =
              [pc |-> "loop", entry |-> e, remaining |-> entry[e].remaining,
               targets |-> [i \in DOMAIN ts |-> Loaded(ts[i])], wrote |-> FALSE]]
  BY DEF StartApply
<1>1. PICK ts \in PickedTargets(e) \cup AutoTargets(e) :
            apply' = [apply EXCEPT ![s] =
              [pc |-> "loop", entry |-> e, remaining |-> entry[e].remaining,
               targets |-> [i \in DOMAIN ts |-> Loaded(ts[i])], wrote |-> FALSE]]
  BY <1>e
<1>2. /\ apply[s].pc = "idle"
      /\ UNCHANGED <<customer, entry, detail, control, balance, undone, reversed, disturbed>>
  BY DEF StartApply
<1>3. Distinct(e, ts)
  BY <1>1, TargetsDistinct DEF CustInv
<1>4. PICK q : q = [i \in DOMAIN ts |-> Loaded(ts[i])]
  OBVIOUS
<1>5. \A x \in Entries : /\ Loaded(x) \in LoadedType /\ Loaded(x).id = x /\ Loaded(x).remaining = entry[x].remaining
                         /\ (Loaded(x).open <=> entry[x].open)
  <2>1. \A x \in Entries : entry[x] \in EntryType /\ x \in Nat
    BY CustTyped DEF CustInv, Entries, TypeOK
  <2> QED
    BY <2>1 DEF Loaded, LoadedType, EntryType
<1>6. /\ DOMAIN q = DOMAIN ts /\ \A i \in DOMAIN q : q[i] = Loaded(ts[i]) /\ ts[i] \in Entries /\ Sign(ts[i]) # Sign(e)
      /\ q \in Seq(LoadedType)
  <2>1. DOMAIN q = DOMAIN ts /\ \A i \in DOMAIN q : q[i] = Loaded(ts[i]) /\ ts[i] \in Entries /\ Sign(ts[i]) # Sign(e)
    BY <1>3, <1>4 DEF Distinct
  <2>2. PICK n \in Nat : DOMAIN ts = 1 .. n
    BY <1>3 DEF Distinct
  <2>3. q \in [1 .. n -> LoadedType]
    BY <1>4, <1>5, <2>1, <2>2
  <2>4. q \in Seq(LoadedType)
    BY <2>3
  <2> QED
    BY <2>1, <2>4
<1>7. PICK new : new = [pc |-> "loop", entry |-> e, remaining |-> entry[e].remaining, targets |-> q, wrote |-> FALSE]
  OBVIOUS
<1>8. /\ new \in ApplyType /\ new.pc = "loop" /\ new.entry = e /\ new.remaining = entry[e].remaining
      /\ new.targets = q /\ ~ new.wrote
  <2>1. entry[e] \in EntryType /\ e \in Nat
    BY CustTyped DEF CustInv, Entries, TypeOK
  <2> QED
    BY <1>6, <1>7, <2>1 DEF ApplyType, EntryType
<1>9. apply' = [apply EXCEPT ![s] = new]
  BY <1>1, <1>4, <1>7
<1>10. apply'[s] = new /\ apply \in [Sessions -> ApplyType]
  BY <1>9 DEF CustInv, TypeOK
<1>11. SessionSound(s)'
  <2>1. ASSUME NEW i \in DOMAIN q PROVE TargetSound(s, q[i])'
    <3>1. q[i].id = ts[i] /\ ts[i] \in Entries /\ Sign(ts[i]) # Sign(e) /\ q[i].remaining = entry[ts[i]].remaining
          /\ (q[i].open <=> entry[ts[i]].open) /\ EntrySound(ts[i])
      BY <1>5, <1>6 DEF CustInv
    <3>2. Sign(ts[i])' = Sign(ts[i]) /\ Sign(e)' = Sign(e)
      BY <1>2 DEF Sign
    <3> QED
      BY <1>2, <1>8, <1>10, <3>1, <3>2 DEF TargetSound, EntrySound
  <2>2. \A i, j \in DOMAIN q : q[i].id = q[j].id => i = j
    BY <1>3, <1>5, <1>6 DEF Distinct
  <2>3. e \in Entries' /\ Sign(e)' = Sign(e) /\ Within(entry[e].doc, entry[e].remaining)
    BY <1>2 DEF Entries, Sign, CustInv, EntrySound
  <2> QED
    BY <1>e, <1>2, <1>8, <1>10, <2>1, <2>2, <2>3 DEF SessionSound
<1>12. \A i \in DOMAIN new.targets : new.targets[i].id \in Entries /\ new.targets[i] = Loaded(new.targets[i].id)
  BY <1>5, <1>6, <1>8
<1>13. \A x \in Entries : ~ Writes(s, x)
  BY <1>2 DEF Writes, Loop
<1>14. disturbed \subseteq disturbed' /\ disturbed' \subseteq Entries
  BY <1>2 DEF CustInv, TypeOK, Entries
<1> QED
  BY <1>2, <1>8, <1>9, <1>11, <1>12, <1>13, <1>14, QuietStep

\* A closed target is passed over, or the application breaks off.
LEMMA SkipStep ==
    ASSUME CustInv, NEW s \in Sessions, Loop(s), apply[s].targets # <<>>,
           apply' = [apply EXCEPT ![s].targets = Tail(@)],
           UNCHANGED <<customer, entry, detail, control, balance, undone, reversed, disturbed>>
    PROVE  CustInv'
<1>1. apply \in [Sessions -> ApplyType] /\ apply[s] \in ApplyType /\ apply[s].targets \in Seq(LoadedType)
  BY DEF CustInv, TypeOK, ApplyType
<1>2. PICK q : q = Tail(apply[s].targets)
  OBVIOUS
<1>3. q \in Seq(LoadedType) /\ \A i \in DOMAIN q : i + 1 \in DOMAIN apply[s].targets /\ q[i] = apply[s].targets[i + 1] /\ i \in Nat
  BY <1>1, <1>2
<1>4. PICK new : new = [apply[s] EXCEPT !.targets = q]
  OBVIOUS
<1>5. /\ new \in ApplyType /\ new.pc = "loop" /\ new.entry = apply[s].entry /\ new.remaining = apply[s].remaining
      /\ new.targets = q /\ new.wrote = apply[s].wrote
  BY <1>1, <1>3, <1>4 DEF ApplyType, Loop
<1>6. apply' = [apply EXCEPT ![s] = new] /\ apply'[s] = new
  BY <1>1, <1>2, <1>4
<1>7. SessionSound(s) /\ apply[s].entry \in Entries
  BY DEF CustInv, SessionSound
<1>8. \A i \in DOMAIN q : q[i] \in LoadedType /\ q[i].id \in Entries /\ TargetSound(s, q[i])
  <2>1. \A i \in DOMAIN apply[s].targets : /\ apply[s].targets[i] \in LoadedType /\ apply[s].targets[i].id \in Entries
                                            /\ TargetSound(s, apply[s].targets[i])
    BY <1>7, CustTyped DEF CustInv, TypeOK, Entries, SessionSound
  <2> QED
    BY <1>3, <2>1
<1>9. SessionSound(s)'
  <2>1. \A i \in DOMAIN q : TargetSound(s, q[i])'
    <3> SUFFICES ASSUME NEW i \in DOMAIN q PROVE TargetSound(s, q[i])'
      OBVIOUS
    <3>1. Sign(q[i].id)' = Sign(q[i].id) /\ Sign(apply[s].entry)' = Sign(apply'[s].entry)
      BY DEF Sign
    <3> QED
      BY <1>5, <1>6, <1>8, <3>1 DEF TargetSound, Sign
  <2>2. \A i, j \in DOMAIN q : q[i].id = q[j].id => i = j
    BY <1>3, <1>7 DEF SessionSound
  <2>3. apply'[s].entry \in Entries' /\ Sign(apply[s].entry)' \in customer'.appliedFrom
    BY <1>5, <1>6, <1>7 DEF Entries, Sign, SessionSound
  <2> QED
    BY <1>5, <1>6, <1>7, <2>1, <2>2, <2>3 DEF SessionSound
<1>10. disturbed \subseteq disturbed' /\ disturbed' \subseteq Entries
  BY DEF CustInv, TypeOK, Entries
<1>11. \A i \in DOMAIN new.targets : new.targets[i].id \in Entries /\ \E j \in DOMAIN apply[s].targets : apply[s].targets[j] = new.targets[i]
  BY <1>3, <1>5, <1>8
<1>12. \A e \in Entries : Writes(s, e) => new.pc = "loop" /\ new.wrote /\ new.entry = e
  BY <1>5 DEF Writes
<1> QED
  BY <1>5, <1>6, <1>9, <1>10, <1>11, <1>12, QuietStep

LEMMA FailStep ==
    ASSUME CustInv, NEW s \in Sessions, FailApply(s)
    PROVE  CustInv'
<1>1. /\ Loop(s) /\ disturbed' = disturbed \cup {e \in {apply[s].entry} : apply[s].wrote}
      /\ apply' = [apply EXCEPT ![s] = Idle]
      /\ UNCHANGED <<customer, entry, detail, control, balance, undone, reversed>>
  BY DEF FailApply, Loop
<1>2. Idle \in ApplyType /\ Idle.pc = "idle" /\ DOMAIN Idle.targets = {}
  BY DEF Idle, ApplyType
<1>3. apply'[s] = Idle
  BY <1>1 DEF CustInv, TypeOK
<1>4. SessionSound(s)'
  BY <1>2, <1>3 DEF SessionSound, Loop
<1>5. apply[s].entry \in Entries
  BY <1>1 DEF CustInv, SessionSound
<1>6. disturbed \subseteq disturbed' /\ disturbed' \subseteq Entries
  BY <1>1, <1>5 DEF CustInv, TypeOK, Entries
<1>7. \A e \in Entries : e \notin disturbed' => ~ Writes(s, e)
  BY <1>1 DEF Writes
<1> QED
  BY <1>1, <1>2, <1>4, <1>6, <1>7, QuietStep

LEMMA EntriesFinite == TypeOK => IsFiniteSet(Entries)
<1> SUFFICES ASSUME TypeOK PROVE IsFiniteSet(Entries)
  OBVIOUS
<1>1. Len(entry) \in Nat /\ Entries = 1 .. Len(entry)
  BY DEF TypeOK, Entries
<1> QED
  BY <1>1, FS_Interval

LEMMA DocumentTotalIsInt == TypeOK => DocumentTotal \in Int
<1> SUFFICES ASSUME TypeOK PROVE DocumentTotal \in Int
  OBVIOUS
<1>1. \A e \in Entries : entry[e].doc.amount \in Int
  BY CustTyped DEF DocumentType
<1>2. PICK f : f = [e \in Entries |-> entry[e].doc.amount]
  OBVIOUS
<1>3. SumOver(f, Entries) \in Int
  BY <1>1, <1>2, EntriesFinite, SumIsInt
<1> QED
  BY <1>2, <1>3, SumOfFunction DEF DocumentTotal

LEMMA ReversedTotalIsInt == TypeOK => ReversedTotal \in Int
<1> SUFFICES ASSUME TypeOK PROVE ReversedTotal \in Int
  OBVIOUS
<1>1. \A e \in reversed : entry[e].doc.amount * entry[e].doc.factor \in Int
  <2>1. \A e \in Entries : entry[e].doc.amount \in Int /\ entry[e].doc.factor \in Int
    BY CustTyped DEF DocumentType
  <2> QED
    BY <2>1 DEF TypeOK, Entries
<1>2. IsFiniteSet(reversed)
  BY EntriesFinite, FS_Subset DEF TypeOK, Entries
<1>3. PICK f : f = [e \in reversed |-> entry[e].doc.amount * entry[e].doc.factor]
  OBVIOUS
<1>4. SumOver(f, reversed) \in Int
  BY <1>1, <1>2, <1>3, SumIsInt
<1> QED
  BY <1>3, <1>4, SumOfFunction DEF ReversedTotal

\* A reversal from the G/L moves the control account and nothing of the ledger.
LEMMA ReverseStep ==
    ASSUME CustInv, NEW x \in Entries, ReverseFromGL(x)
    PROVE  CustInv'
<1>1. /\ x \notin reversed /\ control' = control - entry[x].doc.amount * entry[x].doc.factor
      /\ reversed' = reversed \cup {x}
      /\ UNCHANGED <<customer, entry, detail, balance, apply, undone, disturbed>>
  BY DEF ReverseFromGL
<1>2. entry[x].doc.amount * entry[x].doc.factor \in Int
  <2>1. entry[x].doc \in DocumentType
    BY CustTyped DEF CustInv
  <2>2. entry[x].doc.amount \in Int /\ entry[x].doc.factor \in Int
    BY <2>1 DEF DocumentType
  <2> QED
    BY <2>2
<1>3. TypeOK'
  BY <1>1, <1>2 DEF CustInv, TypeOK, Entries
<1>4. \A e \in Entries' : EntrySound(e)'
  BY <1>1 DEF CustInv, EntrySound, Entries
<1>5. \A s \in Sessions : SessionSound(s)'
  <2>1. DocumentsStand
    BY <1>1 DEF DocumentsStand, Entries
  <2> QED
    BY <1>1, <2>1, SessionStands DEF CustInv
<1>6. ASSUME NEW e \in Entries' \ disturbed' PROVE Clean(e)'
  <2>1. e \in Entries \ disturbed
    BY <1>1 DEF Entries
  <2>2. Explained(e)' = Explained(e)
    BY <1>1 DEF Explained
  <2>0. \A i : Discounts(i, e)' <=> Discounts(i, e)
    BY <1>1, Zenon DEF Discounts
  <2>3. StandsStill(e)
    BY <1>1, <2>0, <2>1, <2>2 DEF StandsStill, Writes, Loop
  <2> QED
    BY <2>1, <2>3, CleanStands DEF CustInv
<1>7. ReversedTotal' = ReversedTotal + entry[x].doc.amount * entry[x].doc.factor
  <2>1. PICK f : f = [e \in reversed |-> entry[e].doc.amount * entry[e].doc.factor]
    OBVIOUS
  <2>2. PICK g : g = [e \in reversed \cup {x} |-> entry[e].doc.amount * entry[e].doc.factor]
    OBVIOUS
  <2>3. ReversedTotal = SumFunction(f) /\ ReversedTotal' = SumFunction(g)
    BY <1>1, <2>1, <2>2 DEF ReversedTotal
  <2>4. PICK R : R = reversed
    OBVIOUS
  <2>5. IsFiniteSet(R) /\ x \notin R
    <3>1. IsFiniteSet(DOMAIN entry)
      BY EntriesFinite DEF CustInv, Entries
    <3> QED
      BY <1>1, <2>4, <3>1, FS_Subset DEF CustInv, TypeOK
  <2>6. /\ \A e \in R \cup {x} : g[e] \in Int
        /\ \A e \in R : f[e] = g[e] /\ f[e] \in Int
        /\ g[x] = entry[x].doc.amount * entry[x].doc.factor
        /\ DOMAIN f = R /\ DOMAIN g = R \cup {x}
    <3>1. \A e \in R \cup {x} : entry[e].doc.amount \in Int /\ entry[e].doc.factor \in Int
      <4>1. \A e \in Entries : entry[e].doc.amount \in Int /\ entry[e].doc.factor \in Int
        BY CustTyped DEF CustInv, DocumentType
      <4> QED
        BY <2>4, <4>1 DEF CustInv, TypeOK, Entries
    <3> QED
      BY <2>1, <2>2, <2>4, <3>1
  <2>7. SumOver(g, R \cup {x}) = SumOver(g, R) + g[x]
    BY <2>5, <2>6, SumWith
  <2>8. SumOver(g, R) = SumOver(f, R) /\ SumOver(f, R) \in Int
    BY <2>5, <2>6, SumSame, SumIsInt
  <2> QED
    BY <2>3, <2>6, <2>7, <2>8, SumOfFunction
<1>8. BooksSound'
  <2>1. /\ ExplainedTotal' = ExplainedTotal /\ DocumentTotal' = DocumentTotal /\ DiscountsGiven' = DiscountsGiven
        /\ NoneWrites' = NoneWrites
    BY <1>1 DEF ExplainedTotal, DocumentTotal, DiscountsGiven, Entries, Explained, NoneWrites, Loop
  <2>2. control \in Int /\ ReversedTotal \in Int
    BY ReversedTotalIsInt DEF CustInv, TypeOK
  <2>3. BooksSound
    BY DEF CustInv
  <2> QED
    BY <1>1, <1>2, <1>7, <2>1, <2>2, <2>3 DEF BooksSound
<1> QED
  BY <1>3, <1>4, <1>5, <1>6, <1>8 DEF CustInv

\* The applying entry is written and the balance rolled up.
LEMMA FinishStep ==
    ASSUME CustInv, NEW s \in Sessions, FinishApply(s)
    PROVE  CustInv'
<1>1. PICK e : e = apply[s].entry
  OBVIOUS
<1>2. PICK left : left = apply[s].remaining
  OBVIOUS
<1>3. PICK new : new = [entry[e] EXCEPT !.remaining = left, !.lcy = IF left = 0 THEN 0 ELSE @, !.open = left # 0]
  OBVIOUS
<1>4. /\ Loop(s) /\ entry' = [entry EXCEPT ![e] = new] /\ balance' = OpenTotal(entry')
      /\ disturbed' = disturbed \cup ({e} \cap HeldElsewhere(s))
      /\ apply' = [apply EXCEPT ![s] = Idle]
      /\ UNCHANGED <<customer, detail, control, undone, reversed>>
  <2>1. new = WrittenBack(s)
    BY <1>1, <1>2, <1>3 DEF WrittenBack
  <2>3. entry' = [entry EXCEPT ![e] = new]
    BY <1>1, <2>1 DEF FinishApply
  <2> QED
    BY <1>1, <2>3 DEF FinishApply, Loop
<1>5. /\ e \in Entries /\ Within(entry[e].doc, left) /\ left \in Int /\ entry[e] \in EntryType
      /\ entry[e].doc \in DocumentType
  <2>1. e \in Entries /\ Within(entry[e].doc, left)
    BY <1>1, <1>2, <1>4 DEF CustInv, SessionSound
  <2>2. left \in Int
    BY <1>2, CustTyped DEF CustInv, ApplyType
  <2> QED
    BY <2>1, <2>2, CustTyped DEF CustInv
<1>6. /\ new \in EntryType /\ new.doc = entry[e].doc /\ new.remaining = left /\ (new.open <=> left # 0)
      /\ (left = 0 => new.lcy = 0) /\ (left # 0 => new.lcy = entry[e].lcy)
  <2>1. entry[e].lcy \in Int /\ entry[e].doc \in DocumentType
    BY <1>5 DEF EntryType
  <2>2. CASE left = 0
    BY <1>3, <1>5, <2>1, <2>2 DEF EntryType
  <2>3. CASE left # 0
    BY <1>3, <1>5, <2>1, <2>3 DEF EntryType
  <2> QED
    BY <2>2, <2>3
<1>7. /\ entry' \in Seq(EntryType) /\ DOMAIN entry' = DOMAIN entry /\ entry'[e] = new
      /\ \A x \in Entries : x # e => entry'[x] = entry[x]
  BY <1>4, <1>5, <1>6 DEF CustInv, TypeOK, Entries
<1>8. /\ Idle \in ApplyType /\ Idle.pc = "idle" /\ DOMAIN Idle.targets = {} /\ apply'[s] = Idle
      /\ apply' \in [Sessions -> ApplyType] /\ \A o \in Sessions : o # s => apply'[o] = apply[o]
  <2>1. Idle \in ApplyType /\ Idle.pc = "idle" /\ DOMAIN Idle.targets = {}
    BY DEF Idle, ApplyType
  <2> QED
    BY <1>4, <2>1 DEF CustInv, TypeOK
<1>9. OpenTotal(entry') \in Int
  <2>1. \A es \in Seq(EntryType), x \in EntryType : OpenTotal(es) \in Int
    BY EntryAdded
  <2> QED
    BY <1>6, <1>7, <2>1
<1>10. TypeOK'
  BY <1>4, <1>5, <1>7, <1>8, <1>9 DEF CustInv, TypeOK, Entries
<1>11. \A x \in Entries' : EntrySound(x)'
  <2>1. \A x \in Entries : x # e => EntrySound(x)'
    BY <1>4, <1>7 DEF CustInv, EntrySound
  <2>2. EntrySound(e)'
    BY <1>4, <1>5, <1>6, <1>7 DEF CustInv, EntrySound
  <2> QED
    BY <1>7, <2>1, <2>2 DEF Entries
<1>12. DocumentsStand
  BY <1>4, <1>6, <1>7 DEF DocumentsStand, Entries
<1>13. \A o \in Sessions : SessionSound(o)'
  <2>1. SessionSound(s)'
    BY <1>8 DEF SessionSound, Loop
  <2> QED
    BY <1>8, <1>12, <2>1, SessionStands DEF CustInv
<1>14. \A x \in Entries : Explained(x)' = Explained(x)
  BY <1>4 DEF Explained
<1>15. ASSUME NEW x \in Entries \ disturbed', x # e PROVE Clean(x)'
  <2>1. \A o \in Sessions : Loop(o)' => Loop(o) /\ apply'[o] = apply[o]
    BY <1>8 DEF Loop
  <2>2. \A o \in Sessions : Writes(o, x) => Writes(o, x)'
    BY <1>1, <1>8, <1>15 DEF Writes, Loop
  <2>0. \A i : Discounts(i, x)' <=> Discounts(i, x)
    BY <1>4, Zenon DEF Discounts
  <2>3. StandsStill(x)
    BY <1>4, <1>7, <1>14, <1>15, <2>0, <2>1, <2>2 DEF StandsStill
  <2> QED
    BY <1>4, <1>15, <2>3, CleanStands DEF CustInv
<1>16. ASSUME e \notin disturbed PROVE Explained(e) = left \/ \E o \in Sessions : o # s /\ Writes(o, e)
  <2>1. Clean(e)
    BY <1>5, <1>16 DEF CustInv
  <2>2. CASE Writes(s, e)
    BY <1>2, <2>1, <2>2 DEF Clean, ToldRight
  <2>3. CASE (\A o \in Sessions : ~ Writes(o, e))
    <3>1. ~ apply[s].wrote
      BY <1>1, <1>4, <2>3 DEF Writes
    <3> QED
      BY <1>1, <1>2, <1>4, <2>1, <2>3, <3>1 DEF Clean, ToldRight, HeldAsWritten
  <2> QED
    BY <2>2, <2>3
<1>17. ASSUME e \notin disturbed' PROVE Clean(e)' /\ Explained(e) = left
  <2>1. e \notin disturbed /\ e \notin HeldElsewhere(s) /\ Clean(e)
    BY <1>4, <1>5, <1>17 DEF CustInv
  <2>2. \A o \in Sessions : o # s => apply[o].entry # e /\ \A i \in DOMAIN apply[o].targets : apply[o].targets[i].id # e
    BY <2>1, HeldByOthers
  <2>3. Explained(e) = left
    BY <1>16, <2>1, <2>2 DEF Writes
  <2>4. \A o \in Sessions : Loop(o)' => o # s /\ apply'[o] = apply[o]
    BY <1>8 DEF Loop
  <2>5. HeldAsWritten(e)'
    BY <2>2, <2>4 DEF HeldAsWritten, Writes
  <2>6. ToldRight(e)'
    <3>1. \A o \in Sessions : ~ Writes(o, e)'
      BY <2>2, <2>4 DEF Writes
    <3>2. Explained(e)' = left
      BY <1>5, <1>14, <2>3
    <3>3. new.lcy = left * entry[e].doc.factor
      <4>1. entry[e].lcy = left * entry[e].doc.factor
        BY <2>1, <2>3 DEF Clean, ToldRight
      <4>2. entry[e].doc.factor \in Int
        BY <1>5 DEF DocumentType
      <4> QED
        BY <1>5, <1>6, <4>1, <4>2
    <3> QED
      BY <1>6, <1>7, <3>1, <3>2, <3>3 DEF ToldRight
  <2>7. DiscountedOnce(e)'
    <3>1. Nearer(entry[e].doc, left, entry[e].remaining)
      BY <1>1, <1>2, <1>4, <2>1 DEF Clean, HeldAsWritten
    <3>2. entry[e].remaining \in Int /\ entry[e].doc.amount \in Int
      BY <1>5 DEF EntryType, DocumentType
    <3>3. \A i : Discounts(i, e)' <=> Discounts(i, e)
      BY <1>4 DEF Discounts
    <3> QED
      BY <1>4, <1>5, <1>6, <1>7, <2>1, <3>1, <3>2, <3>3 DEF Clean, DiscountedOnce, Nearer
  <2> QED
    BY <2>3, <2>5, <2>6, <2>7 DEF Clean
<1>18. BooksSound'
  <2>1. /\ ExplainedTotal' = ExplainedTotal /\ DiscountsGiven' = DiscountsGiven
    BY <1>4, <1>7, <1>14 DEF ExplainedTotal, DiscountsGiven, Entries, Explained
  <2>2. DocumentTotal' = DocumentTotal /\ ReversedTotal' = ReversedTotal
    <3>1. \A x \in Entries : entry'[x].doc = entry[x].doc
      BY <1>12 DEF DocumentsStand
    <3>2. Entries' = Entries /\ reversed' = reversed /\ reversed \subseteq Entries
      BY <1>4, <1>7 DEF Entries, CustInv, TypeOK
    <3> QED
      BY <3>1, <3>2, Zenon DEF DocumentTotal, ReversedTotal
  <2>3. ASSUME disturbed' = {} PROVE OpenTotal(entry') = OpenTotal(entry)
    <3>1. disturbed = {} /\ e \notin disturbed' /\ Clean(e) /\ EntrySound(e)
      BY <1>4, <1>5, <2>3 DEF CustInv
    <3>2. entry[e].lcy = left * entry[e].doc.factor
      BY <1>17, <3>1 DEF Clean, ToldRight
    <3>3. Nearer(entry[e].doc, left, entry[e].remaining)
      BY <1>1, <1>2, <1>4, <3>1 DEF Clean, HeldAsWritten
    <3>4. entry[e].doc.amount \in Int /\ entry[e].doc.amount # 0 /\ entry[e].doc.factor \in Int
      BY <1>5 DEF DocumentType
    <3>5. entry[e].remaining = 0 => left = 0
      BY <1>5, <3>3, <3>4 DEF Nearer, Within
    <3>6. left = 0 => entry[e].lcy = 0
      BY <3>2, <3>4
    <3>7. Worth(new) = Worth(entry[e])
      <4>1. CASE left = 0
        <5>1. Worth(new) = 0
          BY <1>6, <4>1 DEF Worth
        <5>2. Worth(entry[e]) = 0
          BY <3>6, <4>1, Zenon DEF Worth
        <5> QED
          BY <5>1, <5>2
      <4>2. CASE left # 0
        BY <1>6, <3>1, <3>5, <4>2 DEF Worth, EntrySound
      <4> QED
        BY <4>1, <4>2
    <3>8. \A x \in DOMAIN entry : Worth(entry'[x]) = Worth(entry[x])
      BY <1>7, <3>7 DEF Entries
    <3> QED
      BY <1>7, <3>8, OpenTotalIsSum
  <2> QED
    BY <1>4, <2>1, <2>2, <2>3 DEF BooksSound, CustInv
<1> QED
  <2>1. \A x \in Entries' \ disturbed' : Clean(x)'
    BY <1>7, <1>15, <1>17 DEF Entries
  <2> QED
    BY <1>10, <1>11, <1>13, <1>18, <2>1 DEF CustInv

\* The rows a new entry and an application add, and what they tell.
Opening(e, m) == Row(e, "Initial Entry", m, 0)
Applying(e, m, t) == Row(e, "Application", m, t)
Discounting(e, m, t) == Row(e, "Payment Discount", m, t)

Moves(row, e, m) ==
    /\ row \in DetailType /\ row.entry = e /\ ~ IsDiscount(row) /\ Gives(row) = 0
    /\ Tells(row, e) = m /\ \A x : x # e => Tells(row, x) = 0
Grants(row, e, m) ==
    /\ row \in DetailType /\ row.entry = e /\ Gives(row) = m
    /\ \A x : Tells(row, x) = 0

LEMMA NewRows ==
    ASSUME NEW e \in Nat, NEW t \in Nat, NEW m \in Int
    PROVE  Moves(Opening(e, m), e, m) /\ Moves(Applying(e, m, t), e, m) /\ Grants(Discounting(e, m, t), e, m)
<1>1. \A k, u : Row(e, k, m, u).entry = e /\ Row(e, k, m, u).type = k /\ Row(e, k, m, u).amount = m
  BY Zenon DEF Row
<1>2. \A k \in {"Initial Entry", "Application", "Payment Discount"}, u \in Nat : Row(e, k, m, u) \in DetailType
  BY Zenon DEF Row, DetailType
<1>3. /\ "Initial Entry" # "Payment Discount" /\ "Application" # "Payment Discount"
      /\ "Payment Discount" \notin {"Initial Entry", "Application"}
  BY Zenon
<1>4. ASSUME NEW k \in {"Initial Entry", "Application"}, NEW u \in Nat PROVE Moves(Row(e, k, m, u), e, m)
  <2>1. PICK row : row = Row(e, k, m, u)
    BY Zenon
  <2>2. row.entry = e /\ row.type = k /\ row.amount = m /\ row \in DetailType
    BY <1>1, <1>2, <1>4, <2>1, Zenon
  <2>3. Tells(row, e) = m
    BY <1>4, <2>2, Zenon DEF Tells
  <2>4. \A x : x # e => Tells(row, x) = 0
    BY <2>2, Zenon DEF Tells
  <2>5. Gives(row) = 0 /\ ~ IsDiscount(row)
    BY <1>3, <1>4, <2>2, Zenon DEF Gives, IsDiscount
  <2> QED
    BY <2>1, <2>2, <2>3, <2>4, <2>5, Zenon DEF Moves
<1>5. Moves(Opening(e, m), e, m)
  <2>1. 0 \in Nat
    OBVIOUS
  <2> QED
    BY <1>4, <2>1, Zenon DEF Opening
<1>6. Moves(Applying(e, m, t), e, m)
  BY <1>4, Zenon DEF Applying
<1>7. Grants(Discounting(e, m, t), e, m)
  <2>1. PICK row : row = Discounting(e, m, t)
    OBVIOUS
  <2>2. row.entry = e /\ row.type = "Payment Discount" /\ row.amount = m /\ row \in DetailType
    BY <1>1, <1>2, <2>1, Zenon DEF Discounting
  <2>3. Gives(row) = m
    BY <2>2, Zenon DEF Gives
  <2>4. \A x : Tells(row, x) = 0
    BY <1>3, <2>2, Zenon DEF Tells
  <2> QED
    BY <2>1, <2>2, <2>3, <2>4, Zenon DEF Grants
<1> QED
  BY <1>5, <1>6, <1>7

\* A document is posted.
LEMMA CreateStepC ==
    ASSUME CustInv, CreateEntry
    PROVE  CustInv'
<1>1. PICK d \in customer.documents :
        /\ entry' = Append(entry, [doc |-> d, remaining |-> d.amount,
                                   lcy |-> d.amount * d.factor, open |-> TRUE])
        /\ detail' = Append(detail, Opening(Len(entry) + 1, d.amount))
        /\ control' = control + d.amount * d.factor
  BY Zenon DEF CreateEntry, Opening
<1>2. balance' = OpenTotal(entry') /\ UNCHANGED <<customer, apply, undone, reversed, disturbed>>
  BY Zenon DEF CreateEntry
<1>3. PICK n \in Nat : n = Len(entry)
  BY DEF CustInv, TypeOK
<1>4. PICK new : new = [doc |-> d, remaining |-> d.amount, lcy |-> d.amount * d.factor, open |-> TRUE]
  OBVIOUS
<1>5. PICK row : row = Opening(n + 1, d.amount)
  OBVIOUS
<1>6. d \in DocumentType /\ d.amount \in Int /\ d.amount # 0 /\ d.factor \in Int /\ d.amount * d.factor \in Int
  <2>1. d \in DocumentType
    BY ConstantsAssumption DEF CustInv, TypeOK
  <2>2. d.amount \in Int /\ d.amount # 0 /\ d.factor \in Int
    BY <2>1 DEF DocumentType
  <2> QED
    BY <2>1, <2>2
<1>7. /\ new \in EntryType /\ new.doc = d /\ new.remaining = d.amount /\ new.lcy = d.amount * d.factor /\ new.open = TRUE
  BY <1>4, <1>6 DEF EntryType
<1>8. /\ entry' = Append(entry, new) /\ DOMAIN entry = 1 .. n /\ DOMAIN entry' = 1 .. n + 1 /\ n + 1 \notin 1 .. n
      /\ entry'[n + 1] = new /\ (\A x \in 1 .. n : entry'[x] = entry[x]) /\ entry' \in Seq(EntryType)
      /\ Entries = 1 .. n /\ Entries' = (1 .. n) \cup {n + 1}
  <2>1. entry' = Append(entry, new)
    BY <1>1, <1>4
  <2> QED
    BY <1>3, <1>7, <2>1 DEF CustInv, TypeOK, Entries
<1>9. /\ row \in DetailType /\ row.entry = n + 1 /\ ~ IsDiscount(row)
      /\ Tells(row, n + 1) = d.amount /\ Gives(row) = 0 /\ \A x : x # n + 1 => Tells(row, x) = 0
  <2>1. n + 1 \in Nat /\ 0 \in Nat
    OBVIOUS
  <2> QED
    BY <1>5, <1>6, <2>1, NewRows DEF Moves
<1>10. detail' = Append(detail, row) /\ detail \in Seq(DetailType)
  <2>1. detail' = Append(detail, row)
    BY <1>1, <1>3, <1>5, Zenon
  <2> QED
    BY <2>1 DEF CustInv, TypeOK
<1>11. /\ \A x : Explained(x) \in Int /\ Explained(x)' = Explained(x) + Tells(row, x)
       /\ DiscountsGiven \in Int /\ DiscountsGiven' = DiscountsGiven + Gives(row)
  <2>1. /\ \A x : Explained(x) = ToldBy(detail, x) /\ Explained(x)' = ToldBy(detail', x)
        /\ DiscountsGiven = GivenBy(detail) /\ DiscountsGiven' = GivenBy(detail')
    <3>1. \A x : Explained(x)' = ToldBy(detail', x)
      BY DEF Explained, ToldBy, Tells
    <3>2. DiscountsGiven' = GivenBy(detail')
      BY DEF DiscountsGiven, GivenBy, Gives
    <3> QED
      BY <3>1, <3>2, RowsAreSummed
  <2> QED
    BY <1>9, <1>10, <2>1, RowAdded
<1>12. Explained(n + 1)' = d.amount /\ \A x \in Entries : Explained(x)' = Explained(x)
  <2>1. \A i \in DOMAIN detail : detail[i].entry # n + 1
    BY <1>8 DEF CustInv, TypeOK
  <2>2. Explained(n + 1) = 0
    BY <1>10, <2>1, ToldNothing, RowsAreSummed
  <2>3. Explained(n + 1)' = Explained(n + 1) + d.amount
    BY <1>9, <1>11
  <2>4. \A x \in Entries : x # n + 1
    BY <1>8
  <2> QED
    BY <1>6, <1>9, <1>11, <2>2, <2>3, <2>4
<1>13. \A x \in Entries' : \A i \in DOMAIN detail' : Discounts(i, x)' => i \in DOMAIN detail /\ Discounts(i, x) /\ x \in Entries
  <2>1. PICK k \in Nat : k = Len(detail)
    BY <1>10
  <2>2. DOMAIN detail = 1 .. k /\ DOMAIN detail' = 1 .. k + 1 /\ detail'[k + 1] = row /\ \A i \in 1 .. k : detail'[i] = detail[i]
    BY <1>9, <1>10, <2>1
  <2>3. \A x : ~ Discounts(k + 1, x)'
    BY <1>9, <2>2, Zenon DEF Discounts
  <2>4. \A i \in 1 .. k + 1 : i # k + 1 => i \in 1 .. k
    BY <2>1
  <2>5. \A i \in 1 .. k : \A x : Discounts(i, x)' => Discounts(i, x)
    BY <2>2, Zenon DEF Discounts
  <2>6. \A i \in DOMAIN detail : \A x : Discounts(i, x) => x \in Entries
    BY Zenon DEF Discounts, CustInv, TypeOK, Entries
  <2> QED
    BY <2>2, <2>3, <2>4, <2>5, <2>6
<1>14. TypeOK'
  <2>1. \A es \in Seq(EntryType), x \in EntryType : OpenTotal(es) \in Int
    BY EntryAdded
  <2>2. balance' \in Int /\ control' \in Int
    <3>1. OpenTotal(entry') \in Int
      BY <1>7, <1>8, <2>1
    <3>2. control \in Int
      BY DEF CustInv, TypeOK
    <3> QED
      BY <1>1, <1>2, <1>6, <3>1, <3>2
  <2>3. detail' \in Seq(DetailType) /\ \A i \in DOMAIN detail' : detail'[i].entry \in DOMAIN entry'
    <3>1. \A i \in DOMAIN detail : detail[i].entry \in 1 .. n
      BY <1>8 DEF CustInv, TypeOK
    <3>2. \A x \in 1 .. n : x \in 1 .. n + 1
      OBVIOUS
    <3> QED
      BY <1>8, <1>9, <1>10, <3>1, <3>2
  <2>4. /\ \A s \in Sessions : \A i \in DOMAIN apply'[s].targets : apply'[s].targets[i].id \in DOMAIN entry'
        /\ reversed' \subseteq DOMAIN entry' /\ disturbed' \subseteq DOMAIN entry'
    BY <1>2, <1>8 DEF CustInv, TypeOK
  <2> QED
    BY <1>2, <1>8, <2>2, <2>3, <2>4 DEF CustInv, TypeOK
<1>15. \A x \in Entries' : EntrySound(x)'
  <2>1. \A x \in Entries : EntrySound(x)'
    BY <1>2, <1>8 DEF CustInv, EntrySound
  <2>2. EntrySound(n + 1)'
    BY <1>2, <1>6, <1>7, <1>8 DEF EntrySound, Within
  <2> QED
    BY <1>8, <2>1, <2>2
<1>16. DocumentsStand
  BY <1>2, <1>8 DEF DocumentsStand
<1>17. \A s \in Sessions : SessionSound(s)'
  BY <1>2, <1>16, SessionStands DEF CustInv
<1>18. ASSUME NEW x \in Entries \ disturbed PROVE Clean(x)'
  <2>1. StandsStill(x)
    BY <1>2, <1>8, <1>12, <1>13 DEF StandsStill, Writes, Loop
  <2> QED
    BY <2>1, CleanStands DEF CustInv
<1>19. Clean(n + 1)'
  <2>1. \A s \in Sessions : Loop(s)' => apply'[s].entry # n + 1 /\ \A i \in DOMAIN apply'[s].targets : apply'[s].targets[i].id # n + 1
    BY <1>2, <1>8 DEF CustInv, TypeOK, SessionSound, Loop, Entries
  <2>2. HeldAsWritten(n + 1)'
    BY <2>1 DEF HeldAsWritten, Writes
  <2>3. ToldRight(n + 1)'
    BY <1>7, <1>8, <1>12, <2>1 DEF ToldRight, Writes
  <2>4. DiscountedOnce(n + 1)'
    BY <1>8, <1>13 DEF DiscountedOnce
  <2> QED
    BY <2>2, <2>3, <2>4 DEF Clean
<1>20. BooksSound'
  <2>1. ExplainedTotal \in Int /\ ExplainedTotal' = ExplainedTotal + d.amount
    <3>1. PICK f : f = [x \in 1 .. n |-> Explained(x)]
      OBVIOUS
    <3>2. PICK g : g = [x \in Entries' |-> Explained(x)']
      OBVIOUS
    <3>3. /\ DOMAIN f = 1 .. n /\ DOMAIN g = 1 .. n + 1 /\ g[n + 1] = d.amount /\ g[n + 1] \in Int
          /\ \A i \in 1 .. n : f[i] \in Int /\ g[i] = f[i]
      <4>1. (1 .. n) \cup {n + 1} = 1 .. n + 1
        OBVIOUS
      <4> QED
        BY <1>6, <1>8, <1>11, <1>12, <3>1, <3>2, <4>1
    <3>4. SumFunction(f) \in Int /\ SumFunction(g) = SumFunction(f) + g[n + 1]
      BY <3>3, SumLonger
    <3> QED
      BY <1>8, <3>1, <3>2, <3>3, <3>4 DEF ExplainedTotal
  <2>2. DocumentTotal \in Int /\ DocumentTotal' = DocumentTotal + d.amount
    <3>1. PICK f : f = [x \in 1 .. n |-> entry[x].doc.amount]
      OBVIOUS
    <3>2. PICK g : g = [x \in Entries' |-> entry'[x].doc.amount]
      OBVIOUS
    <3>3. /\ DOMAIN f = 1 .. n /\ DOMAIN g = 1 .. n + 1 /\ g[n + 1] = d.amount /\ g[n + 1] \in Int
          /\ \A i \in 1 .. n : f[i] \in Int /\ g[i] = f[i]
      <4>1. (1 .. n) \cup {n + 1} = 1 .. n + 1
        OBVIOUS
      <4>2. \A i \in 1 .. n : entry[i].doc.amount \in Int
        BY <1>8, CustTyped DEF CustInv, DocumentType
      <4> QED
        BY <1>6, <1>7, <1>8, <3>1, <3>2, <4>1, <4>2
    <3>4. SumFunction(f) \in Int /\ SumFunction(g) = SumFunction(f) + g[n + 1]
      BY <3>3, SumLonger
    <3> QED
      BY <1>8, <3>1, <3>2, <3>3, <3>4 DEF DocumentTotal
  <2>3. OpenTotal(entry) \in Int /\ OpenTotal(entry') = OpenTotal(entry) + d.amount * d.factor
    <3>1. Worth(new) = d.amount * d.factor
      BY <1>7 DEF Worth
    <3>2. OpenTotal(entry) \in Int /\ OpenTotal(Append(entry, new)) = OpenTotal(entry) + Worth(new)
      BY <1>7, EntryAdded DEF CustInv, TypeOK
    <3> QED
      BY <1>8, <3>1, <3>2
  <2>4. ReversedTotal' = ReversedTotal
    <3>1. \A x \in reversed : entry'[x].doc = entry[x].doc
      BY <1>8 DEF CustInv, TypeOK
    <3>2. reversed' = reversed
      BY <1>2
    <3> QED
      BY <3>1, <3>2, Zenon DEF ReversedTotal
  <2>5. ReversedTotal \in Int
    BY ReversedTotalIsInt DEF CustInv
  <2>6. BooksSound /\ control \in Int
    BY DEF CustInv, TypeOK
  <2>7. ExplainedTotal' = DocumentTotal' + DiscountsGiven'
    BY <1>6, <1>9, <1>11, <2>1, <2>2, <2>6 DEF BooksSound
  <2>8. ASSUME disturbed' = {}, Straight(customer)' PROVE OpenTotal(entry)' = control' + ReversedTotal'
    <3>1. disturbed = {} /\ Straight(customer)
      BY <1>2, <2>8
    <3>2. OpenTotal(entry) = control + ReversedTotal
      BY <2>6, <3>1 DEF BooksSound
    <3> QED
      BY <1>1, <1>6, <2>3, <2>4, <2>5, <2>6, <3>2
  <2> QED
    BY <1>2, <2>7, <2>8 DEF BooksSound
<1> QED
  <2>1. \A x \in Entries' \ disturbed' : Clean(x)'
    BY <1>2, <1>8, <1>18, <1>19
  <2> QED
    BY <1>14, <1>15, <1>17, <1>20, <2>1 DEF CustInv

\* One pass of the loop adds a row to each of the two entries, and a third for a discount.
Passed(q, w, e, t, ma, mb, d, mc) ==
    /\ q \in Seq(DetailType) /\ d \in Nat /\ e # t /\ ma \in Int /\ mb \in Int /\ mc \in Int
    /\ \E ra, rb, rc :
        /\ Moves(ra, e, ma) /\ Moves(rb, t, mb) /\ Grants(rc, t, mc)
        /\ w = q \o (<<ra, rb>> \o (IF d = 0 THEN <<>> ELSE <<rc>>))

LEMMA AppendLast ==
    ASSUME NEW S, NEW q \in Seq(S), NEW x \in Seq(S), NEW c \in S
    PROVE  q \o Append(x, c) = Append(q \o x, c)
<1>1. PICK u : u = q \o Append(x, c)
  OBVIOUS
<1>2. PICK v : v = Append(q \o x, c)
  OBVIOUS
<1>3. u \in Seq(S) /\ v \in Seq(S) /\ Len(u) = Len(q) + Len(x) + 1 /\ Len(v) = Len(u)
  BY <1>1, <1>2
<1>4. \A i \in 1 .. Len(u) : u[i] = v[i]
  BY <1>1, <1>2, <1>3
<1>5. u = v
  BY <1>3, <1>4
<1> QED
  BY <1>1, <1>2, <1>5

LEMMA TwoAppended ==
    ASSUME NEW S, NEW q \in Seq(S), NEW a \in S, NEW b \in S
    PROVE  /\ q \o (<<a, b>> \o <<>>) = Append(Append(q, a), b)
           /\ \A c \in S : q \o (<<a, b>> \o <<c>>) = Append(Append(Append(q, a), b), c)
<1>1. <<a, b>> \in Seq(S) /\ q \o <<a, b>> = Append(Append(q, a), b)
  OBVIOUS
<1>2. \A x \in Seq(S) : x \o <<>> = x
  OBVIOUS
<1>3. ASSUME NEW c \in S PROVE q \o (<<a, b>> \o <<c>>) = Append(Append(Append(q, a), b), c)
  <2>1. <<a, b>> \o <<c>> = Append(<<a, b>>, c)
    OBVIOUS
  <2>2. q \o Append(<<a, b>>, c) = Append(q \o <<a, b>>, c)
    BY <1>1, AppendLast
  <2> QED
    BY <1>1, <2>1, <2>2, Zenon
<1> QED
  BY <1>1, <1>2, <1>3, Zenon

LEMMA AppendIs ==
    ASSUME NEW S, NEW q \in Seq(S), NEW a \in S, NEW n, n = Len(q), NEW w, w = Append(q, a)
    PROVE  n \in Nat /\ DOMAIN w = 1 .. n + 1 /\ w[n + 1] = a /\ \A i \in 1 .. n : w[i] = q[i]
OBVIOUS

LEMMA RowsPassed ==
    ASSUME NEW q, NEW w, NEW e, NEW t, NEW ma, NEW mb, NEW d, NEW mc, Passed(q, w, e, t, ma, mb, d, mc)
    PROVE  /\ w \in Seq(DetailType)
           /\ ToldBy(q, e) \in Int /\ ToldBy(w, e) = ToldBy(q, e) + ma
           /\ ToldBy(q, t) \in Int /\ ToldBy(w, t) = ToldBy(q, t) + mb
           /\ \A x : x # e /\ x # t => ToldBy(w, x) = ToldBy(q, x)
           /\ GivenBy(q) \in Int
           /\ (d = 0 => GivenBy(w) = GivenBy(q)) /\ (d # 0 => GivenBy(w) = GivenBy(q) + mc)
           /\ \A i \in DOMAIN w : \/ i \in DOMAIN q /\ w[i] = q[i]
                                  \/ w[i].entry \in {e, t}
           /\ \A i \in DOMAIN w : IsDiscount(w[i]) =>
                                  \/ i \in DOMAIN q /\ w[i] = q[i]
                                  \/ d # 0 /\ i = Len(q) + 3 /\ w[i].entry = t
<1>1. PICK ra, rb, rc : /\ Moves(ra, e, ma) /\ Moves(rb, t, mb) /\ Grants(rc, t, mc)
                        /\ w = q \o (<<ra, rb>> \o (IF d = 0 THEN <<>> ELSE <<rc>>))
  BY DEF Passed
<1>2. q \in Seq(DetailType) /\ d \in Nat /\ e # t /\ ma \in Int /\ mb \in Int /\ mc \in Int
  BY DEF Passed
<1>3. /\ ra \in DetailType /\ ra.entry = e /\ ~ IsDiscount(ra) /\ Gives(ra) = 0
      /\ Tells(ra, e) = ma /\ \A x : x # e => Tells(ra, x) = 0
  BY <1>1 DEF Moves
<1>4. /\ rb \in DetailType /\ rb.entry = t /\ ~ IsDiscount(rb) /\ Gives(rb) = 0
      /\ Tells(rb, t) = mb /\ \A x : x # t => Tells(rb, x) = 0
  BY <1>1 DEF Moves
<1>5. rc \in DetailType /\ rc.entry = t /\ Gives(rc) = mc /\ \A x : Tells(rc, x) = 0
  BY <1>1 DEF Grants
<1>6. PICK q1 : q1 = Append(q, ra)
  OBVIOUS
<1>7. PICK q2 : q2 = Append(q1, rb)
  OBVIOUS
<1>8. q1 \in Seq(DetailType) /\ q2 \in Seq(DetailType)
  BY <1>2, <1>3, <1>4, <1>6, <1>7
<1>9. (d = 0 => w = q2) /\ (d # 0 => w = Append(q2, rc))
  <2>1. q \in Seq(DetailType) /\ ra \in DetailType /\ rb \in DetailType /\ rc \in DetailType
    BY <1>2, <1>3, <1>4, <1>5
  <2>2. q \o (<<ra, rb>> \o <<>>) = q2 /\ q \o (<<ra, rb>> \o <<rc>>) = Append(q2, rc)
    BY <1>6, <1>7, <2>1, TwoAppended
  <2>3. (d = 0 => w = q \o (<<ra, rb>> \o <<>>)) /\ (d # 0 => w = q \o (<<ra, rb>> \o <<rc>>))
    BY <1>1, Zenon
  <2> QED
    BY <2>2, <2>3
<1>10. /\ \A x : ToldBy(q, x) \in Int /\ ToldBy(q1, x) = ToldBy(q, x) + Tells(ra, x)
       /\ GivenBy(q) \in Int /\ GivenBy(q1) = GivenBy(q) + Gives(ra)
  BY <1>2, <1>3, <1>6, RowAdded
<1>11. /\ \A x : ToldBy(q1, x) \in Int /\ ToldBy(q2, x) = ToldBy(q1, x) + Tells(rb, x)
       /\ GivenBy(q1) \in Int /\ GivenBy(q2) = GivenBy(q1) + Gives(rb)
  BY <1>4, <1>7, <1>8, RowAdded
<1>12. /\ \A x : ToldBy(q2, x) \in Int /\ ToldBy(Append(q2, rc), x) = ToldBy(q2, x) + Tells(rc, x)
       /\ GivenBy(q2) \in Int /\ GivenBy(Append(q2, rc)) = GivenBy(q2) + Gives(rc)
  BY <1>5, <1>8, RowAdded
<1>13. \A x : ToldBy(w, x) = ToldBy(q2, x)
  <2>1. CASE d = 0
    BY <1>9, <2>1
  <2>2. CASE d # 0
    <3>1. \A x : ToldBy(Append(q2, rc), x) = ToldBy(q2, x)
      BY <1>5, <1>12
    <3> QED
      BY <1>9, <2>2, <3>1, Zenon
  <2> QED
    BY <2>1, <2>2
<1>14. GivenBy(q2) = GivenBy(q)
  BY <1>3, <1>4, <1>10, <1>11
<1>15. (d = 0 => GivenBy(w) = GivenBy(q)) /\ (d # 0 => GivenBy(w) = GivenBy(q) + mc)
  BY <1>5, <1>9, <1>12, <1>14
<1>16. ToldBy(w, e) = ToldBy(q, e) + ma /\ ToldBy(w, t) = ToldBy(q, t) + mb
  BY <1>2, <1>3, <1>4, <1>10, <1>11, <1>13
<1>17. \A x : x # e /\ x # t => ToldBy(w, x) = ToldBy(q, x)
  BY <1>3, <1>4, <1>10, <1>11, <1>13
<1>18. PICK n \in Nat : n = Len(q)
  BY <1>2
<1>19. /\ DOMAIN q = 1 .. n /\ DOMAIN q2 = 1 .. n + 2 /\ q2[n + 1] = ra /\ q2[n + 2] = rb
       /\ \A i \in 1 .. n : q2[i] = q[i]
  <2>1. DOMAIN q = 1 .. n /\ DOMAIN q1 = 1 .. n + 1 /\ q1[n + 1] = ra /\ \A i \in 1 .. n : q1[i] = q[i]
    BY <1>2, <1>3, <1>6, <1>18
  <2>2. DOMAIN q2 = 1 .. (n + 1) + 1 /\ q2[(n + 1) + 1] = rb /\ \A i \in 1 .. n + 1 : q2[i] = q1[i]
    <3>1. Len(q1) = n + 1
      BY <1>2, <1>3, <1>6, <1>18
    <3> QED
      BY <1>4, <1>7, <1>8, <3>1
  <2> QED
    BY <2>1, <2>2
<1>20. \A i \in DOMAIN w : \/ i \in 1 .. n /\ w[i] = q[i]
                           \/ i = n + 1 /\ w[i] = ra
                           \/ i = n + 2 /\ w[i] = rb
                           \/ d # 0 /\ i = n + 3 /\ w[i] = rc
  <2>1. \A i \in 1 .. n + 2 : i \in 1 .. n \/ i = n + 1 \/ i = n + 2
    OBVIOUS
  <2>2. CASE d = 0
    BY <1>9, <1>19, <2>1, <2>2
  <2>3. CASE d # 0
    <3>1. DOMAIN w = 1 .. (n + 2) + 1 /\ w[(n + 2) + 1] = rc /\ \A i \in 1 .. n + 2 : w[i] = q2[i]
      <4>1. Len(q2) = n + 2
        BY <1>8, <1>18, <1>19
      <4>2. w = Append(q2, rc)
        BY <1>9, <2>3
      <4> QED
        BY <1>5, <1>8, <4>1, <4>2, AppendIs
    <3>2. \A i \in 1 .. (n + 2) + 1 : i \in 1 .. n + 2 \/ i = n + 3
      OBVIOUS
    <3>3. (n + 2) + 1 = n + 3
      OBVIOUS
    <3> QED
      BY <1>19, <2>1, <2>3, <3>1, <3>2, <3>3
  <2> QED
    BY <2>2, <2>3
<1>21. w \in Seq(DetailType)
  BY <1>5, <1>8, <1>9
<1>22. \A i \in DOMAIN w : \/ i \in DOMAIN q /\ w[i] = q[i]
                           \/ w[i].entry \in {e, t}
  BY <1>3, <1>4, <1>5, <1>19, <1>20
<1>23. \A i \in DOMAIN w : IsDiscount(w[i]) =>
                           \/ i \in DOMAIN q /\ w[i] = q[i]
                           \/ d # 0 /\ i = Len(q) + 3 /\ w[i].entry = t
  BY <1>3, <1>4, <1>5, <1>18, <1>19, <1>20
<1> QED
  BY <1>10, <1>15, <1>16, <1>17, <1>21, <1>22, <1>23

\* The one application on an undisturbed entry that nobody else holds has it right.
LEMMA AloneOn ==
    ASSUME CustInv, NEW s \in Sessions, Loop(s), NEW e, e = apply[s].entry, e \notin disturbed, e \notin HeldElsewhere(s)
    PROVE  /\ Clean(e) /\ Explained(e) = apply[s].remaining
           /\ Nearer(entry[e].doc, apply[s].remaining, entry[e].remaining)
           /\ \A o \in Sessions : o # s => apply[o].entry # e /\ \A i \in DOMAIN apply[o].targets : apply[o].targets[i].id # e
<1>1. Clean(e)
  BY DEF CustInv, SessionSound
<1>2. \A o \in Sessions : o # s => apply[o].entry # e /\ \A i \in DOMAIN apply[o].targets : apply[o].targets[i].id # e
  BY HeldByOthers
<1>3. Explained(e) = apply[s].remaining
  <2>1. CASE Writes(s, e)
    BY <1>1, <2>1 DEF Clean, ToldRight
  <2>2. CASE ~ Writes(s, e)
    <3>1. ~ apply[s].wrote
      BY <2>2 DEF Writes
    <3>2. \A o \in Sessions : ~ Writes(o, e)
      BY <1>2, <2>2 DEF Writes
    <3> QED
      BY <1>1, <3>1, <3>2 DEF Clean, ToldRight, HeldAsWritten
  <2> QED
    BY <2>1, <2>2
<1> QED
  BY <1>1, <1>2, <1>3 DEF Clean, HeldAsWritten

\* What is applied and given: never more than either side has, a discount only to a
\* payment on an invoice that is untouched.
LEMMA AmountsFit ==
    ASSUME CustInv, NEW s \in Sessions, Loop(s), NEW t \in LoadedType, t.id \in Entries, TargetSound(s, t),
           NEW e, e = apply[s].entry, NEW a, a = Applied(s, t), NEW d, d = Discount(e, t)
    PROVE  /\ a \in Nat /\ d \in Nat
           /\ \/ Sign(e) = 1 /\ Sign(t.id) = -1 /\ d = 0
              \/ Sign(e) = -1 /\ Sign(t.id) = 1
           /\ d # 0 => entry[t.id].doc.disc # 0 /\ t.remaining = entry[t.id].doc.amount
           /\ (Sign(t.id) = 1 => a + d <= t.remaining) /\ (Sign(t.id) = -1 => a + d <= -t.remaining)
           /\ (Sign(e) = 1 => a <= apply[s].remaining) /\ (Sign(e) = -1 => a <= -apply[s].remaining)
<1>1. e \in Entries /\ Within(entry[e].doc, apply[s].remaining) /\ Sign(t.id) # Sign(e) /\ Within(entry[t.id].doc, t.remaining)
  BY DEF CustInv, SessionSound, TargetSound
<1>2. TypeOK
  BY DEF CustInv
<1>3. /\ Sign(e) \in {1, -1} /\ (Sign(e) = 1 <=> entry[e].doc.amount > 0) /\ (Sign(e) = -1 <=> entry[e].doc.amount < 0)
      /\ Sign(t.id) \in {1, -1} /\ (Sign(t.id) = 1 <=> entry[t.id].doc.amount > 0)
      /\ (Sign(t.id) = -1 <=> entry[t.id].doc.amount < 0)
      /\ entry[e].doc.amount \in Int /\ entry[t.id].doc.amount \in Int
  BY <1>1, <1>2, SignsAre
<1>4. apply[s].remaining \in Int /\ t.remaining \in Int /\ entry[t.id].doc.disc \in Nat
  <2>1. apply[s] \in ApplyType /\ entry[t.id].doc \in DocumentType
    BY <1>2, CustTyped
  <2> QED
    BY <2>1 DEF ApplyType, LoadedType, DocumentType
<1>5. PICK r : r = apply[s].remaining
  OBVIOUS
<1>6. PICK m : m = t.remaining
  OBVIOUS
<1>7. /\ (Sign(e) = 1 => r >= 0) /\ (Sign(e) = -1 => r <= 0) /\ (Sign(t.id) = 1 => m >= 0) /\ (Sign(t.id) = -1 => m <= 0)
      /\ r \in Int /\ m \in Int
  BY <1>1, <1>3, <1>4, <1>5, <1>6 DEF Within
<1>8. PICK am : am = Abs(m)
  OBVIOUS
<1>9. PICK ar : ar = Abs(r)
  OBVIOUS
<1>10. /\ am \in Nat /\ ar \in Nat /\ (Sign(e) = 1 => ar = r) /\ (Sign(e) = -1 => ar = -r)
       /\ (Sign(t.id) = 1 => am = m) /\ (Sign(t.id) = -1 => am = -m)
  BY <1>7, <1>8, <1>9 DEF Abs
<1>11. /\ \/ d = 0
          \/ /\ Sign(e) = -1 /\ Sign(t.id) = 1 /\ am = entry[t.id].doc.amount /\ d = Least(entry[t.id].doc.disc, am)
  BY <1>6, <1>8, Zenon DEF Discount
<1>12. d \in Nat /\ d <= am /\ (d # 0 => entry[t.id].doc.disc # 0)
  <2>1. 0 \in Nat /\ 0 <= am
    BY <1>10
  <2>2. ASSUME d = Least(entry[t.id].doc.disc, am) PROVE d \in Nat /\ d <= am /\ (d # 0 => entry[t.id].doc.disc # 0)
    BY <1>4, <1>10, <2>2 DEF Least
  <2> QED
    BY <1>11, <2>1, <2>2
<1>13. a = Least(am - d, ar)
  BY <1>5, <1>6, <1>8, <1>9 DEF Applied
<1>14. a \in Nat /\ a <= am - d /\ a <= ar
  BY <1>10, <1>12, <1>13 DEF Least
<1>15. a + d <= am
  BY <1>10, <1>12, <1>14
<1> QED
  BY <1>1, <1>3, <1>5, <1>6, <1>10, <1>11, <1>12, <1>14, <1>15

\* Multiplication by a rate, taken apart.
LEMMA WorthMoves ==
    ASSUME NEW x \in Int, NEW y \in Int, NEW f \in Int
    PROVE  (x - y) * f = x * f - y * f
OBVIOUS

LEMMA MinusTimes ==
    ASSUME NEW x \in Int, NEW f \in Int
    PROVE  (-1 * x) * f = -(x * f) /\ (1 * x) * f = x * f
OBVIOUS

LEMMA BothSides ==
    ASSUME NEW a \in Nat, NEW d \in Nat, NEW fe \in Int, NEW ft \in Int,
           NEW se \in {1, -1}, NEW st \in {1, -1}, se = -st,
           se = 1 => d = 0 /\ fe = ft, d # 0 => ft = 1
    PROVE  (-(st * (a + d) * ft)) + (-(se * a * fe)) = a * (fe - ft) - d
<1>1. (a + d) * ft = a * ft + d * ft /\ a * (fe - ft) = a * fe - a * ft /\ a * fe \in Int /\ a * ft \in Int /\ d * ft \in Int
  OBVIOUS
<1>2. d * ft = d
  <2>1. CASE d = 0
    BY <2>1
  <2>2. CASE d # 0
    BY <2>2
  <2> QED
    BY <2>1, <2>2
<1>3. CASE se = 1
  <2>1. st = -1 /\ d = 0 /\ fe = ft
    BY <1>3
  <2>2. st * (a + d) * ft = -((a + d) * ft) /\ se * a * fe = a * fe
    BY <1>3, <2>1
  <2>3. a * fe = a * ft
    BY <2>1
  <2> QED
    BY <1>1, <1>2, <2>1, <2>2, <2>3
<1>4. CASE se = -1
  <2>1. st = 1
    BY <1>4
  <2>2. st * (a + d) * ft = (a + d) * ft /\ se * a * fe = -(a * fe)
    BY <1>4, <2>1
  <2> QED
    BY <1>1, <1>2, <2>2
<1> QED
  BY <1>3, <1>4

\* One pass that writes, with what it applies named.
Writing(s, e, t, a, d) ==
    /\ e = apply[s].entry /\ t = Head(apply[s].targets) /\ a = Applied(s, t) /\ d = Discount(e, t)
    /\ Loop(s) /\ apply[s].remaining # 0 /\ apply[s].targets # <<>> /\ t.open
    /\ entry' = [entry EXCEPT ![t.id] = Settled(s, t), ![e].lcy = @ - Sign(e) * a * entry[e].doc.factor]
    /\ detail' = detail \o AppliedRows(e, t, a, d)
    /\ control' = control + RealizedFx(s, t) - d
    /\ apply' = [apply EXCEPT ![s].targets = Tail(@), ![s].remaining = @ - Sign(e) * a, ![s].wrote = TRUE]
    /\ disturbed' = disturbed \cup ({t.id, e} \cap HeldElsewhere(s))
    /\ UNCHANGED <<customer, balance, undone, reversed>>

LEMMA PassesAre ==
    ASSUME NEW s, ApplyNext(s)
    PROVE  \/ /\ Loop(s) /\ apply[s].targets # <<>> /\ apply' = [apply EXCEPT ![s].targets = Tail(@)]
              /\ UNCHANGED <<customer, entry, detail, control, balance, undone, reversed, disturbed>>
           \/ \E e, t, a, d : Writing(s, e, t, a, d)
<1>1. CASE /\ ~ Head(apply[s].targets).open
           /\ apply' = [apply EXCEPT ![s].targets = Tail(@)]
           /\ UNCHANGED <<entry, detail, control, disturbed>>
  BY <1>1 DEF ApplyNext, Loop
<1>2. CASE ~ (/\ ~ Head(apply[s].targets).open
              /\ apply' = [apply EXCEPT ![s].targets = Tail(@)]
              /\ UNCHANGED <<entry, detail, control, disturbed>>)
  <2>1. PICK e : e = apply[s].entry
    OBVIOUS
  <2>2. PICK t : t = Head(apply[s].targets)
    OBVIOUS
  <2>3. PICK a : a = Applied(s, t)
    OBVIOUS
  <2>4. PICK d : d = Discount(e, t)
    OBVIOUS
  <2>5. t.open
    BY <1>2, <2>2, Zenon DEF ApplyNext
  <2>6. entry' = [entry EXCEPT ![t.id] = Settled(s, t), ![e].lcy = @ - Sign(e) * a * entry[e].doc.factor]
    BY <1>2, <2>1, <2>2, <2>3, Zenon DEF ApplyNext
  <2>7. detail' = detail \o AppliedRows(e, t, a, d)
    BY <1>2, <2>1, <2>2, <2>3, <2>4, Zenon DEF ApplyNext
  <2>8. control' = control + RealizedFx(s, t) - d
    BY <1>2, <2>1, <2>2, <2>4, Zenon DEF ApplyNext
  <2>9. apply' = [apply EXCEPT ![s].targets = Tail(@), ![s].remaining = @ - Sign(e) * a, ![s].wrote = TRUE]
    BY <1>2, <2>1, <2>2, <2>3, Zenon DEF ApplyNext
  <2>10. disturbed' = disturbed \cup ({t.id, e} \cap HeldElsewhere(s))
    BY <1>2, <2>1, <2>2, Zenon DEF ApplyNext
  <2>11. /\ Loop(s) /\ apply[s].remaining # 0 /\ apply[s].targets # <<>>
         /\ UNCHANGED <<customer, balance, undone, reversed>>
    BY DEF ApplyNext, Loop
  <2>12. Writing(s, e, t, a, d)
    BY <2>1, <2>2, <2>3, <2>4, <2>5, <2>6, <2>7, <2>8, <2>9, <2>10, <2>11 DEF Writing
  <2> QED
    BY <2>12
<1> QED
  BY <1>1, <1>2

\* What one such pass does to the entries, the session and the rows.
Wrote(s, e, t, a, d, st, se, left, r, new, old, nap) ==
    /\ e \in Entries /\ t \in LoadedType /\ t.id \in Entries /\ e # t.id
    /\ a \in Nat /\ d \in Nat /\ left \in Int /\ r \in Int
    /\ se = Sign(e) /\ st = Sign(t.id) /\ r = apply[s].remaining
    /\ \/ se = 1 /\ st = -1 /\ d = 0
       \/ se = -1 /\ st = 1
    /\ left = t.remaining - st * (a + d)
    /\ new \in EntryType /\ new.doc = entry[t.id].doc /\ new.remaining = left /\ (new.open <=> left # 0)
    /\ new.lcy = (IF left = 0 THEN 0 ELSE t.lcy - st * (a + d) * entry[t.id].doc.factor)
    /\ old \in EntryType /\ old.doc = entry[e].doc /\ old.remaining = entry[e].remaining /\ old.open = entry[e].open
    /\ old.lcy = entry[e].lcy - se * a * entry[e].doc.factor
    /\ entry' \in Seq(EntryType) /\ DOMAIN entry' = DOMAIN entry
    /\ entry'[t.id] = new /\ entry'[e] = old /\ \A x \in Entries : x # e /\ x # t.id => entry'[x] = entry[x]
    /\ nap \in ApplyType /\ nap.pc = "loop" /\ nap.entry = e /\ nap.remaining = r - se * a /\ nap.wrote
    /\ nap.targets = Tail(apply[s].targets)
    /\ apply' \in [Sessions -> ApplyType] /\ apply'[s] = nap /\ \A o \in Sessions : o # s => apply'[o] = apply[o]

LEMMA PassWrote ==
    ASSUME CustInv, NEW s \in Sessions, NEW e, NEW t, NEW a, NEW d, Writing(s, e, t, a, d)
    PROVE  \E st, se, left, r, new, old, nap : Wrote(s, e, t, a, d, st, se, left, r, new, old, nap)
<1>1. /\ e = apply[s].entry /\ t = Head(apply[s].targets) /\ a = Applied(s, t) /\ d = Discount(e, t)
      /\ Loop(s) /\ apply[s].targets # <<>> /\ t.open
  BY DEF Writing
<1>2. apply \in [Sessions -> ApplyType] /\ apply[s] \in ApplyType /\ apply[s].targets \in Seq(LoadedType) /\ apply[s].remaining \in Int
  BY DEF CustInv, TypeOK, ApplyType
<1>3. 1 \in DOMAIN apply[s].targets /\ t = apply[s].targets[1] /\ t \in LoadedType
  BY <1>1, <1>2
<1>4. e \in Entries /\ t.id \in Entries /\ TargetSound(s, t) /\ e # t.id
  <2>1. SessionSound(s)
    BY DEF CustInv
  <2>2. e \in Entries /\ TargetSound(s, t)
    BY <1>1, <1>3, <2>1 DEF SessionSound
  <2>3. t.id \in Entries
    BY <1>3 DEF CustInv, TypeOK, Entries
  <2> QED
    BY <1>1, <2>2, <2>3 DEF TargetSound
<1>5. /\ a \in Nat /\ d \in Nat
      /\ \/ Sign(e) = 1 /\ Sign(t.id) = -1 /\ d = 0
         \/ Sign(e) = -1 /\ Sign(t.id) = 1
  BY <1>1, <1>3, <1>4, AmountsFit
<1>6. PICK st : st = Sign(t.id)
  OBVIOUS
<1>7. PICK se : se = Sign(e)
  OBVIOUS
<1>8. PICK r : r = apply[s].remaining
  OBVIOUS
<1>9. PICK left : left = t.remaining - st * (a + d)
  OBVIOUS
<1>10. /\ t.remaining \in Int /\ t.lcy \in Int /\ st \in Int /\ se \in Int
       /\ entry[e].doc.factor \in Int /\ entry[t.id].doc.factor \in Int
       /\ entry[e] \in EntryType /\ entry[t.id] \in EntryType
  <2>1. entry[e] \in EntryType /\ entry[t.id] \in EntryType /\ entry[e].doc \in DocumentType /\ entry[t.id].doc \in DocumentType
    BY <1>4, CustTyped DEF CustInv
  <2>2. t.remaining \in Int /\ t.lcy \in Int
    BY <1>3 DEF LoadedType
  <2>3. entry[e].doc.factor \in Int /\ entry[t.id].doc.factor \in Int
    BY <2>1 DEF DocumentType
  <2> QED
    BY <1>5, <1>6, <1>7, <2>1, <2>2, <2>3
<1>11. left \in Int
  BY <1>5, <1>9, <1>10
<1>12. PICK worth : worth = t.lcy - st * (a + d) * entry[t.id].doc.factor
  OBVIOUS
<1>13. worth \in Int
  BY <1>5, <1>10, <1>12
<1>14. PICK new : new = [entry[t.id] EXCEPT !.remaining = left, !.lcy = IF left = 0 THEN 0 ELSE worth, !.open = left # 0]
  OBVIOUS
<1>15. new = Settled(s, t)
  BY <1>1, <1>6, <1>9, <1>12, <1>14, Zenon DEF Settled
<1>16. /\ new \in EntryType /\ new.doc = entry[t.id].doc /\ new.remaining = left /\ (new.open <=> left # 0)
       /\ new.lcy = (IF left = 0 THEN 0 ELSE worth)
  BY <1>10, <1>11, <1>13, <1>14 DEF EntryType
<1>17. PICK change : change = Sign(e) * a * entry[e].doc.factor
  OBVIOUS
<1>18. change \in Int /\ change = se * a * entry[e].doc.factor
  BY <1>5, <1>7, <1>10, <1>17
<1>19. PICK old : old = [entry[e] EXCEPT !.lcy = @ - change]
  OBVIOUS
<1>20. /\ old \in EntryType /\ old.doc = entry[e].doc /\ old.remaining = entry[e].remaining /\ old.open = entry[e].open
       /\ old.lcy = entry[e].lcy - change
  BY <1>10, <1>18, <1>19 DEF EntryType
<1>21. entry' = [entry EXCEPT ![t.id] = new, ![e] = old]
  <2>1. entry' = [entry EXCEPT ![t.id] = new, ![e].lcy = @ - change]
    BY <1>15, <1>17, Zenon DEF Writing
  <2>2. entry \in Seq(EntryType)
    BY DEF CustInv, TypeOK
  <2> QED
    BY <1>4, <1>16, <1>19, <2>1, <2>2
<1>22. /\ entry' \in Seq(EntryType) /\ DOMAIN entry' = DOMAIN entry
       /\ entry'[t.id] = new /\ entry'[e] = old /\ \A x \in Entries : x # e /\ x # t.id => entry'[x] = entry[x]
  BY <1>4, <1>16, <1>20, <1>21 DEF CustInv, TypeOK, Entries
<1>23. PICK nap : nap = [apply[s] EXCEPT !.targets = Tail(@), !.remaining = @ - Sign(e) * a, !.wrote = TRUE]
  OBVIOUS
<1>24. Tail(apply[s].targets) \in Seq(LoadedType) /\ apply[s].remaining - Sign(e) * a \in Int
  BY <1>1, <1>2, <1>5
<1>25. /\ nap \in ApplyType /\ nap.pc = "loop" /\ nap.entry = e /\ nap.remaining = r - se * a /\ nap.wrote
       /\ nap.targets = Tail(apply[s].targets)
  BY <1>1, <1>2, <1>7, <1>8, <1>23, <1>24 DEF ApplyType, Loop
<1>26. apply' = [apply EXCEPT ![s] = nap]
  <2>1. apply' = [apply EXCEPT ![s].targets = Tail(@), ![s].remaining = @ - Sign(e) * a, ![s].wrote = TRUE]
    BY DEF Writing
  <2> QED
    BY <1>2, <1>23, <2>1 DEF ApplyType
<1>27. apply' \in [Sessions -> ApplyType] /\ apply'[s] = nap /\ \A o \in Sessions : o # s => apply'[o] = apply[o]
  BY <1>2, <1>25, <1>26
<1>28. \/ se = 1 /\ st = -1 /\ d = 0
       \/ se = -1 /\ st = 1
  BY <1>5, <1>6, <1>7
<1>29. Wrote(s, e, t, a, d, st, se, left, r, new, old, nap)
  BY <1>2, <1>3, <1>4, <1>5, <1>6, <1>7, <1>8, <1>9, <1>11, <1>12, <1>16, <1>18, <1>20, <1>22, <1>25, <1>27, <1>28 DEF Wrote
<1> QED
  BY <1>29

\* The pieces of the invariant after such a pass: types, entries and sessions...
LEMMA PassSound ==
    ASSUME CustInv, NEW s \in Sessions, NEW e, NEW t, NEW a, NEW d, Writing(s, e, t, a, d),
           NEW st, NEW se, NEW left, NEW r, NEW new, NEW old, NEW nap,
           Wrote(s, e, t, a, d, st, se, left, r, new, old, nap)
    PROVE  /\ Within(entry[t.id].doc, left) /\ Within(entry[e].doc, r - se * a) /\ Nearer(entry[e].doc, r - se * a, r)
           /\ Nearer(entry[t.id].doc, left, t.remaining)
           /\ \A x \in Entries' : EntrySound(x)'
           /\ \A o \in Sessions : SessionSound(o)'
           /\ Entries' = Entries /\ DocumentsStand
<1>1. /\ e \in Entries /\ t \in LoadedType /\ t.id \in Entries /\ e # t.id
      /\ a \in Nat /\ d \in Nat /\ left \in Int /\ r \in Int
      /\ se = Sign(e) /\ st = Sign(t.id) /\ r = apply[s].remaining
      /\ \/ se = 1 /\ st = -1 /\ d = 0
         \/ se = -1 /\ st = 1
      /\ left = t.remaining - st * (a + d)
  BY DEF Wrote
<1>2. /\ e = apply[s].entry /\ t = Head(apply[s].targets) /\ Loop(s) /\ apply[s].targets # <<>> /\ customer' = customer
      /\ a = Applied(s, t) /\ d = Discount(e, t)
  BY DEF Writing
<1>3. apply[s].targets \in Seq(LoadedType)
  BY DEF CustInv, TypeOK, ApplyType
<1>4. 1 \in DOMAIN apply[s].targets /\ t = apply[s].targets[1]
  BY <1>2, <1>3
<1>5. SessionSound(s) /\ TargetSound(s, t) /\ Within(entry[t.id].doc, t.remaining) /\ Within(entry[e].doc, r)
  <2>1. SessionSound(s)
    BY DEF CustInv
  <2>2. TargetSound(s, t)
    BY <1>2, <1>4, <2>1 DEF SessionSound
  <2>3. Within(entry[apply[s].entry].doc, apply[s].remaining)
    BY <1>2, <2>1 DEF SessionSound
  <2>4. Within(entry[t.id].doc, t.remaining)
    BY <2>2 DEF TargetSound
  <2> QED
    BY <1>1, <1>2, <2>1, <2>2, <2>3, <2>4
<1>6. /\ (Sign(t.id) = 1 => a + d <= t.remaining) /\ (Sign(t.id) = -1 => a + d <= -t.remaining)
      /\ (Sign(e) = 1 => a <= apply[s].remaining) /\ (Sign(e) = -1 => a <= -apply[s].remaining)
  BY <1>1, <1>2, <1>5, AmountsFit
<1>7. /\ (st = 1 <=> entry[t.id].doc.amount > 0) /\ (st = -1 <=> entry[t.id].doc.amount < 0)
      /\ (se = 1 <=> entry[e].doc.amount > 0) /\ (se = -1 <=> entry[e].doc.amount < 0)
      /\ entry[t.id].doc.amount \in Int /\ entry[e].doc.amount \in Int
  BY <1>1, SignsAre DEF CustInv
<1>8. t.remaining \in Int
  BY <1>1 DEF LoadedType
<1>9. /\ Within(entry[t.id].doc, left) /\ Nearer(entry[t.id].doc, left, t.remaining)
      /\ Within(entry[e].doc, r - se * a) /\ Nearer(entry[e].doc, r - se * a, r)
  <2>1. CASE se = 1
    <3>1. st = -1 /\ left = t.remaining + (a + d) /\ r - se * a = r - a
      BY <1>1, <1>8, <2>1
    <3> QED
      BY <1>1, <1>5, <1>6, <1>7, <1>8, <2>1, <3>1 DEF Within, Nearer
  <2>2. CASE se = -1
    <3>1. st = 1 /\ left = t.remaining - (a + d) /\ r - se * a = r + a
      BY <1>1, <1>8, <2>2
    <3> QED
      BY <1>1, <1>5, <1>6, <1>7, <1>8, <2>2, <3>1 DEF Within, Nearer
  <2> QED
    BY <1>1, <2>1, <2>2
<1>10. /\ new.doc = entry[t.id].doc /\ new.remaining = left /\ (new.open <=> left # 0)
       /\ old.doc = entry[e].doc /\ old.remaining = entry[e].remaining /\ old.open = entry[e].open
       /\ DOMAIN entry' = DOMAIN entry
       /\ entry'[t.id] = new /\ entry'[e] = old /\ \A x \in Entries : x # e /\ x # t.id => entry'[x] = entry[x]
  BY DEF Wrote
<1>11. Entries' = Entries
  BY <1>10 DEF Entries
<1>12. DocumentsStand
  BY <1>1, <1>2, <1>10, <1>11 DEF DocumentsStand
<1>13. ASSUME NEW x \in Entries PROVE EntrySound(x)'
  <2>1. EntrySound(x)
    BY <1>13 DEF CustInv
  <2>2. CASE x = t.id
    <3>1. entry'[x].doc = entry[x].doc /\ entry'[x].remaining = left /\ (entry'[x].open <=> left # 0)
      BY <1>10, <2>2
    <3>2. entry[x].doc \in customer.documents /\ Within(entry[x].doc, left)
      BY <1>9, <2>1, <2>2 DEF EntrySound
    <3> QED
      BY <1>2, <3>1, <3>2 DEF EntrySound
  <2>3. CASE x = e
    BY <1>2, <1>10, <2>1, <2>3 DEF EntrySound
  <2>4. CASE x # e /\ x # t.id
    BY <1>2, <1>10, <2>1, <2>4 DEF EntrySound
  <2> QED
    BY <2>2, <2>3, <2>4
<1>14. /\ nap.pc = "loop" /\ nap.entry = e /\ nap.remaining = r - se * a /\ nap.targets = Tail(apply[s].targets)
       /\ apply'[s] = nap /\ \A o \in Sessions : o # s => apply'[o] = apply[o]
  BY DEF Wrote
<1>15. PICK q : q = Tail(apply[s].targets)
  OBVIOUS
<1>16. q \in Seq(LoadedType) /\ \A i \in DOMAIN q : i \in Nat /\ i + 1 \in DOMAIN apply[s].targets /\ q[i] = apply[s].targets[i + 1]
  BY <1>2, <1>3, <1>15
<1>17. \A x \in Entries : Sign(x)' = Sign(x) /\ entry'[x].doc = entry[x].doc
  BY <1>12 DEF Sign, DocumentsStand
<1>18. ASSUME NEW i \in DOMAIN q PROVE TargetSound(s, q[i])'
  <2>1. q[i].id \in Entries /\ TargetSound(s, q[i])
    BY <1>2, <1>5, <1>16 DEF SessionSound, CustInv, TypeOK, Entries
  <2>2. PICK u : u = q[i]
    OBVIOUS
  <2>3. Sign(u.id)' = Sign(u.id) /\ Sign(e)' = Sign(e) /\ entry'[u.id].doc = entry[u.id].doc /\ apply'[s].entry = e
    BY <1>1, <1>14, <1>17, <2>1, <2>2
  <2>4. Sign(u.id) # Sign(e) /\ Within(entry[u.id].doc, u.remaining) /\ (u.open <=> u.remaining # 0)
    BY <1>2, <2>1, <2>2 DEF TargetSound
  <2>5. TargetSound(s, u)'
    BY <2>3, <2>4 DEF TargetSound
  <2> QED
    BY <2>2, <2>5
<1>19. SessionSound(s)'
  <2>0. \A i, j \in DOMAIN apply[s].targets : apply[s].targets[i].id = apply[s].targets[j].id => i = j
    BY <1>2, <1>5 DEF SessionSound
  <2>1. ASSUME NEW i \in DOMAIN q, NEW j \in DOMAIN q, q[i].id = q[j].id PROVE i = j
    <3>1. i \in Nat /\ j \in Nat /\ i + 1 = j + 1
      BY <1>16, <2>0, <2>1
    <3> QED
      BY <3>1
  <2>2. Sign(e) \in customer.appliedFrom
    BY <1>2, <1>5 DEF SessionSound
  <2> QED
    <3>1. apply'[s].entry = e /\ apply'[s].remaining = r - se * a /\ apply'[s].targets = q
      BY <1>14, <1>15
    <3>2. e \in Entries' /\ Sign(e)' \in customer'.appliedFrom /\ Within(entry'[e].doc, r - se * a)
      <4>1. Sign(e)' = Sign(e) /\ entry'[e].doc = entry[e].doc
        BY <1>1, <1>17
      <4>2. e \in Entries'
        BY <1>1, <1>11
      <4>3. Within(entry'[e].doc, r - se * a)
        BY <1>9, <4>1, Zenon
      <4> QED
        BY <1>2, <2>2, <4>1, <4>2, <4>3
    <3> QED
      BY <1>18, <2>1, <3>1, <3>2 DEF SessionSound
<1>20. \A o \in Sessions : SessionSound(o)'
  BY <1>12, <1>14, <1>19, SessionStands DEF CustInv
<1> QED
  BY <1>9, <1>11, <1>12, <1>13, <1>20

\* ... and what the rows tell, of the two entries and of the others.
LEMMA PassTold ==
    ASSUME CustInv, NEW s \in Sessions, NEW e, NEW t, NEW a, NEW d, Writing(s, e, t, a, d),
           NEW st, NEW se, NEW left, NEW r, NEW new, NEW old, NEW nap,
           Wrote(s, e, t, a, d, st, se, left, r, new, old, nap)
    PROVE  /\ detail' \in Seq(DetailType) /\ \A i \in DOMAIN detail' : detail'[i].entry \in DOMAIN entry
           /\ Explained(e) \in Int /\ Explained(e)' = Explained(e) - se * a
           /\ Explained(t.id) \in Int /\ Explained(t.id)' = Explained(t.id) - st * (a + d)
           /\ \A x : x # e /\ x # t.id => Explained(x)' = Explained(x)
           /\ DiscountsGiven \in Int /\ DiscountsGiven' = DiscountsGiven - st * d
           /\ \A x : \A i \in DOMAIN detail' : Discounts(i, x)' =>
                 \/ i \in DOMAIN detail /\ Discounts(i, x)
                 \/ d # 0 /\ i = Len(detail) + 3 /\ x = t.id
<1>1. /\ e \in Entries /\ t.id \in Entries /\ e # t.id
      /\ a \in Nat /\ d \in Nat
      /\ se = Sign(e) /\ st = Sign(t.id)
      /\ \/ se = 1 /\ st = -1 /\ d = 0
         \/ se = -1 /\ st = 1
  BY DEF Wrote
<1>2. detail' = detail \o AppliedRows(e, t, a, d)
  BY DEF Writing
<1>3. e \in Nat /\ t.id \in Nat
  BY <1>1 DEF CustInv, TypeOK, Entries
<1>4. PICK ma : ma = -Sign(e) * a
  OBVIOUS
<1>5. PICK mb : mb = -Sign(t.id) * (a + d)
  OBVIOUS
<1>6. PICK mc : mc = -Sign(t.id) * d
  OBVIOUS
<1>7. /\ ma \in Int /\ mb \in Int /\ mc \in Int
      /\ ma = -(se * a) /\ mb = -(st * (a + d)) /\ mc = -(st * d)
  BY <1>1, <1>4, <1>5, <1>6
<1>8. /\ Moves(Applying(e, ma, t.id), e, ma) /\ Moves(Applying(t.id, mb, e), t.id, mb)
      /\ Grants(Discounting(t.id, mc, e), t.id, mc)
  BY <1>3, <1>7, NewRows
<1>9. detail' = detail \o (<<Applying(e, ma, t.id), Applying(t.id, mb, e)>>
                           \o (IF d = 0 THEN <<>> ELSE <<Discounting(t.id, mc, e)>>))
  BY <1>2, <1>4, <1>5, <1>6, Zenon DEF AppliedRows, Applying, Discounting
<1>10. Passed(detail, detail', e, t.id, ma, mb, d, mc)
  BY <1>1, <1>7, <1>8, <1>9 DEF Passed, CustInv, TypeOK
<1>11. /\ detail' \in Seq(DetailType)
       /\ ToldBy(detail, e) \in Int /\ ToldBy(detail', e) = ToldBy(detail, e) + ma
       /\ ToldBy(detail, t.id) \in Int /\ ToldBy(detail', t.id) = ToldBy(detail, t.id) + mb
       /\ \A x : x # e /\ x # t.id => ToldBy(detail', x) = ToldBy(detail, x)
       /\ GivenBy(detail) \in Int
       /\ (d = 0 => GivenBy(detail') = GivenBy(detail)) /\ (d # 0 => GivenBy(detail') = GivenBy(detail) + mc)
       /\ \A i \in DOMAIN detail' : \/ i \in DOMAIN detail /\ detail'[i] = detail[i]
                                    \/ detail'[i].entry \in {e, t.id}
       /\ \A i \in DOMAIN detail' : IsDiscount(detail'[i]) =>
                                    \/ i \in DOMAIN detail /\ detail'[i] = detail[i]
                                    \/ d # 0 /\ i = Len(detail) + 3 /\ detail'[i].entry = t.id
  BY <1>10, RowsPassed
<1>12. /\ \A x : Explained(x) = ToldBy(detail, x) /\ Explained(x)' = ToldBy(detail', x)
       /\ DiscountsGiven = GivenBy(detail) /\ DiscountsGiven' = GivenBy(detail')
  <2>1. \A x : Explained(x)' = ToldBy(detail', x)
    BY Zenon DEF Explained, ToldBy, Tells
  <2>2. DiscountsGiven' = GivenBy(detail')
    BY Zenon DEF DiscountsGiven, GivenBy, Gives
  <2> QED
    BY <2>1, <2>2, RowsAreSummed
<1>13. DiscountsGiven' = DiscountsGiven - st * d
  <2>1. CASE d = 0
    BY <1>1, <1>11, <1>12, <2>1
  <2>2. CASE d # 0
    BY <1>1, <1>7, <1>11, <1>12, <2>2
  <2> QED
    BY <2>1, <2>2
<1>14. \A i \in DOMAIN detail' : detail'[i].entry \in DOMAIN entry
  BY <1>1, <1>11 DEF CustInv, TypeOK, Entries
<1>15. \A x : \A i \in DOMAIN detail' : Discounts(i, x)' =>
                 \/ i \in DOMAIN detail /\ Discounts(i, x)
                 \/ d # 0 /\ i = Len(detail) + 3 /\ x = t.id
  BY <1>11 DEF Discounts
<1>16. /\ Explained(e) \in Int /\ Explained(e)' = Explained(e) - se * a
       /\ Explained(t.id) \in Int /\ Explained(t.id)' = Explained(t.id) - st * (a + d)
  BY <1>1, <1>7, <1>11, <1>12
<1> QED
  BY <1>11, <1>12, <1>13, <1>14, <1>15, <1>16

\* An entry the pass does not touch is as it was.
LEMMA PassOthers ==
    ASSUME CustInv, NEW s \in Sessions, NEW e, NEW t, NEW a, NEW d, Writing(s, e, t, a, d),
           NEW st, NEW se, NEW left, NEW r, NEW new, NEW old, NEW nap,
           Wrote(s, e, t, a, d, st, se, left, r, new, old, nap),
           NEW x \in Entries \ disturbed, x # e, x # t.id
    PROVE  Clean(x)'
<1>1. /\ nap.pc = "loop" /\ nap.entry = e /\ nap.targets = Tail(apply[s].targets)
      /\ apply'[s] = nap /\ \A o \in Sessions : o # s => apply'[o] = apply[o]
      /\ entry'[x] = entry[x] /\ e \in Entries /\ t.id \in Entries
  BY DEF Wrote
<1>2. e = apply[s].entry /\ Loop(s) /\ apply[s].targets # <<>>
  BY DEF Writing
<1>3. apply[s].targets \in Seq(LoadedType)
  BY DEF CustInv, TypeOK, ApplyType
<1>4. Explained(x)' = Explained(x)
  BY PassTold
<1>5. \A i \in DOMAIN detail' : Discounts(i, x)' => i \in DOMAIN detail /\ Discounts(i, x)
  BY PassTold
<1>6. \A i \in DOMAIN nap.targets : \E j \in DOMAIN apply[s].targets : apply[s].targets[j] = nap.targets[i]
  <2>1. PICK q : q = Tail(apply[s].targets)
    OBVIOUS
  <2>2. \A i \in DOMAIN q : i + 1 \in DOMAIN apply[s].targets /\ q[i] = apply[s].targets[i + 1]
    BY <1>2, <1>3, <2>1
  <2> QED
    BY <1>1, <2>1, <2>2
<1>7. \A o \in Sessions : Loop(o)' /\ apply'[o].entry = x =>
          \/ /\ Loop(o) /\ apply[o].entry = x
             /\ apply'[o].remaining = apply[o].remaining /\ apply'[o].wrote = apply[o].wrote
          \/ ~ apply'[o].wrote /\ apply'[o].remaining = entry[x].remaining
  BY <1>1 DEF Loop
<1>8. \A o \in Sessions : Writes(o, x) => Writes(o, x)'
  BY <1>1, <1>2 DEF Writes, Loop
<1>9. \A o \in Sessions : Loop(o)' =>
          \A i \in DOMAIN apply'[o].targets : apply'[o].targets[i].id = x =>
              \/ apply'[o].targets[i] = Loaded(x)
              \/ Loop(o) /\ \E j \in DOMAIN apply[o].targets : apply[o].targets[j] = apply'[o].targets[i]
  BY <1>1, <1>2, <1>6 DEF Loop
<1>10. StandsStill(x)
  BY <1>1, <1>4, <1>5, <1>7, <1>8, <1>9 DEF StandsStill
<1> QED
  BY <1>10, CleanStands DEF CustInv

\* The applying entry, when nobody else holds it.
LEMMA PassApplying ==
    ASSUME CustInv, NEW s \in Sessions, NEW e, NEW t, NEW a, NEW d, Writing(s, e, t, a, d),
           NEW st, NEW se, NEW left, NEW r, NEW new, NEW old, NEW nap,
           Wrote(s, e, t, a, d, st, se, left, r, new, old, nap),
           e \notin disturbed'
    PROVE  /\ Clean(e)' /\ entry[e].open /\ entry[e].lcy = r * entry[e].doc.factor
           /\ old.lcy = (r - se * a) * entry[e].doc.factor
<1>1. /\ e \in Entries /\ e # t.id /\ a \in Nat /\ d \in Nat /\ r \in Int /\ se \in {1, -1} /\ t.id \in Entries
      /\ se = Sign(e) /\ r = apply[s].remaining /\ old.lcy = entry[e].lcy - se * a * entry[e].doc.factor
      /\ old.doc = entry[e].doc /\ old.remaining = entry[e].remaining /\ old.open = entry[e].open
      /\ entry'[e] = old /\ DOMAIN entry' = DOMAIN entry
      /\ nap.pc = "loop" /\ nap.entry = e /\ nap.remaining = r - se * a /\ nap.wrote /\ nap.targets = Tail(apply[s].targets)
      /\ apply'[s] = nap /\ \A o \in Sessions : o # s => apply'[o] = apply[o]
  BY DEF Wrote
<1>2. /\ e = apply[s].entry /\ Loop(s) /\ apply[s].remaining # 0 /\ apply[s].targets # <<>>
      /\ disturbed' = disturbed \cup ({t.id, e} \cap HeldElsewhere(s))
  BY DEF Writing
<1>3. e \notin disturbed /\ e \notin HeldElsewhere(s)
  BY <1>2
<1>4. /\ Clean(e) /\ Explained(e) = r /\ Nearer(entry[e].doc, r, entry[e].remaining)
      /\ \A o \in Sessions : o # s => apply[o].entry # e /\ \A i \in DOMAIN apply[o].targets : apply[o].targets[i].id # e
  BY <1>1, <1>2, <1>3, AloneOn
<1>5. /\ entry[e].doc.amount \in Int /\ entry[e].doc.factor \in Int /\ entry[e].remaining \in Int /\ entry[e].lcy \in Int
      /\ entry[e].doc.amount # 0
  <2>1. entry[e].doc \in DocumentType /\ entry[e] \in EntryType
    BY <1>1, CustTyped DEF CustInv
  <2> QED
    BY <2>1 DEF DocumentType, EntryType
<1>6. entry[e].lcy = r * entry[e].doc.factor
  BY <1>4 DEF Clean, ToldRight
<1>7. old.lcy = (r - se * a) * entry[e].doc.factor
  <2>1. se * a \in Int
    BY <1>1
  <2>2. (r - se * a) * entry[e].doc.factor = r * entry[e].doc.factor - (se * a) * entry[e].doc.factor
    BY <1>1, <1>5, <2>1, WorthMoves
  <2> QED
    BY <1>1, <1>6, <2>2
<1>8. entry[e].open
  <2>1. EntrySound(e) /\ Within(entry[e].doc, r)
    BY <1>1, <1>2 DEF CustInv, SessionSound
  <2>2. Within(entry[e].doc, entry[e].remaining) /\ (entry[e].open <=> entry[e].remaining # 0)
    BY <2>1 DEF EntrySound
  <2>3. entry[e].remaining # 0
    <3>1. r # 0 /\ r \in Int
      BY <1>1, <1>2
    <3>2. Nearer(entry[e].doc, r, entry[e].remaining)
      BY <1>4
    <3> QED
      BY <3>1, <3>2, <1>5, <2>1, <2>2 DEF Nearer, Within
  <2> QED
    BY <2>2, <2>3
<1>9. Explained(e)' = r - se * a
  BY <1>4, PassTold
<1>10. \A o \in Sessions : Writes(o, e)' => o = s
  BY <1>1, <1>4 DEF Writes
<1>11. HeldAsWritten(e)'
  <2>1. ASSUME NEW o \in Sessions, Loop(o)', apply'[o].entry = e
        PROVE  /\ Nearer(entry'[e].doc, apply'[o].remaining, entry'[e].remaining)
               /\ ~ apply'[o].wrote => apply'[o].remaining = entry'[e].remaining
    <3>1. o = s
      BY <1>1, <1>4, <2>1
    <3>2. Nearer(entry[e].doc, r - se * a, r)
      BY PassSound
    <3>3. Nearer(entry[e].doc, r - se * a, entry[e].remaining)
      BY <1>1, <1>4, <1>5, <3>2 DEF Nearer
    <3> QED
      BY <1>1, <3>1, <3>3
  <2>2. ASSUME NEW o \in Sessions, Loop(o)', NEW i \in DOMAIN apply'[o].targets PROVE apply'[o].targets[i].id # e
    <3>1. CASE o # s
      BY <1>1, <1>4, <2>2, <3>1
    <3>2. CASE o = s
      <4>1. \A j \in DOMAIN apply[s].targets : TargetSound(s, apply[s].targets[j])
        BY <1>2 DEF CustInv, SessionSound
      <4>2. \A j \in DOMAIN apply[s].targets : apply[s].targets[j].id # e
        BY <1>2, <4>1 DEF TargetSound
      <4>3. PICK q : q = Tail(apply[s].targets)
        OBVIOUS
      <4>4. apply[s].targets \in Seq(LoadedType)
        BY DEF CustInv, TypeOK, ApplyType
      <4>5. i \in DOMAIN q /\ apply'[o].targets[i] = q[i]
        BY <1>1, <2>2, <3>2, <4>3
      <4>6. i + 1 \in DOMAIN apply[s].targets /\ q[i] = apply[s].targets[i + 1]
        BY <1>2, <4>3, <4>4, <4>5
      <4> QED
        BY <4>2, <4>5, <4>6
    <3> QED
      BY <3>1, <3>2
  <2> QED
    BY <1>10, <2>1, <2>2 DEF HeldAsWritten
<1>12. ToldRight(e)'
  <2>1. Writes(s, e)'
    BY <1>1 DEF Writes, Loop
  <2>2. \A o \in Sessions : Writes(o, e)' => Explained(e)' = apply'[o].remaining
    BY <1>1, <1>9, <1>10
  <2>3. entry'[e].lcy = Explained(e)' * entry'[e].doc.factor
    BY <1>1, <1>7, <1>9
  <2> QED
    BY <2>1, <2>2, <2>3 DEF ToldRight
<1>13. DiscountedOnce(e)'
  <2>1. \A i \in DOMAIN detail' : Discounts(i, e)' => i \in DOMAIN detail /\ Discounts(i, e)
    BY <1>1, PassTold
  <2>2. entry'[e].doc.amount = entry[e].doc.amount /\ entry'[e].remaining = entry[e].remaining
    BY <1>1
  <2> QED
    BY <1>4, <2>1, <2>2 DEF Clean, DiscountedOnce
<1> QED
  BY <1>6, <1>7, <1>8, <1>11, <1>12, <1>13 DEF Clean

\* The entry applied to, when nobody else holds it.
LEMMA PassApplied ==
    ASSUME CustInv, NEW s \in Sessions, NEW e, NEW t, NEW a, NEW d, Writing(s, e, t, a, d),
           NEW st, NEW se, NEW left, NEW r, NEW new, NEW old, NEW nap,
           Wrote(s, e, t, a, d, st, se, left, r, new, old, nap),
           t.id \notin disturbed'
    PROVE  /\ Clean(t.id)' /\ entry[t.id].open /\ entry[t.id].lcy = t.remaining * entry[t.id].doc.factor
           /\ new.lcy = left * entry[t.id].doc.factor
<1>1. /\ e \in Entries /\ e # t.id /\ a \in Nat /\ d \in Nat /\ left \in Int /\ t.id \in Entries /\ t \in LoadedType
      /\ se = Sign(e) /\ st = Sign(t.id) /\ left = t.remaining - st * (a + d) /\ st \in {1, -1}
      /\ new.lcy = (IF left = 0 THEN 0 ELSE t.lcy - st * (a + d) * entry[t.id].doc.factor)
      /\ new.doc = entry[t.id].doc /\ new.remaining = left /\ (new.open <=> left # 0)
      /\ entry'[t.id] = new /\ DOMAIN entry' = DOMAIN entry
      /\ nap.pc = "loop" /\ nap.entry = e /\ nap.targets = Tail(apply[s].targets)
      /\ apply'[s] = nap /\ \A o \in Sessions : o # s => apply'[o] = apply[o]
  BY DEF Wrote
<1>2. /\ e = apply[s].entry /\ Loop(s) /\ apply[s].targets # <<>> /\ t = Head(apply[s].targets) /\ t.open
      /\ disturbed' = disturbed \cup ({t.id, e} \cap HeldElsewhere(s)) /\ a = Applied(s, t) /\ d = Discount(e, t)
  BY DEF Writing
<1>3. t.id \notin disturbed /\ t.id \notin HeldElsewhere(s) /\ Clean(t.id) /\ EntrySound(t.id)
  <2>1. t.id \notin disturbed /\ t.id \notin HeldElsewhere(s)
    BY <1>2
  <2> QED
    BY <1>1, <2>1 DEF CustInv
<1>4. \A o \in Sessions : o # s => apply[o].entry # t.id /\ \A i \in DOMAIN apply[o].targets : apply[o].targets[i].id # t.id
  BY <1>3, HeldByOthers
<1>5. apply[s].targets \in Seq(LoadedType)
  BY DEF CustInv, TypeOK, ApplyType
<1>6. 1 \in DOMAIN apply[s].targets /\ t = apply[s].targets[1]
  BY <1>2, <1>5
<1>7. t = Loaded(t.id)
  BY <1>2, <1>3, <1>6 DEF Clean, HeldAsWritten
<1>8. t.remaining = entry[t.id].remaining /\ t.lcy = entry[t.id].lcy /\ t.open = entry[t.id].open
  BY <1>7 DEF Loaded
<1>9. \A o \in Sessions : ~ Writes(o, t.id)
  BY <1>1, <1>2, <1>4 DEF Writes
<1>10. Explained(t.id) = t.remaining /\ entry[t.id].lcy = t.remaining * entry[t.id].doc.factor
  BY <1>3, <1>8, <1>9 DEF Clean, ToldRight
<1>11. /\ entry[t.id].doc.amount \in Int /\ entry[t.id].doc.factor \in Int /\ t.remaining \in Int /\ t.lcy \in Int
       /\ (st = 1 <=> entry[t.id].doc.amount > 0) /\ (st = -1 <=> entry[t.id].doc.amount < 0)
  <2>1. entry[t.id].doc \in DocumentType
    BY <1>1, CustTyped DEF CustInv
  <2>2. st = 1 <=> entry[t.id].doc.amount > 0
    BY <1>1, SignsAre DEF CustInv
  <2>3. st = -1 <=> entry[t.id].doc.amount < 0
    BY <1>1, SignsAre DEF CustInv
  <2> QED
    BY <1>1, <2>1, <2>2, <2>3 DEF DocumentType, LoadedType
<1>12. Explained(t.id)' = left
  BY <1>1, <1>10, PassTold
<1>13. new.lcy = left * entry[t.id].doc.factor
  <2>1. PICK c : c = st * (a + d)
    OBVIOUS
  <2>2. c \in Int /\ left = t.remaining - c
    BY <1>1, <2>1
  <2>3. left * entry[t.id].doc.factor = t.remaining * entry[t.id].doc.factor - c * entry[t.id].doc.factor
    BY <1>11, <2>2, WorthMoves
  <2>4. CASE left = 0
    BY <1>1, <1>11, <2>4
  <2>5. CASE left # 0
    BY <1>1, <1>8, <1>10, <2>1, <2>3, <2>5
  <2> QED
    BY <2>4, <2>5
<1>14. \A o \in Sessions : Loop(o)' => apply'[o].entry # t.id
  BY <1>1, <1>4
<1>15. HeldAsWritten(t.id)'
  <2>1. ASSUME NEW o \in Sessions, Loop(o)', NEW i \in DOMAIN apply'[o].targets PROVE apply'[o].targets[i].id # t.id
    <3>1. CASE o # s
      BY <1>1, <1>4, <2>1, <3>1
    <3>2. CASE o = s
      <4>1. PICK q : q = Tail(apply[s].targets)
        OBVIOUS
      <4>2. i \in DOMAIN q /\ apply'[o].targets[i] = q[i]
        BY <1>1, <2>1, <3>2, <4>1
      <4>3. i \in Nat /\ i + 1 \in DOMAIN apply[s].targets /\ q[i] = apply[s].targets[i + 1] /\ i + 1 # 1
        BY <1>2, <1>5, <4>1, <4>2
      <4>4. SessionSound(s)
        BY DEF CustInv
      <4>5. \A k, j \in DOMAIN apply[s].targets : apply[s].targets[k].id = apply[s].targets[j].id => k = j
        BY <1>2, <4>4 DEF SessionSound
      <4> QED
        BY <1>6, <4>2, <4>3, <4>5
    <3> QED
      BY <3>1, <3>2
  <2> QED
    BY <1>14, <2>1 DEF HeldAsWritten, Writes
<1>16. ToldRight(t.id)'
  <2>1. \A o \in Sessions : ~ Writes(o, t.id)'
    BY <1>14 DEF Writes
  <2> QED
    BY <1>1, <1>12, <1>13, <2>1 DEF ToldRight
<1>17. DiscountedOnce(t.id)'
  <2>1. \A i \in DOMAIN detail' : Discounts(i, t.id)' => (i \in DOMAIN detail /\ Discounts(i, t.id)) \/ (d # 0 /\ i = Len(detail) + 3)
    BY PassTold
  <2>2. entry'[t.id].doc.amount = entry[t.id].doc.amount /\ entry'[t.id].remaining = left
    BY <1>1
  <2>3. CASE d = 0
    <3>1. Nearer(entry[t.id].doc, left, t.remaining)
      BY PassSound
    <3>2. entry[t.id].doc.amount > 0 => left <= t.remaining
      BY <3>1 DEF Nearer
    <3> QED
      BY <1>1, <1>3, <1>8, <1>11, <2>1, <2>2, <2>3, <3>2 DEF Clean, DiscountedOnce
  <2>4. CASE d # 0
    <3>1. TargetSound(s, t)
      BY <1>2, <1>6 DEF CustInv, SessionSound
    <3>2. t.remaining = entry[t.id].doc.amount /\ st = 1
      <4>0. t \in LoadedType /\ t.id \in Entries /\ Loop(s) /\ e = apply[s].entry /\ a = Applied(s, t) /\ d = Discount(e, t)
        BY <1>1, <1>2
      <4>1. d # 0 => t.remaining = entry[t.id].doc.amount
        BY <3>1, <4>0, AmountsFit
      <4>2. Sign(t.id) = 1 \/ d = 0
        BY <3>1, <4>0, AmountsFit
      <4> QED
        BY <1>1, <2>4, <4>1, <4>2
    <3>3. \A i \in DOMAIN detail : ~ Discounts(i, t.id)
      BY <1>3, <1>8, <1>11, <3>2 DEF Clean, DiscountedOnce
    <3>4. left < entry[t.id].doc.amount /\ entry[t.id].doc.amount > 0
      BY <1>1, <1>11, <2>4, <3>2
    <3> QED
      BY <2>1, <2>2, <3>3, <3>4 DEF DiscountedOnce
  <2> QED
    BY <2>3, <2>4
<1>18. entry[t.id].open
  BY <1>2, <1>8
<1> QED
  BY <1>10, <1>13, <1>15, <1>16, <1>17, <1>18 DEF Clean

LEMMA ExplainedIsInt == TypeOK => \A x : Explained(x) \in Int
<1> SUFFICES ASSUME TypeOK PROVE \A x : Explained(x) \in Int
  OBVIOUS
<1>1. 0 \in Nat /\ 0 \in Int
  OBVIOUS
<1>2. Opening(0, 0) \in DetailType
  BY <1>1, NewRows DEF Moves
<1>3. \A x : ToldBy(detail, x) \in Int
  BY <1>2, RowAdded DEF TypeOK
<1> QED
  BY <1>3, RowsAreSummed

\* The books after a pass that writes.
LEMMA PassBooks ==
    ASSUME CustInv, NEW s \in Sessions, NEW e, NEW t, NEW a, NEW d, Writing(s, e, t, a, d),
           NEW st, NEW se, NEW left, NEW r, NEW new, NEW old, NEW nap,
           Wrote(s, e, t, a, d, st, se, left, r, new, old, nap)
    PROVE  BooksSound' /\ control' \in Int
<1>1. /\ e \in Entries /\ e # t.id /\ a \in Nat /\ d \in Nat /\ left \in Int /\ r \in Int /\ t.id \in Entries /\ t \in LoadedType
      /\ se = Sign(e) /\ st = Sign(t.id) /\ left = t.remaining - st * (a + d)
      /\ \/ se = 1 /\ st = -1 /\ d = 0
         \/ se = -1 /\ st = 1
      /\ new \in EntryType /\ new.remaining = left /\ (new.open <=> left # 0)
      /\ old \in EntryType /\ old.open = entry[e].open
      /\ entry' \in Seq(EntryType) /\ DOMAIN entry' = DOMAIN entry
      /\ entry'[t.id] = new /\ entry'[e] = old /\ \A x \in Entries : x # e /\ x # t.id => entry'[x] = entry[x]
      /\ nap.pc = "loop" /\ nap.wrote /\ apply'[s] = nap
  BY DEF Wrote
<1>n. /\ a \in Nat /\ d \in Nat /\ left \in Int /\ r \in Int /\ st \in {1, -1} /\ se \in {1, -1} /\ se = -st
      /\ (se = 1 => d = 0) /\ st * d \in Int /\ se * a \in Int /\ st * (a + d) \in Int
  <2>1. /\ a \in Nat /\ d \in Nat /\ left \in Int /\ r \in Int
        /\ \/ se = 1 /\ st = -1 /\ d = 0
           \/ se = -1 /\ st = 1
    BY <1>1
  <2> QED
    BY <2>1
<1>2. /\ e = apply[s].entry /\ Loop(s) /\ a = Applied(s, t) /\ d = Discount(e, t)
      /\ apply[s].targets # <<>> /\ t = Head(apply[s].targets)
      /\ control' = control + RealizedFx(s, t) - d
      /\ disturbed' = disturbed \cup ({t.id, e} \cap HeldElsewhere(s))
      /\ customer' = customer /\ reversed' = reversed
  BY DEF Writing
<1>3. /\ entry[e].doc.factor \in Int /\ entry[t.id].doc.factor \in Int /\ t.remaining \in Int
      /\ entry[e].lcy \in Int /\ entry[t.id].lcy \in Int /\ new.lcy \in Int /\ old.lcy \in Int
      /\ entry[e].doc \in customer.documents /\ entry[t.id].doc \in customer.documents
  <2>1. entry[e].doc \in DocumentType /\ entry[e] \in EntryType /\ entry[t.id].doc \in DocumentType /\ entry[t.id] \in EntryType
    BY <1>1, CustTyped DEF CustInv
  <2>2. EntrySound(e) /\ EntrySound(t.id)
    BY <1>1 DEF CustInv
  <2>3. entry[e].doc \in customer.documents /\ entry[t.id].doc \in customer.documents
    BY <2>2 DEF EntrySound
  <2>4. entry[e].lcy \in Int /\ entry[t.id].lcy \in Int /\ new.lcy \in Int /\ old.lcy \in Int
    BY <1>1, <2>1 DEF EntryType
  <2>5. entry[e].doc.factor \in Int /\ entry[t.id].doc.factor \in Int
    BY <2>1 DEF DocumentType
  <2>6. t.remaining \in Int
    BY <1>1 DEF LoadedType
  <2> QED
    BY <2>3, <2>4, <2>5, <2>6
<1>4. PICK fe : fe = entry[e].doc.factor
  OBVIOUS
<1>5. PICK ft : ft = entry[t.id].doc.factor
  OBVIOUS
<1>6. RealizedFx(s, t) = a * (fe - ft)
  BY <1>2, <1>4, <1>5 DEF RealizedFx
<1>7. control \in Int /\ control' \in Int /\ fe \in Int /\ ft \in Int /\ a * (fe - ft) \in Int
  <2>1. control \in Int
    BY DEF CustInv, TypeOK
  <2>2. fe \in Int /\ ft \in Int
    BY <1>3, <1>4, <1>5
  <2>3. a * (fe - ft) \in Int
    BY <1>n, <2>2
  <2> QED
    <3>1. control' = control + a * (fe - ft) - d
      BY <1>2, <1>6, Zenon
    <3> QED
      BY <1>n, <2>1, <2>2, <2>3, <3>1
<1>8. PICK S : S = Entries
  OBVIOUS
<1>9. IsFiniteSet(S) /\ e \in S /\ t.id \in S /\ Entries' = S
  BY <1>1, <1>8, EntriesFinite DEF CustInv, Entries
<1>10. ExplainedTotal' = ExplainedTotal - st * d /\ ExplainedTotal \in Int
  <2>1. PICK f : f = [x \in S |-> Explained(x)]
    OBVIOUS
  <2>2. PICK g : g = [x \in S |-> Explained(x)']
    OBVIOUS
  <2>3. /\ Explained(e)' = Explained(e) - se * a /\ Explained(t.id)' = Explained(t.id) - st * (a + d)
        /\ \A x : x # e /\ x # t.id => Explained(x)' = Explained(x)
    BY PassTold
  <2>4. \A x : Explained(x) \in Int
    BY ExplainedIsInt DEF CustInv
  <2>5. \A x : Explained(x)' \in Int
    <3>1. Explained(e) - se * a \in Int /\ Explained(t.id) - st * (a + d) \in Int
      BY <1>n, <2>4
    <3> QED
      BY <2>3, <2>4, <3>1
  <2>6. /\ f[e] = Explained(e) /\ f[t.id] = Explained(t.id) /\ g[e] = Explained(e)' /\ g[t.id] = Explained(t.id)'
        /\ DOMAIN f = S /\ DOMAIN g = S
    BY <1>9, <2>1, <2>2
  <2>7. TwoChange(S, e, t.id, f, g)
    <3>1. \A x \in S : f[x] = Explained(x) /\ g[x] = Explained(x)'
      BY <2>1, <2>2
    <3> QED
      BY <1>1, <1>9, <2>3, <2>4, <2>5, <3>1 DEF TwoChange
  <2>8. SumOver(f, S) \in Int /\ SumOver(g, S) = SumOver(f, S) + (g[e] - f[e]) + (g[t.id] - f[t.id])
    BY <2>7, SumChangedTwice
  <2>9. ExplainedTotal = SumOver(f, S) /\ ExplainedTotal' = SumOver(g, S)
    <3>1. ExplainedTotal = SumFunction(f) /\ ExplainedTotal' = SumFunction(g)
      BY <1>8, <1>9, <2>1, <2>2 DEF ExplainedTotal
    <3> QED
      BY <2>6, <3>1, SumOfFunction
  <2>10. PICK xe \in Int : xe = Explained(e)
    BY <2>4
  <2>11. PICK xt \in Int : xt = Explained(t.id)
    BY <2>4
  <2>12. ((xe - se * a) - xe) + ((xt - st * (a + d)) - xt) = -(st * d)
    <3>1. CASE se = 1
      BY <1>n, <3>1
    <3>2. CASE se = -1
      BY <1>n, <3>2
    <3> QED
      BY <1>n, <3>1, <3>2
  <2>13. PICK total \in Int : total = SumOver(f, S)
    BY <2>8
  <2>14. SumOver(g, S) = total + ((xe - se * a) - xe) + ((xt - st * (a + d)) - xt)
    BY <2>3, <2>6, <2>8, <2>10, <2>11, <2>13
  <2> QED
    BY <1>n, <2>9, <2>12, <2>13, <2>14
<1>11. DocumentTotal' = DocumentTotal /\ ReversedTotal' = ReversedTotal
  <2>1. \A x \in Entries : entry'[x].doc = entry[x].doc
    BY PassSound DEF DocumentsStand
  <2>2. Entries' = Entries /\ reversed \subseteq Entries
    BY <1>8, <1>9 DEF CustInv, TypeOK, Entries
  <2> QED
    BY <1>2, <2>1, <2>2, Zenon DEF DocumentTotal, ReversedTotal
<1>12. DiscountsGiven \in Int /\ DiscountsGiven' = DiscountsGiven - st * d
  BY PassTold
<1>13. BooksSound
  BY DEF CustInv
<1>14. ~ NoneWrites'
  BY <1>1 DEF NoneWrites, Loop
<1>15. DocumentTotal \in Int
  BY DocumentTotalIsInt DEF CustInv
<1>16. ExplainedTotal' = DocumentTotal' + DiscountsGiven'
  <2>1. ExplainedTotal = DocumentTotal + DiscountsGiven
    BY <1>13 DEF BooksSound
  <2> QED
    BY <1>n, <1>10, <1>11, <1>12, <1>15, <2>1
<1>17. ASSUME disturbed' = {}, Straight(customer)' PROVE OpenTotal(entry)' = control' + ReversedTotal'
  <2>1. /\ entry[e].open /\ entry[e].lcy = r * entry[e].doc.factor /\ old.lcy = (r - se * a) * entry[e].doc.factor
    BY <1>17, PassApplying
  <2>2. /\ entry[t.id].open /\ entry[t.id].lcy = t.remaining * entry[t.id].doc.factor /\ new.lcy = left * entry[t.id].doc.factor
    BY <1>17, PassApplied
  <2>3. Straight(customer) /\ disturbed = {}
    BY <1>2, <1>17
  <2>4. SessionSound(s) /\ TargetSound(s, t)
    <3>1. apply[s].targets \in Seq(LoadedType)
      BY DEF CustInv, TypeOK, ApplyType
    <3>2. 1 \in DOMAIN apply[s].targets /\ t = apply[s].targets[1]
      BY <1>2, <3>1
    <3>3. SessionSound(s)
      BY DEF CustInv
    <3> QED
      BY <1>2, <3>2, <3>3 DEF SessionSound
  <2>5. d # 0 => ft = 1
    <3>0. t \in LoadedType /\ t.id \in Entries /\ Loop(s) /\ e = apply[s].entry /\ a = Applied(s, t) /\ d = Discount(e, t)
      BY <1>1, <1>2
    <3>1. d # 0 => entry[t.id].doc.disc # 0
      BY <2>4, <3>0, AmountsFit
    <3> QED
      BY <1>3, <1>5, <2>3, <3>1 DEF Straight
  <2>6. se = 1 => d = 0 /\ fe = ft
    <3>1. se \in customer.appliedFrom
      BY <1>1, <1>2, <2>4 DEF SessionSound
    <3>2. se = 1 => \A x, y \in customer.documents : x.factor = y.factor
      BY <2>3, <3>1 DEF Straight
    <3>3. entry[e].doc \in customer.documents /\ entry[t.id].doc \in customer.documents
      BY <1>3
    <3>4. se = 1 => entry[e].doc.factor = entry[t.id].doc.factor
      BY <3>2, <3>3
    <3> QED
      BY <1>n, <1>4, <1>5, <3>4
  <2>7. Worth(entry[e]) = r * fe /\ Worth(old) = (r - se * a) * fe
    BY <1>1, <1>4, <2>1 DEF Worth
  <2>8. Worth(entry[t.id]) = t.remaining * ft
    BY <1>5, <2>2 DEF Worth
  <2>9. Worth(new) = left * ft
    <3>1. CASE left = 0
      <4>1. Worth(new) = 0
        BY <1>1, <3>1, Zenon DEF Worth
      <4>2. left * ft = 0
        BY <1>7, <3>1
      <4> QED
        BY <4>1, <4>2
    <3>2. CASE left # 0
      BY <1>1, <1>5, <2>2, <3>2 DEF Worth
    <3> QED
      BY <3>1, <3>2
  <2>10. /\ OpenTotal(entry) \in Int
         /\ OpenTotal(entry') = OpenTotal(entry) + (Worth(entry'[e]) - Worth(entry[e])) + (Worth(entry'[t.id]) - Worth(entry[t.id]))
    <3>1. entry \in Seq(EntryType) /\ entry' \in Seq(EntryType) /\ Len(entry') = Len(entry)
      <4>1. entry \in Seq(EntryType)
        BY DEF CustInv, TypeOK
      <4>2. Len(entry') = Len(entry)
        BY <1>1, <4>1
      <4> QED
        BY <1>1, <4>1, <4>2
    <3>2. /\ e \in DOMAIN entry /\ t.id \in DOMAIN entry
          /\ \A z \in DOMAIN entry : z # e /\ z # t.id => entry'[z] = entry[z]
      BY <1>1 DEF Entries
    <3> QED
      BY <1>1, <3>1, <3>2, EntriesChanged
  <2>11. (r - se * a) * fe = r * fe - se * a * fe /\ r * fe \in Int /\ se * a * fe \in Int
    BY <1>n, <1>7, WorthMoves
  <2>12. left * ft = t.remaining * ft - st * (a + d) * ft /\ t.remaining * ft \in Int /\ st * (a + d) * ft \in Int
    <3>1. left = t.remaining - st * (a + d)
      BY <1>1
    <3>2. (t.remaining - st * (a + d)) * ft = t.remaining * ft - st * (a + d) * ft
      <4>1. t.remaining \in Int /\ ft \in Int /\ st * (a + d) \in Int
        BY <1>n, <1>3, <1>7
      <4> QED
        BY <4>1, WorthMoves
    <3> QED
      BY <1>n, <1>3, <1>7, <3>1, <3>2
  <2>13. (-(st * (a + d) * ft)) + (-(se * a * fe)) = a * (fe - ft) - d
    BY <1>n, <1>7, <2>5, <2>6, BothSides
  <2>14. OpenTotal(entry') = OpenTotal(entry) + (a * (fe - ft) - d)
    <3>1. entry'[e] = old /\ entry'[t.id] = new
      BY <1>1
    <3>2. OpenTotal(entry') = OpenTotal(entry) + ((r - se * a) * fe - r * fe) + (left * ft - t.remaining * ft)
      BY <2>7, <2>8, <2>9, <2>10, <3>1
    <3> QED
      BY <1>n, <1>7, <2>10, <2>11, <2>12, <2>13, <3>2
  <2>15. OpenTotal(entry) = control + ReversedTotal
    BY <1>13, <2>3 DEF BooksSound
  <2>16. ReversedTotal \in Int
    BY ReversedTotalIsInt DEF CustInv
  <2> QED
    <3>1. control' = control + a * (fe - ft) - d /\ ReversedTotal' = ReversedTotal
      BY <1>2, <1>6, <1>11, Zenon
    <3>2. PICK z \in Int : z = a * (fe - ft)
      BY <1>7
    <3>3. OpenTotal(entry') = OpenTotal(entry) + (z - d) /\ control' = control + z - d
      BY <2>14, <3>1, <3>2
    <3> QED
      BY <1>n, <1>7, <2>15, <2>16, <3>1, <3>3
<1>18. BooksSound'
  BY <1>14, <1>16, <1>17 DEF BooksSound
<1> QED
  BY <1>7, <1>18

LEMMA EntryWriteStep ==
    ASSUME CustInv, NEW s \in Sessions, NEW e, NEW t, NEW a, NEW d, Writing(s, e, t, a, d)
    PROVE  CustInv'
<1>1. PICK st, se, left, r, new, old, nap : Wrote(s, e, t, a, d, st, se, left, r, new, old, nap)
  BY PassWrote
<1>2. /\ \A x \in Entries' : EntrySound(x)'
      /\ \A o \in Sessions : SessionSound(o)'
      /\ Entries' = Entries
  BY <1>1, PassSound
<1>3. \A x \in Entries' \ disturbed' : Clean(x)'
  <2>1. disturbed \subseteq disturbed'
    BY DEF Writing
  <2>2. \A x \in Entries \ disturbed : x # e /\ x # t.id => Clean(x)'
    BY <1>1, PassOthers
  <2>3. e \notin disturbed' => Clean(e)'
    BY <1>1, PassApplying
  <2>4. t.id \notin disturbed' => Clean(t.id)'
    BY <1>1, PassApplied
  <2> QED
    BY <1>2, <2>1, <2>2, <2>3, <2>4
<1>4. BooksSound' /\ control' \in Int
  BY <1>1, PassBooks
<1>5. TypeOK'
  <2>1. /\ entry' \in Seq(EntryType) /\ DOMAIN entry' = DOMAIN entry /\ e \in Entries /\ t.id \in Entries
        /\ apply' \in [Sessions -> ApplyType] /\ nap.targets = Tail(apply[s].targets)
        /\ apply'[s] = nap /\ \A o \in Sessions : o # s => apply'[o] = apply[o]
    BY <1>1 DEF Wrote
  <2>2. detail' \in Seq(DetailType) /\ \A i \in DOMAIN detail' : detail'[i].entry \in DOMAIN entry'
    BY <1>1, <2>1, PassTold
  <2>3. ASSUME NEW o \in Sessions, NEW i \in DOMAIN apply'[o].targets PROVE apply'[o].targets[i].id \in DOMAIN entry'
    <3>1. CASE o # s
      BY <2>1, <2>3, <3>1 DEF CustInv, TypeOK
    <3>2. CASE o = s
      <4>1. apply[s].targets \in Seq(LoadedType) /\ apply[s].targets # <<>>
        BY DEF CustInv, TypeOK, ApplyType, Writing
      <4>2. PICK q : q = Tail(apply[s].targets)
        OBVIOUS
      <4>3. i \in DOMAIN q /\ apply'[o].targets[i] = q[i]
        BY <2>1, <2>3, <3>2, <4>2
      <4>4. i + 1 \in DOMAIN apply[s].targets /\ q[i] = apply[s].targets[i + 1]
        BY <4>1, <4>2, <4>3
      <4>5. \A j \in DOMAIN apply[s].targets : apply[s].targets[j].id \in DOMAIN entry
        BY DEF CustInv, TypeOK
      <4> QED
        BY <2>1, <4>3, <4>4, <4>5
    <3> QED
      BY <3>1, <3>2
  <2>4. /\ customer' \in Customers /\ balance' \in Int /\ undone' \in 0 .. MaxUnapply
        /\ reversed' \subseteq DOMAIN entry'
    BY <2>1 DEF CustInv, TypeOK, Writing
  <2>5. disturbed' \subseteq DOMAIN entry'
    BY <2>1 DEF CustInv, TypeOK, Writing, Entries
  <2> QED
    BY <1>4, <2>1, <2>2, <2>3, <2>4, <2>5 DEF TypeOK
<1> QED
  BY <1>2, <1>3, <1>4, <1>5 DEF CustInv

LEMMA CustUnchanged == CustInv /\ UNCHANGED vars => CustInv'
<1> SUFFICES ASSUME CustInv, UNCHANGED vars PROVE CustInv'
  OBVIOUS
<1>1. UNCHANGED <<customer, entry, detail, control, balance, apply, undone, reversed, disturbed>>
  BY DEF vars
<1>2. TypeOK'
  BY <1>1 DEF CustInv, TypeOK, Entries
<1>3. \A e \in Entries' : EntrySound(e)'
  BY <1>1 DEF CustInv, EntrySound, Entries
<1>4. \A s \in Sessions : SessionSound(s)'
  <2>1. DocumentsStand
    BY <1>1 DEF DocumentsStand, Entries
  <2> QED
    BY <1>1, <2>1, SessionStands DEF CustInv
<1>5. ASSUME NEW e \in Entries' \ disturbed' PROVE Clean(e)'
  <2>1. e \in Entries \ disturbed
    BY <1>1 DEF Entries
  <2>2. Explained(e)' = Explained(e)
    BY <1>1 DEF Explained
  <2>3. \A i : Discounts(i, e)' <=> Discounts(i, e)
    BY <1>1, Zenon DEF Discounts
  <2>4. StandsStill(e)
    BY <1>1, <2>1, <2>2, <2>3 DEF StandsStill, Writes, Loop
  <2> QED
    BY <2>1, <2>4, CleanStands DEF CustInv
<1>6. BooksSound'
  <2>1. /\ ExplainedTotal' = ExplainedTotal /\ DocumentTotal' = DocumentTotal /\ ReversedTotal' = ReversedTotal
        /\ DiscountsGiven' = DiscountsGiven /\ NoneWrites' = NoneWrites
    BY <1>1 DEF ExplainedTotal, DocumentTotal, ReversedTotal, DiscountsGiven, Entries, Explained, NoneWrites, Loop
  <2> QED
    BY <1>1, <2>1 DEF BooksSound, CustInv
<1> QED
  BY <1>2, <1>3, <1>4, <1>5, <1>6 DEF CustInv

LEMMA CustStep == CustInv /\ [Next]_vars => CustInv'
<1> SUFFICES ASSUME CustInv, [Next]_vars PROVE CustInv'
  OBVIOUS
<1>1. CASE CreateEntry
  BY <1>1, CreateStepC
<1>2. ASSUME NEW s \in Sessions, StartApply(s) PROVE CustInv'
  BY <1>2, StartStepC
<1>3. ASSUME NEW s \in Sessions, ApplyNext(s) PROVE CustInv'
  <2>1. CASE /\ Loop(s) /\ apply[s].targets # <<>> /\ apply' = [apply EXCEPT ![s].targets = Tail(@)]
             /\ UNCHANGED <<customer, entry, detail, control, balance, undone, reversed, disturbed>>
    BY <2>1, SkipStep
  <2>2. CASE \E e, t, a, d : Writing(s, e, t, a, d)
    BY <2>2, EntryWriteStep
  <2> QED
    BY <1>3, <2>1, <2>2, PassesAre
<1>4. ASSUME NEW s \in Sessions, FinishApply(s) PROVE CustInv'
  BY <1>4, FinishStep
<1>5. ASSUME NEW s \in Sessions, FailApply(s) PROVE CustInv'
  BY <1>5, FailStep
<1>6. ASSUME NEW e \in Entries, ReverseFromGL(e) PROVE CustInv'
  BY <1>6, ReverseStep
<1>7. CASE UNCHANGED vars
  BY <1>7, CustUnchanged
<1> QED
  BY <1>1, <1>2, <1>3, <1>4, <1>5, <1>6, <1>7 DEF Next

LEMMA CustInvAlways == Spec => []CustInv
BY CustInitInv, CustStep, PTL DEF Spec

\* No entry is settled beyond its amount or changes side, whoever else applies it or breaks
\* off; each is open exactly while it is owed; its rows explain it, discounts are given once
\* and applications make no money, wherever no two of them crossed and none broke off
\* half way (applyCustomerEntries, for any customer, clerks, rates and bounds).
THEOREM EntriesSoundAlways == Spec => []EntriesSound
<1>1. CustInv => EntriesSound
  <2> SUFFICES ASSUME CustInv PROVE EntriesSound
    OBVIOUS
  <2>1. TypeOK
    BY DEF CustInv
  <2>2. NeverOverApplied
    <3> SUFFICES ASSUME NEW e \in Entries
                 PROVE  Sign(e) * entry[e].remaining >= 0 /\ Abs(entry[e].remaining) <= Abs(entry[e].doc.amount)
      BY DEF NeverOverApplied
    <3>1. /\ Sign(e) = 1 <=> entry[e].doc.amount > 0
          /\ Sign(e) = -1 <=> entry[e].doc.amount < 0
          /\ Sign(e) \in {1, -1} /\ entry[e].doc.amount \in Int
      BY <2>1, SignsAre
    <3>2. Within(entry[e].doc, entry[e].remaining)
      BY DEF CustInv, EntrySound
    <3>3. entry[e].remaining \in Int
      BY <2>1, CustTyped DEF EntryType
    <3> QED
      BY <3>1, <3>2, <3>3 DEF Within, Abs
  <2>3. OpenIffOwed
    BY DEF CustInv, EntrySound, OpenIffOwed
  <2>4. DiscountOnce
    <3> SUFFICES ASSUME NEW i \in DOMAIN detail, NEW j \in DOMAIN detail,
                        IsDiscount(detail[i]), IsDiscount(detail[j]),
                        detail[i].entry = detail[j].entry, detail[i].entry \notin disturbed
                 PROVE  i = j
      BY Zenon DEF DiscountOnce, IsDiscount
    <3>1. detail[i].entry \in Entries
      BY <2>1 DEF TypeOK, Entries
    <3>2. DiscountedOnce(detail[i].entry)
      BY <3>1 DEF CustInv, Clean
    <3> QED
      BY <3>2 DEF DiscountedOnce, Discounts
  <2>5. ASSUME AtRest, NEW e \in Entries \ disturbed PROVE entry[e].remaining = Explained(e)
    <3>1. \A s \in Sessions : ~ Writes(s, e)
      BY <2>5 DEF AtRest, Writes, Loop
    <3> QED
      BY <3>1 DEF CustInv, Clean, ToldRight
  <2>6. DetailExplainsRemaining
    BY <2>5 DEF DetailExplainsRemaining
  <2>7. ApplicationConserves
    <3> SUFFICES ASSUME AtRest, disturbed = {}
                 PROVE  SumFunction([e \in Entries |-> entry[e].remaining]) =
                          SumFunction([e \in Entries |-> entry[e].doc.amount]) + DiscountsGiven
      BY DEF ApplicationConserves
    <3>1. [e \in Entries |-> entry[e].remaining] = [e \in Entries |-> Explained(e)]
      BY <2>5
    <3>2. ExplainedTotal = DocumentTotal + DiscountsGiven
      BY DEF CustInv, BooksSound
    <3> QED
      BY <3>1, <3>2, Zenon DEF ExplainedTotal, DocumentTotal
  <2> QED
    BY <2>1, <2>2, <2>3, <2>4, <2>6, <2>7 DEF EntriesSound
<1> QED
  BY <1>1, CustInvAlways, PTL

\* The balance on the customer's card ties to the receivables account, less what was
\* reversed from the G/L behind the ledger's back, wherever applications do not cross or
\* break off, of every customer whose exchange differences arise only on payments applied
\* to invoices and whose discounts are in base currency (recomputeCustomerBalance, and
\* the postings of applyCustomerEntries).
THEOREM BalanceTiesToControlAlways == Spec => [](Straight(customer) => BalanceTiesToControl)
<1>1. CustInv => (Straight(customer) => BalanceTiesToControl)
  <2> SUFFICES ASSUME CustInv, Straight(customer), AtRest, disturbed = {}
               PROVE  balance = control + SumFunction([e \in reversed |-> entry[e].doc.amount * entry[e].doc.factor])
    BY DEF BalanceTiesToControl
  <2>1. NoneWrites
    BY DEF AtRest, NoneWrites, Loop
  <2> QED
    BY <2>1 DEF CustInv, BooksSound, ReversedTotal
<1> QED
  BY <1>1, CustInvAlways, PTL

-----------------------------------------------------------------------------
(* Receipts: the header that is read, the journal, the customer's ledger.   *)

Doing(s, op) == request[s].op = op

\* A receipt two posts of which did not overlap: who may still post finds nothing
\* posted, and what is posted is one payment, one journal, one copy, and at most one
\* message, sent or about to be.
PostsAlone ==
    /\ \A s, t \in Tellers : Doing(s, "post") /\ Doing(t, "post") => s = t
    /\ (\E s \in Tellers : Doing(s, "post")) => payments = <<>>
    /\ header.there /\ payments # <<>> => header.posted
    /\ payments = <<>> => journal = {} /\ copies = <<>> /\ messages = 0 /\ \A s \in Tellers : ~ Doing(s, "notify")
    /\ payments # <<>> =>
        \E a \in ReceiptAmounts : payments = <<a>> /\ journal = {a} /\ copies = <<a>>
    /\ messages \in {0, 1}
    /\ \A s, t \in Tellers : Doing(s, "notify") /\ Doing(t, "notify") => s = t
    /\ (\E s \in Tellers : Doing(s, "notify")) => messages = 0

\* A receipt nobody edited or reopened beside another request: an approved header is of
\* the amount approved, who approves or posts has read the amount the header still has,
\* and who posts a big receipt has read an amount that is still approved.
ChangesAlone ==
    /\ header.there /\ header.status = "Approved" /\ header.amount > 0 => header.amount \in approved
    /\ \A s \in Tellers : Doing(s, "approve") \/ Doing(s, "post") => request[s].read.amount = header.amount
    /\ \A s \in Tellers : Doing(s, "post") /\ header.amount >= ApprovalLimit => header.amount \in approved
    /\ \A s, t \in Tellers : s # t /\ request[s].op \in {"update", "reopen"} => request[t].op \in {"none", "notify"}
    /\ \A s \in Tellers : Doing(s, "update") => header.status = "Open"

ReceiptInv ==
    /\ ReceiptTypeOK
    /\ \A s \in Tellers : Doing(s, "post") => request[s].read.amount > 0
    /\ "posts" \in raced \/ PostsAlone
    /\ "change" \in raced \/ ChangesAlone

LEMMA ReceiptInitInv == ReceiptInit => ReceiptInv
<1> SUFFICES ASSUME ReceiptInit PROVE ReceiptInv
  OBVIOUS
<1>1. PICK a \in Totals : header = [there |-> TRUE, amount |-> a, received |-> 0, status |-> "Open", posted |-> FALSE]
  BY DEF ReceiptInit
<1>2. header \in HeaderType /\ header.status = "Open"
  BY <1>1 DEF HeaderType, Totals
<1>3. NoRequest \in RequestType
  BY ReceiptsAssumption DEF NoRequest, RequestType, Blank, HeaderType, Totals
<1>4. \A s \in Tellers : request[s].op = "none"
  BY DEF ReceiptInit, NoRequest
<1>5. ReceiptTypeOK
  BY <1>2, <1>3, ReceiptsAssumption DEF ReceiptInit, ReceiptTypeOK
<1>6. PostsAlone
  BY <1>4 DEF PostsAlone, Doing, ReceiptInit
<1>7. ChangesAlone
  BY <1>2, <1>4 DEF ChangesAlone, Doing
<1> QED
  BY <1>4, <1>5, <1>6, <1>7 DEF ReceiptInv, Doing

\* What a request that is not new leaves alone: the other requests, and what raced.
LEMMA OthersStand ==
    ASSUME ReceiptInv, NEW s \in Tellers, NEW new \in RequestType, request' = [request EXCEPT ![s] = new]
    PROVE  /\ request'[s] = new /\ request' \in [Tellers -> RequestType]
           /\ \A t \in Tellers : t # s => request'[t] = request[t]
<1>1. request \in [Tellers -> RequestType]
  BY DEF ReceiptInv, ReceiptTypeOK
<1> QED
  BY <1>1

LEMMA NoRequestTyped == NoRequest \in RequestType /\ NoRequest.op = "none"
BY ReceiptsAssumption DEF NoRequest, RequestType, Blank, HeaderType, Totals

LEMMA BeginStep ==
    ASSUME ReceiptInv, NEW s \in Tellers, BeginRequest(s)
    PROVE  ReceiptInv'
<1>1. /\ request[s].op = "none"
      /\ UNCHANGED <<header, journal, payments, copies, messages, approved, edits>>
  BY DEF BeginRequest
<1>2. PICK op \in Operations, u \in Users :
        /\ Allowed(op, header, u)
        /\ request' = [request EXCEPT ![s] = [op |-> op, user |-> u, read |-> header]]
        /\ raced' = raced \cup UNION {Race(op, request[t].op) : t \in Tellers \ {s}}
  BY DEF BeginRequest
<1>3. PICK new : new = [op |-> op, user |-> u, read |-> header]
  OBVIOUS
<1>4. new \in RequestType /\ new.op = op /\ new.read = header
  BY <1>3 DEF ReceiptInv, ReceiptTypeOK, RequestType
<1>5. /\ request'[s] = new /\ request' \in [Tellers -> RequestType]
      /\ \A t \in Tellers : t # s => request'[t] = request[t]
  BY <1>2, <1>3, <1>4, OthersStand
<1>6. raced \subseteq raced' /\ \A t \in Tellers : t # s => Race(op, request[t].op) \subseteq raced'
  BY <1>2
<1>7. raced' \subseteq {"posts", "change"}
  BY <1>2 DEF ReceiptInv, ReceiptTypeOK, Race
<1>8. ReceiptTypeOK'
  BY <1>1, <1>5, <1>7 DEF ReceiptInv, ReceiptTypeOK
<1>9. op # "notify" /\ op # "none"
  BY DEF Operations
<1>10. ASSUME NEW t \in Tellers, Doing(t, "post")' PROVE request'[t].read.amount > 0
  <2>1. CASE t = s
    BY <1>1, <1>2, <1>4, <1>5, <1>10, <2>1 DEF Allowed, Doing
  <2>2. CASE t # s
    BY <1>5, <1>10, <2>2 DEF ReceiptInv, Doing
  <2> QED
    BY <2>1, <2>2
<1>11. ASSUME "posts" \notin raced' PROVE PostsAlone'
  <2>1. PostsAlone
    BY <1>6, <1>11 DEF ReceiptInv
  <2>2. \A t \in Tellers : op = "post" /\ t # s => request[t].op # "post"
    BY <1>6, <1>11 DEF Race
  <2>3. op = "post" => payments = <<>>
    BY <1>2, <2>1 DEF Allowed, PostsAlone
  <2>4. \A t \in Tellers : (Doing(t, "notify")' => Doing(t, "notify")) /\ (Doing(t, "post")' => Doing(t, "post") \/ (t = s /\ op = "post"))
    BY <1>4, <1>5, <1>9 DEF Doing
  <2>5. \A t, w \in Tellers : Doing(t, "post")' /\ Doing(w, "post")' => t = w
    BY <2>1, <2>2, <2>4 DEF PostsAlone, Doing
  <2> QED
    BY <1>1, <2>1, <2>3, <2>4, <2>5 DEF PostsAlone
<1>12. ASSUME "change" \notin raced' PROVE ChangesAlone'
  <2>1. ChangesAlone
    BY <1>6, <1>12 DEF ReceiptInv
  <2>2. \A t \in Tellers : t # s =>
            /\ op \in {"update", "reopen"} => request[t].op \in {"none", "notify"}
            /\ request[t].op \notin {"update", "reopen"}
    BY <1>6, <1>12 DEF Race
  <2>3. \A t \in Tellers : Doing(t, "approve")' \/ Doing(t, "post")' => request'[t].read.amount = header'.amount
    BY <1>1, <1>4, <1>5, <2>1 DEF ChangesAlone, Doing
  <2>4. op = "post" /\ header.amount >= ApprovalLimit => header.amount \in approved
    BY <1>2, <2>1 DEF ChangesAlone, Allowed, Postable
  <2>5. \A t \in Tellers : Doing(t, "post")' /\ header'.amount >= ApprovalLimit => header'.amount \in approved'
    BY <1>1, <1>4, <1>5, <2>1, <2>4 DEF ChangesAlone, Doing
  <2>6. \A t, w \in Tellers : t # w /\ request'[t].op \in {"update", "reopen"} => request'[w].op \in {"none", "notify"}
    BY <1>4, <1>5, <2>1, <2>2 DEF ChangesAlone
  <2>7. \A t \in Tellers : Doing(t, "update")' => header'.status = "Open"
    BY <1>1, <1>2, <1>4, <1>5, <2>1 DEF ChangesAlone, Doing, Allowed
  <2> QED
    BY <1>1, <2>1, <2>3, <2>5, <2>6, <2>7 DEF ChangesAlone
<1> QED
  BY <1>8, <1>10, <1>11, <1>12 DEF ReceiptInv

\* A request that is done, told the payer or gave up: what it wrote does not matter to
\* the others, or they would have raced.
LEMMA EndRequestStep ==
    ASSUME ReceiptInv, NEW s \in Tellers, EndRequest(s), UNCHANGED <<journal, payments, copies, raced>>,
           header' \in HeaderType, header'.posted = header.posted, header'.there => header.there,
           edits' \in 0 .. MaxEdits, approved' \in SUBSET ReceiptAmounts,
           messages' = messages \/ (messages' = messages + 1 /\ Doing(s, "notify")),
           "change" \notin raced =>
              /\ header'.there /\ header'.status = "Approved" /\ header'.amount > 0 => header'.amount \in approved'
              /\ (\E t \in Tellers \ {s} : Doing(t, "update")) => header'.status = header.status
              /\ (\E t \in Tellers \ {s} : Doing(t, "approve") \/ Doing(t, "post")) => header'.amount = header.amount
              /\ (\E t \in Tellers \ {s} : Doing(t, "post")) /\ header.amount > 0 /\ header.amount \in approved => header.amount \in approved'
    PROVE  ReceiptInv'
<1>1. /\ request'[s] = NoRequest /\ request' \in [Tellers -> RequestType]
      /\ \A t \in Tellers : t # s => request'[t] = request[t]
  BY NoRequestTyped, OthersStand DEF EndRequest
<1>2. ReceiptTypeOK'
  BY <1>1 DEF ReceiptInv, ReceiptTypeOK
<1>3. \A t \in Tellers : \A op \in {"post", "notify", "approve", "update", "reopen"} :
          request'[t].op = op => t # s /\ request[t].op = op /\ request'[t].read = request[t].read
  BY <1>1, NoRequestTyped
<1>4. \A t \in Tellers : Doing(t, "post")' => request'[t].read.amount > 0
  BY <1>3 DEF ReceiptInv, Doing
<1>5. ASSUME "posts" \notin raced' PROVE PostsAlone'
  <2>1. PostsAlone
    BY <1>5 DEF ReceiptInv
  <2>2. \A t \in Tellers : /\ Doing(t, "post")' => Doing(t, "post")
                           /\ Doing(t, "notify")' => t # s /\ Doing(t, "notify")
    BY <1>3 DEF Doing
  <2>3. messages' \in {0, 1} /\ (payments = <<>> => messages' = 0) /\ ((\E t \in Tellers : Doing(t, "notify")') => messages' = 0)
    BY <2>1, <2>2 DEF PostsAlone
  <2> QED
    BY <2>1, <2>2, <2>3 DEF PostsAlone
<1>6. ASSUME "change" \notin raced' PROVE ChangesAlone'
  <2>1. ChangesAlone
    BY <1>6 DEF ReceiptInv
  <2>2. \A t \in Tellers : Doing(t, "approve")' \/ Doing(t, "post")' => request'[t].read.amount = header'.amount
    BY <1>3, <1>6, <2>1 DEF ChangesAlone, Doing
  <2>3. ASSUME NEW t \in Tellers, Doing(t, "post")', header'.amount >= ApprovalLimit
        PROVE  header'.amount \in approved'
    <3>1. t \in Tellers \ {s} /\ Doing(t, "post") /\ header'.amount = header.amount
      BY <1>3, <1>6, <2>3 DEF Doing
    <3>2. header.amount > 0 /\ header.amount \in approved
      BY <2>1, <2>3, <3>1 DEF ChangesAlone, ReceiptInv
    <3> QED
      BY <1>6, <3>1, <3>2
  <2>4. \A t, w \in Tellers : t # w /\ request'[t].op \in {"update", "reopen"} => request'[w].op \in {"none", "notify"}
    BY <1>1, <2>1, NoRequestTyped DEF ChangesAlone
  <2>5. \A t \in Tellers : Doing(t, "update")' => header'.status = "Open"
    BY <1>3, <1>6, <2>1 DEF ChangesAlone, Doing
  <2> QED
    BY <1>6, <2>2, <2>3, <2>4, <2>5 DEF ChangesAlone
<1> QED
  BY <1>2, <1>4, <1>5, <1>6 DEF ReceiptInv

LEMMA PostTxStep ==
    ASSUME ReceiptInv, NEW s \in Tellers, PostReceiptTx(s)
    PROVE  ReceiptInv'
<1>1. /\ Doing(s, "post") /\ UNCHANGED <<messages, approved, edits, raced>>
      /\ payments' = Append(payments, request[s].read.amount) /\ copies' = Append(copies, request[s].read.amount)
      /\ journal' = IF journal = {} THEN {request[s].read.amount} ELSE journal
      /\ request' = [request EXCEPT ![s].op = "notify"]
  BY DEF PostReceiptTx, Doing
<1>2. /\ request \in [Tellers -> RequestType] /\ header \in HeaderType /\ request[s] \in RequestType
      /\ payments \in Seq(ReceiptAmounts) /\ copies \in Seq(ReceiptAmounts) /\ journal \in SUBSET ReceiptAmounts
  BY DEF ReceiptInv, ReceiptTypeOK
<1>3. PICK a : a = request[s].read.amount
  OBVIOUS
<1>4. a \in ReceiptAmounts
  <2>1. a > 0
    BY <1>1, <1>3 DEF ReceiptInv
  <2>2. a \in ReceiptAmounts \/ a = 0
    BY <1>2, <1>3 DEF RequestType, HeaderType, Totals
  <2> QED
    BY <2>1, <2>2
<1>5. /\ header' \in HeaderType /\ header'.there = header.there /\ header'.amount = header.amount
      /\ header'.status = header.status /\ (header'.there => header'.posted)
  BY <1>2 DEF PostReceiptTx, WriteHeader, HeaderType
<1>6. PICK new : new = [request[s] EXCEPT !.op = "notify"]
  OBVIOUS
<1>7. new \in RequestType /\ new.op = "notify"
  BY <1>2, <1>6 DEF RequestType
<1>8. request' = [request EXCEPT ![s] = new]
  BY <1>1, <1>2, <1>6
<1>9. /\ request'[s] = new /\ request' \in [Tellers -> RequestType]
      /\ \A t \in Tellers : t # s => request'[t] = request[t]
  BY <1>7, <1>8, OthersStand
<1>10. ReceiptTypeOK'
  BY <1>1, <1>2, <1>3, <1>4, <1>5, <1>9 DEF ReceiptInv, ReceiptTypeOK
<1>11. \A t \in Tellers : Doing(t, "post")' => request'[t].read.amount > 0
  BY <1>7, <1>9 DEF ReceiptInv, Doing
<1>12. ASSUME "posts" \notin raced' PROVE PostsAlone'
  <2>1. PostsAlone
    BY <1>1, <1>12 DEF ReceiptInv
  <2>2. payments = <<>> /\ journal = {} /\ copies = <<>> /\ messages = 0 /\ \A t \in Tellers : ~ Doing(t, "notify")
    BY <1>1, <2>1 DEF PostsAlone
  <2>3. payments' = <<a>> /\ copies' = <<a>> /\ journal' = {a} /\ messages' = 0
    BY <1>1, <1>3, <2>2
  <2>4. payments' # <<>>
    BY <2>3
  <2>5. \A t \in Tellers : ~ Doing(t, "post")' /\ (Doing(t, "notify")' => t = s)
    BY <1>1, <1>7, <1>9, <2>1, <2>2 DEF PostsAlone, Doing
  <2> QED
    BY <1>4, <1>5, <2>3, <2>4, <2>5 DEF PostsAlone
<1>13. ASSUME "change" \notin raced' PROVE ChangesAlone'
  <2>1. ChangesAlone
    BY <1>1, <1>13 DEF ReceiptInv
  <2>2. \A t \in Tellers : t # s => request'[t] = request[t]
    BY <1>9
  <2> QED
    BY <1>1, <1>5, <1>7, <1>9, <2>1 DEF ChangesAlone, Doing
<1> QED
  BY <1>10, <1>11, <1>12, <1>13 DEF ReceiptInv

LEMMA ReceiptStepInv == ReceiptInv /\ [ReceiptNext]_receiptVars => ReceiptInv'
<1> SUFFICES ASSUME ReceiptInv, [ReceiptNext]_receiptVars PROVE ReceiptInv'
  OBVIOUS
<1>1. CASE UNCHANGED receiptVars
  BY <1>1 DEF receiptVars, ReceiptInv, ReceiptTypeOK, PostsAlone, ChangesAlone, Doing
<1>2. ASSUME NEW s \in Tellers, BeginRequest(s) PROVE ReceiptInv'
  BY <1>2, BeginStep
<1>3. ASSUME NEW s \in Tellers, UpdateReceipt(s) \/ DeleteReceipt(s) \/ SetReceiptStatus(s) \/ NotifyPayer(s) \/ AbandonRequest(s)
      PROVE  ReceiptInv'
  <2>1. /\ header \in HeaderType /\ edits \in 0 .. MaxEdits /\ approved \in SUBSET ReceiptAmounts
        /\ request[s] \in RequestType /\ request[s].read.amount \in Totals
        /\ UNCHANGED <<journal, payments, copies, raced>> /\ EndRequest(s)
    <3>1. request \in [Tellers -> RequestType]
      BY DEF ReceiptInv, ReceiptTypeOK
    <3> QED
      BY <1>3, <3>1 DEF ReceiptInv, ReceiptTypeOK, UpdateReceipt, DeleteReceipt, SetReceiptStatus, NotifyPayer,
                        AbandonRequest, RequestType, HeaderType
  <2>2. "change" \in raced \/ ChangesAlone
    BY DEF ReceiptInv
  <2>3. CASE UpdateReceipt(s)
    <3>1. /\ request[s].op = "update" /\ UNCHANGED <<approved, messages>> /\ edits' = edits + 1 /\ edits < MaxEdits
      BY <2>3 DEF UpdateReceipt
    <3>2. PICK a \in Totals, r \in Totals : WriteHeader([header EXCEPT !.amount = a, !.received = r])
      BY <2>3 DEF UpdateReceipt
    <3>3. /\ header' \in HeaderType /\ header'.posted = header.posted /\ header'.there = header.there
          /\ header'.status = header.status
      BY <2>1, <3>2 DEF WriteHeader, HeaderType
    <3>4. approved' \in SUBSET ReceiptAmounts /\ edits' \in 0 .. MaxEdits
      BY <2>1, <3>1, ReceiptsAssumption
    <3>5. ChangesAlone =>
            /\ header.status = "Open"
            /\ ~ \E t \in Tellers \ {s} : Doing(t, "approve") \/ Doing(t, "post") \/ Doing(t, "update")
      BY <3>1 DEF ChangesAlone, Doing
    <3> QED
      BY <2>1, <2>2, <3>1, <3>3, <3>4, <3>5, EndRequestStep
  <2>4. CASE DeleteReceipt(s)
    <3>1. UNCHANGED <<approved, messages, edits>> /\ WriteHeader([header EXCEPT !.there = FALSE])
      BY <2>4 DEF DeleteReceipt
    <3>2. /\ header' \in HeaderType /\ header'.posted = header.posted /\ header'.there = FALSE
          /\ header'.status = header.status /\ header'.amount = header.amount
      BY <2>1, <3>1 DEF WriteHeader, HeaderType
    <3> QED
      BY <2>1, <3>1, <3>2, EndRequestStep
  <2>5. CASE SetReceiptStatus(s)
    <3>1. PICK op \in {"submit", "recall", "approve", "reject", "reopen"} : op = request[s].op
      BY <2>5 DEF SetReceiptStatus
    <3>2. /\ UNCHANGED <<messages, edits>> /\ WriteHeader([header EXCEPT !.status = NewStatus(op)])
          /\ approved' = CASE op = "approve" -> {request[s].read.amount} \ {0}
                           [] op = "reopen" -> {}
                           [] OTHER -> approved
      BY <2>5, <3>1 DEF SetReceiptStatus
    <3>3. /\ header' \in HeaderType /\ header'.posted = header.posted /\ header'.there = header.there
          /\ header'.amount = header.amount /\ (header'.there => header'.status = NewStatus(op))
      BY <2>1, <3>2 DEF WriteHeader, HeaderType, NewStatus
    <3>4. approved' \in SUBSET ReceiptAmounts
      BY <2>1, <3>2 DEF Totals
    <3>5. ASSUME ChangesAlone
          PROVE  /\ header'.there /\ header'.status = "Approved" /\ header'.amount > 0 => header'.amount \in approved'
                 /\ ~ \E t \in Tellers \ {s} : Doing(t, "update")
                 /\ (\E t \in Tellers \ {s} : Doing(t, "post")) /\ header.amount > 0 /\ header.amount \in approved => header.amount \in approved'
      <4>1. op = "approve" => request[s].read.amount = header.amount
        BY <3>1, <3>5 DEF ChangesAlone, Doing
      <4>2. header'.there /\ header'.status = "Approved" => op = "approve"
        BY <3>1, <3>3 DEF NewStatus
      <4>3. op = "approve" /\ header.amount > 0 => header.amount \in approved'
        BY <3>2, <4>1
      <4>4. op \notin {"approve", "reopen"} => approved' = approved
        BY <3>2
      <4>5. op = "reopen" => ~ \E t \in Tellers \ {s} : Doing(t, "post")
        BY <3>1, <3>5 DEF ChangesAlone, Doing
      <4>6. ~ \E t \in Tellers \ {s} : Doing(t, "update")
        BY <3>1, <3>5 DEF ChangesAlone, Doing
      <4> QED
        BY <3>1, <3>3, <4>2, <4>3, <4>4, <4>5, <4>6
    <3> QED
      BY <2>1, <2>2, <3>2, <3>3, <3>4, <3>5, EndRequestStep
  <2>6. CASE NotifyPayer(s)
    <3>1. UNCHANGED <<header, approved, edits>> /\ messages' \in {messages, messages + 1} /\ Doing(s, "notify")
      BY <2>6 DEF NotifyPayer, Doing
    <3>2. /\ header' \in HeaderType /\ edits' \in 0 .. MaxEdits /\ approved' \in SUBSET ReceiptAmounts
          /\ header'.there => header.there
      BY <2>1, <3>1
    <3> QED
      BY <2>1, <2>2, <3>1, <3>2, EndRequestStep DEF ChangesAlone
  <2>7. CASE AbandonRequest(s)
    <3>1. UNCHANGED <<header, approved, edits, messages>>
      BY <2>7 DEF AbandonRequest
    <3>2. /\ header' \in HeaderType /\ edits' \in 0 .. MaxEdits /\ approved' \in SUBSET ReceiptAmounts
          /\ header'.there => header.there
      BY <2>1, <3>1
    <3> QED
      BY <2>1, <2>2, <3>1, <3>2, EndRequestStep DEF ChangesAlone
  <2> QED
    BY <1>3, <2>3, <2>4, <2>5, <2>6, <2>7
<1>4. ASSUME NEW s \in Tellers, PostReceiptTx(s) PROVE ReceiptInv'
  BY <1>4, PostTxStep
<1> QED
  BY <1>1, <1>2, <1>3, <1>4 DEF ReceiptNext

LEMMA ReceiptInvAlways == ReceiptSpec => []ReceiptInv
<1> QED
  BY ReceiptInitInv, ReceiptStepInv, PTL DEF ReceiptSpec

\* postReceipt (lib/receipts.ts): whatever edits, approvals and refusals run beside it, a
\* receipt is in the journal, in the customer's ledger and among the posted copies for the
\* same amount and once, and the payer hears of it at most once, unless two posts of it
\* overlapped.
THEOREM PostedOnceUnlessTwoPostsAlways == ReceiptSpec => []PostedOnceUnlessTwoPosts
<1>1. ReceiptInv => PostedOnceUnlessTwoPosts
  <2> SUFFICES ASSUME ReceiptInv, "posts" \notin raced PROVE SubledgerMatchesJournal /\ CopiesMatchJournal
    BY DEF ReceiptInv, PostedOnceUnlessTwoPosts
  <2>1. PostsAlone
    BY DEF ReceiptInv
  <2>2. CASE payments = <<>>
    <3>1. payments = <<>> /\ copies = <<>> /\ journal = {} /\ messages = 0
      BY <2>1, <2>2 DEF PostsAlone
    <3>2. ToSet(payments) = {} /\ ToSet(copies) = {} /\ Len(payments) = 0 /\ Len(copies) = 0
      BY <3>1 DEF ToSet
    <3> QED
      BY <3>1, <3>2 DEF SubledgerMatchesJournal, CopiesMatchJournal
  <2>3. CASE payments # <<>>
    <3>1. PICK a \in ReceiptAmounts : payments = <<a>> /\ journal = {a} /\ copies = <<a>>
      BY <2>1, <2>3 DEF PostsAlone
    <3>2. ToSet(payments) = {a} /\ ToSet(copies) = {a} /\ Len(payments) = 1 /\ Len(copies) = 1
      BY <3>1 DEF ToSet
    <3>3. messages <= 1
      BY <2>1 DEF PostsAlone
    <3> QED
      BY <3>1, <3>2, <3>3 DEF SubledgerMatchesJournal, CopiesMatchJournal
  <2> QED
    BY <2>2, <2>3
<1> QED
  BY <1>1, ReceiptInvAlways, PTL

\* "A receipt at/above the approval limit must be Approved" (lib/receipts.ts): no step posts
\* an amount at or above the limit that nobody approved, unless the receipt was edited or
\* reopened while another request was between its checks and its writes.
THEOREM BigReceiptsApprovedUnlessChangedAlways == ReceiptSpec => BigReceiptsApprovedUnlessChanged
<1>1. ReceiptInv /\ [ReceiptNext]_receiptVars => [PostedUnapproved => "change" \in raced]_receiptVars
  <2> SUFFICES ASSUME ReceiptInv, [ReceiptNext]_receiptVars, NEW a \in journal' \ journal,
                      a >= ApprovalLimit, "change" \notin raced
               PROVE  a \in approved
    BY DEF PostedUnapproved
  <2>1. PICK s \in Tellers : PostReceiptTx(s)
    BY DEF ReceiptNext, receiptVars, BeginRequest, UpdateReceipt, DeleteReceipt, SetReceiptStatus, NotifyPayer, AbandonRequest
  <2>2. Doing(s, "post") /\ a = request[s].read.amount
    BY <2>1 DEF PostReceiptTx, Doing
  <2> QED
    BY <2>2 DEF ReceiptInv, ChangesAlone
<1> QED
  BY <1>1, ReceiptInvAlways, PTL DEF ReceiptSpec, BigReceiptsApprovedUnlessChanged
-----------------------------------------------------------------------------
(* Mpesa: from the payment to the credit on a fee account.                  *)

Has(p) == \E c \in DOMAIN credits : credits[c].pay = p
RowSteps == Steps \ {"idle", "c2bInsert", "stkInsert"}
\* The steps after which a row is written or a receipt made.
Claims == {"callback", "query", "allocate", "cancel", "receipt"}

\* A row is of a payment that was asked for; it is RECEIVED once that was made, and
\* POSTED once it was credited.
RowSound(r) ==
    /\ rows[r].pay \in C2B => outcome[rows[r].pay] = "paid"
    /\ outcome[rows[r].pay] # "none"
    /\ rows[r].status = "RECEIVED" => outcome[rows[r].pay] = "paid"
    /\ rows[r].status = "POSTED" => Has(rows[r].pay)

CreditSound(c) ==
    /\ credits[c].row \in DOMAIN rows /\ rows[credits[c].row].pay = credits[c].pay
    /\ outcome[credits[c].pay] = "paid"

\* What a handler knows of the payment it works on.
HandlerSound(s) ==
    /\ handler[s].at = "idle" => handler[s].pay = Nobody
    /\ handler[s].at # "idle" => handler[s].pay \in Payments /\ outcome[handler[s].pay] # "none"
    /\ handler[s].at \in RowSteps => handler[s].row \in DOMAIN rows /\ rows[handler[s].row].pay = handler[s].pay
    /\ handler[s].at = "c2bInsert" => handler[s].pay \in C2B /\ outcome[handler[s].pay] = "paid"
    /\ handler[s].at \in {"stkInsert", "callback"} => handler[s].pay \in Pushes
    /\ handler[s].at = "receipt" => handler[s].student \in Students /\ outcome[handler[s].pay] = "paid"
    /\ handler[s].at = "mark" => Has(handler[s].pay)

\* A payment nobody disturbed: one handler, one row, one credit, which the row shows or
\* its handler is about to; who may still write or credit finds none yet.
OneHandler(p) == \A s, t \in Handlers : handler[s].pay = p /\ handler[t].pay = p => s = t
OneRow(p) == \A q, r \in DOMAIN rows : rows[q].pay = p /\ rows[r].pay = p => q = r
OneCredit(p) == \A c, d \in DOMAIN credits : credits[c].pay = p /\ credits[d].pay = p => c = d
ShownOrMarking(p) ==
    \A c \in DOMAIN credits : credits[c].pay = p =>
        /\ credits[c].student = rows[credits[c].row].student
        /\ \/ rows[credits[c].row].status = "POSTED"
           \/ \E s \in Handlers : handler[s].pay = p /\ handler[s].at = "mark"
FirstClaims(p) ==
    \A s \in Handlers : handler[s].pay = p =>
        /\ handler[s].at \in {"c2bInsert", "stkInsert"} => \A r \in DOMAIN rows : rows[r].pay # p
        /\ handler[s].at \in Claims => ~ Has(p)
        /\ handler[s].at = "receipt" => handler[s].student = rows[handler[s].row].student
Undisturbed(p) == OneHandler(p) /\ OneRow(p) /\ OneCredit(p) /\ ShownOrMarking(p) /\ FirstClaims(p)

MpesaInv ==
    /\ MpesaTypeOK
    /\ \A r \in DOMAIN rows : RowSound(r)
    /\ \A c \in DOMAIN credits : CreditSound(c)
    /\ \A s \in Handlers : HandlerSound(s)
    /\ \A p \in Payments \ shared : Undisturbed(p)

LEMMA MpesaTyped ==
    ASSUME MpesaTypeOK
    PROVE  /\ \A r \in DOMAIN rows : rows[r] \in RowType
           /\ \A c \in DOMAIN credits : credits[c] \in CreditType
           /\ \A s \in Handlers : handler[s] \in HandlerType
<1>1. \A S : \A q \in Seq(S) : \A i \in DOMAIN q : q[i] \in S
  OBVIOUS
<1> QED
  BY <1>1 DEF MpesaTypeOK

LEMMA MpesaInitInv == MpesaInit => MpesaInv
<1> SUFFICES ASSUME MpesaInit PROVE MpesaInv
  OBVIOUS
<1>1. MpesaTypeOK
  BY MpesaAssumption DEF MpesaInit, MpesaTypeOK, HandlerType, IdleHandler, Steps
<1>2. DOMAIN rows = {} /\ DOMAIN credits = {}
  BY DEF MpesaInit
<1>3. \A s \in Handlers : handler[s].pay = Nobody /\ handler[s].at = "idle"
  BY DEF MpesaInit, IdleHandler
<1>4. \A s \in Handlers : HandlerSound(s)
  BY <1>3 DEF HandlerSound, RowSteps
<1>5. ASSUME NEW p \in Payments PROVE Undisturbed(p)
  <2>1. p # Nobody
    BY MpesaAssumption DEF Payments
  <2> QED
    BY <1>2, <1>3, <2>1 DEF Undisturbed, OneHandler, OneRow, OneCredit, ShownOrMarking, FirstClaims
<1> QED
  BY <1>1, <1>2, <1>4, <1>5 DEF MpesaInv

\* The payer decides: nothing that was paid is unpaid by it.
LEMMA PayStep ==
    ASSUME MpesaInv, NEW p \in Payments, Pay(p)
    PROVE  MpesaInv'
<1>1. /\ outcome[p] \in {"none", "asked"} /\ (outcome[p] = "asked" => p \notin C2B)
      /\ UNCHANGED <<rows, credits, landed, deaths, handler, shared>>
      /\ \E o \in {"paid", "declined"} : outcome' = [outcome EXCEPT ![p] = o]
  BY MpesaAssumption DEF Pay
<1>2. PICK o \in {"paid", "declined"} : outcome' = [outcome EXCEPT ![p] = o]
  BY <1>1
<1>3. outcome \in [Payments -> {"none", "asked", "paid", "declined"}]
  BY DEF MpesaInv, MpesaTypeOK
<1>4. \A q \in Payments : /\ outcome[q] = "paid" => outcome'[q] = "paid"
                          /\ outcome[q] # "none" => outcome'[q] # "none"
  BY <1>1, <1>2, <1>3
<1>5. MpesaTypeOK'
  BY <1>1, <1>2, <1>3 DEF MpesaInv, MpesaTypeOK, HandlerType, RowType, CreditType
<1>6. ASSUME NEW r \in DOMAIN rows' PROVE RowSound(r)'
  <2>1. RowSound(r) /\ rows[r].pay \in Payments
    BY <1>1, MpesaTyped DEF MpesaInv, RowType
  <2> QED
    BY <1>1, <1>4, <2>1 DEF RowSound, Has
<1>7. ASSUME NEW c \in DOMAIN credits' PROVE CreditSound(c)'
  <2>1. CreditSound(c) /\ credits[c].pay \in Payments
    BY <1>1, MpesaTyped DEF MpesaInv, CreditType
  <2> QED
    BY <1>1, <1>4, <2>1 DEF CreditSound
<1>8. ASSUME NEW s \in Handlers PROVE HandlerSound(s)'
  <2>1. HandlerSound(s)
    BY DEF MpesaInv
  <2>2. C2B \subseteq Payments
    BY DEF Payments
  <2> QED
    BY <1>1, <1>4, <2>1, <2>2 DEF HandlerSound, Has, RowSteps, Steps
<1>9. ASSUME NEW q \in Payments \ shared' PROVE Undisturbed(q)'
  <2>1. Undisturbed(q)
    BY <1>1 DEF MpesaInv
  <2> QED
    BY <1>1, <2>1 DEF Undisturbed, OneHandler, OneRow, OneCredit, ShownOrMarking, FirstClaims, Has
<1> QED
  BY <1>5, <1>6, <1>7, <1>8, <1>9 DEF MpesaInv

\* A free handler starts on a payment; if another is at work on it, that is on record.
LEMMA StartStep ==
    ASSUME MpesaInv, NEW s \in Handlers, NEW h \in HandlerType, handler[s].at = "idle",
           handler' = [handler EXCEPT ![s] = h], UNCHANGED <<rows, credits, deaths>>,
           landed' \subseteq Pushes, shared' \in {shared, shared \cup {h.pay}}, h.pay \in Payments,
           outcome' \in [Payments -> {"none", "asked", "paid", "declined"}],
           \A p \in Payments : /\ outcome[p] = "paid" => outcome'[p] = "paid"
                               /\ outcome[p] # "none" => outcome'[p] # "none",
           HandlerSound(s)', h.at \notin {"idle", "receipt", "mark"},
           h.pay \in shared' \/ ~ AtWorkOn(h.pay),
           h.at \in {"c2bInsert", "stkInsert"} => \A r \in DOMAIN rows : rows[r].pay # h.pay,
           h.at \in Claims => rows[h.row].status # "POSTED"
    PROVE  MpesaInv'
<1>1. handler \in [Handlers -> HandlerType] /\ rows \in Seq(RowType) /\ credits \in Seq(CreditType)
  BY DEF MpesaInv, MpesaTypeOK
<1>2. handler'[s] = h /\ handler' \in [Handlers -> HandlerType] /\ \A t \in Handlers : t # s => handler'[t] = handler[t]
  BY <1>1
<1>3. MpesaTypeOK'
  BY <1>2 DEF MpesaInv, MpesaTypeOK
<1>4. ASSUME NEW r \in DOMAIN rows' PROVE RowSound(r)'
  <2>1. RowSound(r) /\ rows[r].pay \in Payments
    BY MpesaTyped DEF MpesaInv, RowType
  <2> QED
    BY <2>1 DEF RowSound, Has
<1>5. ASSUME NEW c \in DOMAIN credits' PROVE CreditSound(c)'
  <2>1. CreditSound(c) /\ credits[c].pay \in Payments
    BY MpesaTyped DEF MpesaInv, CreditType
  <2> QED
    BY <2>1 DEF CreditSound
<1>6. ASSUME NEW t \in Handlers PROVE HandlerSound(t)'
  <2>1. CASE t = s
    BY <2>1
  <2>2. CASE t # s
    <3>1. HandlerSound(t)
      BY DEF MpesaInv
    <3>2. C2B \subseteq Payments
      BY DEF Payments
    <3> QED
      BY <1>2, <2>2, <3>1, <3>2 DEF HandlerSound, Has, RowSteps, Steps
  <2> QED
    BY <2>1, <2>2
<1>7. ASSUME NEW p \in Payments \ shared' PROVE Undisturbed(p)'
  <2>1. Undisturbed(p) /\ p \in Payments /\ p # Nobody
    BY MpesaAssumption DEF MpesaInv, Payments
  <2>2. handler[s].pay = Nobody
    BY DEF MpesaInv, HandlerSound
  <2>3. OneRow(p)' /\ OneCredit(p)'
    BY <2>1 DEF Undisturbed, OneRow, OneCredit
  <2>4. CASE p # h.pay
    <3>1. \A t \in Handlers : handler'[t].pay = p <=> handler[t].pay = p
      BY <1>2, <2>1, <2>2, <2>4
    <3>2. \A t \in Handlers : handler'[t].pay = p => handler'[t] = handler[t]
      BY <1>2, <2>4
    <3>3. OneHandler(p)'
      BY <2>1, <3>1 DEF Undisturbed, OneHandler
    <3>4. ShownOrMarking(p)'
      <4>1. \A t \in Handlers : handler[t].pay = p => handler'[t] = handler[t]
        BY <3>1, <3>2
      <4> QED
        BY <2>1, <4>1 DEF Undisturbed, ShownOrMarking
    <3>5. FirstClaims(p)'
      BY <2>1, <3>1, <3>2 DEF Undisturbed, FirstClaims, Has, Claims
    <3> QED
      BY <2>3, <3>3, <3>4, <3>5 DEF Undisturbed
  <2>5. CASE p = h.pay
    <3>1. \A t \in Handlers : handler[t].pay # p
      BY <2>5 DEF AtWorkOn
    <3>2. \A t \in Handlers : handler'[t].pay = p => t = s
      BY <1>2, <3>1
    <3>3. OneHandler(p)'
      BY <3>2 DEF OneHandler
    <3>4. ShownOrMarking(p)'
      BY <2>1, <3>1 DEF Undisturbed, ShownOrMarking
    <3>5. ASSUME h.at \in Claims PROVE ~ Has(p)
      <4> SUFFICES ASSUME NEW c \in DOMAIN credits, credits[c].pay = p PROVE FALSE
        BY DEF Has
      <4>1. rows[credits[c].row].status = "POSTED"
        BY <2>1, <3>1 DEF Undisturbed, ShownOrMarking
      <4>2. credits[c].row \in DOMAIN rows /\ rows[credits[c].row].pay = p
        BY DEF MpesaInv, CreditSound
      <4>3. h.row \in DOMAIN rows /\ rows[h.row].pay = p
        BY <1>2, <2>5, <3>5 DEF HandlerSound, Claims, RowSteps, Steps
      <4>4. h.row = credits[c].row
        BY <2>1, <4>2, <4>3 DEF Undisturbed, OneRow
      <4> QED
        BY <3>5, <4>1, <4>4
    <3>6. FirstClaims(p)'
      <4> SUFFICES ASSUME NEW t \in Handlers, handler'[t].pay = p
                   PROVE  /\ handler'[t].at \in {"c2bInsert", "stkInsert"} => \A r \in DOMAIN rows' : rows'[r].pay # p
                          /\ handler'[t].at \in Claims => ~ Has(p)'
                          /\ handler'[t].at = "receipt" => handler'[t].student = rows'[handler'[t].row].student
        BY DEF FirstClaims
      <4>1. handler'[t] = h
        BY <1>2, <3>2
      <4> QED
        BY <2>5, <3>5, <4>1 DEF Has
    <3> QED
      BY <2>3, <3>3, <3>4, <3>6 DEF Undisturbed
  <2> QED
    BY <2>4, <2>5
<1> QED
  BY <1>3, <1>4, <1>5, <1>6, <1>7 DEF MpesaInv

\* A handler writes the row of its payment and goes on, or is done. Of a payment nobody
\* disturbed: nothing was credited, or the row now says that it was.
LEMMA WriteStep ==
    ASSUME MpesaInv, NEW s \in Handlers, handler[s].at \in RowSteps,
           NEW r, r = handler[s].row, NEW new \in RowType, NEW h \in HandlerType,
           rows' = [rows EXCEPT ![r] = new], handler' = [handler EXCEPT ![s] = h],
           new.pay = handler[s].pay,
           new.status = "RECEIVED" => outcome[new.pay] = "paid",
           new.status = "POSTED" => Has(new.pay),
           h = IdleHandler \/ h = [handler[s] EXCEPT !.at = "post"],
           landed' \subseteq Pushes, UNCHANGED <<outcome, credits, deaths, shared>>,
           \/ handler[s].at \in Claims
           \/ handler[s].at = "mark" /\ new.status = "POSTED" /\ new.student = rows[r].student
    PROVE  MpesaInv'
<1>1. handler \in [Handlers -> HandlerType] /\ rows \in Seq(RowType) /\ handler[s] \in HandlerType
  BY DEF MpesaInv, MpesaTypeOK
<1>2. handler'[s] = h /\ handler' \in [Handlers -> HandlerType] /\ \A t \in Handlers : t # s => handler'[t] = handler[t]
  BY <1>1
<1>3. r \in DOMAIN rows /\ rows[r].pay = handler[s].pay /\ handler[s].pay \in Payments /\ HandlerSound(s)
  BY DEF MpesaInv, HandlerSound, RowSteps, Steps
<1>4. /\ rows' \in Seq(RowType) /\ Len(rows') = Len(rows) /\ DOMAIN rows' = DOMAIN rows /\ rows'[r] = new
      /\ \A q \in DOMAIN rows : q # r => rows'[q] = rows[q]
  BY <1>1, <1>3
<1>5. \A q \in DOMAIN rows : rows'[q].pay = rows[q].pay
  BY <1>3, <1>4
<1>6. MpesaTypeOK'
  BY <1>2, <1>4 DEF MpesaInv, MpesaTypeOK
<1>7. ASSUME NEW q \in DOMAIN rows' PROVE RowSound(q)'
  <2>1. RowSound(q)
    BY <1>4 DEF MpesaInv
  <2>2. CASE q = r
    BY <1>3, <1>4, <2>1, <2>2 DEF RowSound, Has
  <2>3. CASE q # r
    BY <1>4, <2>1, <2>3 DEF RowSound, Has
  <2> QED
    BY <2>2, <2>3
<1>8. ASSUME NEW c \in DOMAIN credits' PROVE CreditSound(c)'
  <2>1. CreditSound(c)
    BY DEF MpesaInv
  <2> QED
    BY <1>4, <1>5, <2>1 DEF CreditSound
<1>9. ASSUME NEW t \in Handlers PROVE HandlerSound(t)'
  <2>1. CASE t = s
    <3>1. CASE h = IdleHandler
      BY <1>2, <2>1, <3>1 DEF HandlerSound, IdleHandler, RowSteps
    <3>2. CASE h = [handler[s] EXCEPT !.at = "post"]
      <4>1. h.at = "post" /\ h.pay = handler[s].pay /\ h.row = r
        BY <1>1, <3>2 DEF HandlerType
      <4>2. outcome[handler[s].pay] # "none"
        BY <1>3 DEF HandlerSound, RowSteps
      <4> QED
        BY <1>2, <1>3, <1>4, <1>5, <2>1, <4>1, <4>2 DEF HandlerSound
    <3> QED
      BY <3>1, <3>2
  <2>2. CASE t # s
    <3>1. HandlerSound(t)
      BY DEF MpesaInv
    <3> QED
      BY <1>2, <1>4, <1>5, <2>2, <3>1 DEF HandlerSound, Has
  <2> QED
    BY <2>1, <2>2
<1>10. h.pay \in {Nobody, handler[s].pay} /\ h.at \in {"idle", "post"}
  BY <1>1 DEF IdleHandler, HandlerType
<1>11. ASSUME NEW p \in Payments \ shared' PROVE Undisturbed(p)'
  <2>1. Undisturbed(p) /\ p \in Payments /\ p # Nobody
    BY MpesaAssumption DEF MpesaInv, Payments
  <2>2. OneCredit(p)'
    BY <2>1 DEF Undisturbed, OneCredit
  <2>3. OneRow(p)'
    BY <1>4, <1>5, <2>1 DEF Undisturbed, OneRow
  <2>4. \A t \in Handlers : handler'[t].pay = p => handler[t].pay = p /\ (t # s => handler'[t] = handler[t])
    BY <1>2, <1>10, <2>1
  <2>5. OneHandler(p)'
    BY <2>1, <2>4 DEF Undisturbed, OneHandler
  <2>6. CASE p # handler[s].pay
    <3>1. \A t \in Handlers : handler[t].pay = p => handler'[t] = handler[t]
      BY <1>2, <2>6
    <3>2. \A q \in DOMAIN rows : rows[q].pay = p => rows'[q] = rows[q]
      BY <1>3, <1>4, <2>6
    <3>3. \A c \in DOMAIN credits : credits[c].row \in DOMAIN rows /\ rows[credits[c].row].pay = credits[c].pay
      BY DEF MpesaInv, CreditSound
    <3>4. ShownOrMarking(p)'
      BY <2>1, <3>1, <3>2, <3>3 DEF Undisturbed, ShownOrMarking
    <3>5. FirstClaims(p)'
      <4> SUFFICES ASSUME NEW t \in Handlers, handler'[t].pay = p
                   PROVE  /\ handler'[t].at \in {"c2bInsert", "stkInsert"} => \A q \in DOMAIN rows' : rows'[q].pay # p
                          /\ handler'[t].at \in Claims => ~ Has(p)'
                          /\ handler'[t].at = "receipt" => handler'[t].student = rows'[handler'[t].row].student
        BY DEF FirstClaims
      <4>1. handler[t].pay = p /\ handler'[t] = handler[t] /\ HandlerSound(t)
        BY <2>4, <3>1 DEF MpesaInv
      <4>2. /\ handler[t].at \in {"c2bInsert", "stkInsert"} => \A q \in DOMAIN rows : rows[q].pay # p
            /\ handler[t].at \in Claims => ~ Has(p)
            /\ handler[t].at = "receipt" => handler[t].student = rows[handler[t].row].student
        BY <2>1, <4>1 DEF Undisturbed, FirstClaims
      <4>3. handler[t].at = "receipt" => rows'[handler[t].row] = rows[handler[t].row]
        BY <3>2, <4>1 DEF HandlerSound, RowSteps, Steps
      <4> QED
        BY <1>4, <1>5, <4>1, <4>2, <4>3 DEF Has
    <3> QED
      BY <2>2, <2>3, <2>5, <3>4, <3>5 DEF Undisturbed
  <2>7. CASE p = handler[s].pay
    <3>1. \A t \in Handlers : handler'[t].pay = p => t = s /\ h.pay = p
      BY <1>2, <2>1, <2>4, <2>7 DEF Undisturbed, OneHandler
    <3>2. FirstClaims(p)'
      BY <1>2, <1>10, <3>1 DEF FirstClaims, Claims
    <3>3. ShownOrMarking(p)'
      <4> SUFFICES ASSUME NEW c \in DOMAIN credits, credits[c].pay = p
                   PROVE  credits[c].student = rows'[credits[c].row].student /\ rows'[credits[c].row].status = "POSTED"
        BY DEF ShownOrMarking
      <4>1. Has(p)
        BY DEF Has
      <4>2. handler[s].at = "mark" /\ new.status = "POSTED" /\ new.student = rows[r].student
        BY <2>1, <2>7, <4>1 DEF Undisturbed, FirstClaims
      <4>3. credits[c].row \in DOMAIN rows /\ rows[credits[c].row].pay = p
        BY DEF MpesaInv, CreditSound
      <4>4. credits[c].row = r
        BY <1>3, <2>1, <2>7, <4>3 DEF Undisturbed, OneRow
      <4>5. credits[c].student = rows[r].student
        BY <2>1, <4>4 DEF Undisturbed, ShownOrMarking
      <4> QED
        BY <1>4, <4>2, <4>4, <4>5
    <3> QED
      BY <2>2, <2>3, <2>5, <3>2, <3>3 DEF Undisturbed
  <2> QED
    BY <2>6, <2>7
<1> QED
  BY <1>6, <1>7, <1>8, <1>9, <1>11 DEF MpesaInv

\* A payment gets a row, which says nothing of it that is not so.
LEMMA InsertStep ==
    ASSUME MpesaInv, NEW s \in Handlers, handler[s].at \in {"c2bInsert", "stkInsert"}, Len(rows) < MaxRows,
           NEW new \in RowType, rows' = Append(rows, new), new.pay = handler[s].pay,
           new.status \in {"RECEIVED", "PENDING"}, new.status = "RECEIVED" => outcome[new.pay] = "paid",
           NEW h \in HandlerType, handler' = [handler EXCEPT ![s] = h],
           h = IdleHandler \/ (h.at = "post" /\ h.row = Len(rows) + 1 /\ h.pay = handler[s].pay),
           UNCHANGED <<outcome, credits, landed, deaths, shared>>
    PROVE  MpesaInv'
<1>1. handler \in [Handlers -> HandlerType] /\ rows \in Seq(RowType) /\ handler[s] \in HandlerType
  BY DEF MpesaInv, MpesaTypeOK
<1>2. handler'[s] = h /\ handler' \in [Handlers -> HandlerType] /\ \A t \in Handlers : t # s => handler'[t] = handler[t]
  BY <1>1
<1>3. HandlerSound(s) /\ handler[s].pay \in Payments /\ outcome[handler[s].pay] # "none"
  BY DEF MpesaInv, HandlerSound
<1>4. PICK n : n = Len(rows) + 1
  OBVIOUS
<1>5. /\ rows' \in Seq(RowType) /\ Len(rows') = n /\ DOMAIN rows' = DOMAIN rows \cup {n}
      /\ rows'[n] = new /\ n \notin DOMAIN rows /\ \A q \in DOMAIN rows : rows'[q] = rows[q]
  BY <1>1, <1>4
<1>6. MpesaTypeOK'
  <2>1. Len(rows') <= MaxRows
    BY <1>1, <1>4, <1>5, MpesaAssumption
  <2> QED
    BY <1>2, <1>5, <2>1 DEF MpesaInv, MpesaTypeOK
<1>7. ASSUME NEW q \in DOMAIN rows' PROVE RowSound(q)'
  <2>1. CASE q = n
    BY <1>3, <1>5, <2>1, MpesaAssumption DEF RowSound, HandlerSound
  <2>2. CASE q \in DOMAIN rows
    BY <1>5, <2>2 DEF MpesaInv, RowSound, Has
  <2> QED
    BY <1>5, <2>1, <2>2
<1>8. ASSUME NEW c \in DOMAIN credits' PROVE CreditSound(c)'
  BY <1>5 DEF MpesaInv, CreditSound
<1>9. ASSUME NEW t \in Handlers PROVE HandlerSound(t)'
  <2>1. CASE t = s
    <3>1. CASE h = IdleHandler
      BY <1>2, <2>1, <3>1 DEF HandlerSound, IdleHandler, RowSteps
    <3>2. CASE h.at = "post" /\ h.row = Len(rows) + 1 /\ h.pay = handler[s].pay
      BY <1>2, <1>3, <1>4, <1>5, <2>1, <3>2 DEF HandlerSound
    <3> QED
      BY <3>1, <3>2
  <2>2. CASE t # s
    <3>1. HandlerSound(t)
      BY DEF MpesaInv
    <3> QED
      BY <1>2, <1>5, <2>2, <3>1 DEF HandlerSound, Has
  <2> QED
    BY <2>1, <2>2
<1>10. h.pay \in {Nobody, handler[s].pay} /\ h.at \in {"idle", "post"}
  BY DEF IdleHandler
<1>11. ASSUME NEW p \in Payments \ shared' PROVE Undisturbed(p)'
  <2>1. Undisturbed(p) /\ p \in Payments /\ p # Nobody
    BY MpesaAssumption DEF MpesaInv, Payments
  <2>2. OneCredit(p)'
    BY <2>1 DEF Undisturbed, OneCredit
  <2>3. \A t \in Handlers : handler'[t].pay = p => handler[t].pay = p /\ (t # s => handler'[t] = handler[t])
    BY <1>2, <1>10, <2>1
  <2>4. OneHandler(p)'
    BY <2>1, <2>3 DEF Undisturbed, OneHandler
  <2>5. p = handler[s].pay => \A q \in DOMAIN rows : rows[q].pay # p
    BY <2>1 DEF Undisturbed, FirstClaims
  <2>6. OneRow(p)'
    BY <1>5, <2>1, <2>5 DEF Undisturbed, OneRow
  <2>7. \A c \in DOMAIN credits : credits[c].row \in DOMAIN rows /\ rows[credits[c].row].pay = credits[c].pay
    BY DEF MpesaInv, CreditSound
  <2>8. \A t \in Handlers : handler[t].pay = p /\ handler[t].at = "mark" => handler'[t] = handler[t]
    BY <1>2
  <2>9. ShownOrMarking(p)'
    BY <1>5, <2>1, <2>7, <2>8 DEF Undisturbed, ShownOrMarking
  <2>10. FirstClaims(p)'
    <3> SUFFICES ASSUME NEW t \in Handlers, handler'[t].pay = p
                 PROVE  /\ handler'[t].at \in {"c2bInsert", "stkInsert"} => \A q \in DOMAIN rows' : rows'[q].pay # p
                        /\ handler'[t].at \in Claims => ~ Has(p)'
                        /\ handler'[t].at = "receipt" => handler'[t].student = rows'[handler'[t].row].student
      BY DEF FirstClaims
    <3>1. CASE t = s
      BY <1>2, <1>10, <3>1 DEF Claims
    <3>2. CASE t # s
      <4>1. handler[t].pay = p /\ handler'[t] = handler[t] /\ HandlerSound(t) /\ handler[s].pay # p
        BY <2>1, <2>3, <3>2 DEF MpesaInv, Undisturbed, OneHandler
      <4>2. /\ handler[t].at \in {"c2bInsert", "stkInsert"} => \A q \in DOMAIN rows : rows[q].pay # p
            /\ handler[t].at \in Claims => ~ Has(p)
            /\ handler[t].at = "receipt" => handler[t].student = rows[handler[t].row].student
        BY <2>1, <4>1 DEF Undisturbed, FirstClaims
      <4>3. handler[t].at = "receipt" => rows'[handler[t].row] = rows[handler[t].row]
        BY <1>5, <4>1 DEF HandlerSound, RowSteps, Steps
      <4> QED
        BY <1>5, <4>1, <4>2, <4>3 DEF Has
    <3> QED
      BY <3>1, <3>2
  <2> QED
    BY <2>2, <2>4, <2>6, <2>9, <2>10 DEF Undisturbed
<1> QED
  BY <1>6, <1>7, <1>8, <1>9, <1>11 DEF MpesaInv

\* A handler moves on or ends, and no row and no credit changes.
LEMMA MoveStep ==
    ASSUME MpesaInv, NEW s \in Handlers, NEW h \in HandlerType, handler' = [handler EXCEPT ![s] = h],
           UNCHANGED <<outcome, rows, credits, landed>>, deaths' \in 0 .. MaxDeaths,
           \/ h = IdleHandler
           \/ h.at \in {"post", "receipt"} /\ h.pay = handler[s].pay /\ HandlerSound(s)',
           h.at = "receipt" /\ h.pay \notin shared =>
               ~ Has(h.pay) /\ h.student = rows[h.row].student,
           shared \subseteq shared', shared' \subseteq Payments,
           handler[s].at = "mark" => handler[s].pay \in shared'
    PROVE  MpesaInv'
<1>1. handler \in [Handlers -> HandlerType]
  BY DEF MpesaInv, MpesaTypeOK
<1>2. handler'[s] = h /\ handler' \in [Handlers -> HandlerType] /\ \A t \in Handlers : t # s => handler'[t] = handler[t]
  BY <1>1
<1>3. MpesaTypeOK'
  BY <1>2 DEF MpesaInv, MpesaTypeOK
<1>4. (\A r \in DOMAIN rows' : RowSound(r)') /\ \A c \in DOMAIN credits' : CreditSound(c)'
  BY DEF MpesaInv, RowSound, CreditSound, Has
<1>5. ASSUME NEW t \in Handlers PROVE HandlerSound(t)'
  <2>1. CASE t = s /\ h = IdleHandler
    BY <1>2, <2>1 DEF HandlerSound, IdleHandler, RowSteps
  <2>2. CASE t = s /\ h # IdleHandler
    BY <2>2
  <2>3. CASE t # s
    <3>1. HandlerSound(t)
      BY DEF MpesaInv
    <3> QED
      BY <1>2, <2>3, <3>1 DEF HandlerSound, Has
  <2> QED
    BY <2>1, <2>2, <2>3
<1>6. ASSUME NEW p \in Payments \ shared' PROVE Undisturbed(p)'
  <2>1. Undisturbed(p) /\ p \in Payments /\ p # Nobody
    BY MpesaAssumption DEF MpesaInv, Payments
  <2>2. OneRow(p)' /\ OneCredit(p)'
    BY <2>1 DEF Undisturbed, OneRow, OneCredit
  <2>3. \A t \in Handlers : handler'[t].pay = p => handler[t].pay = p /\ (t # s => handler'[t] = handler[t])
    BY <1>2, <2>1 DEF IdleHandler
  <2>4. OneHandler(p)'
    BY <2>1, <2>3 DEF Undisturbed, OneHandler
  <2>5. \A t \in Handlers : handler[t].pay = p /\ handler[t].at = "mark" => handler'[t] = handler[t]
    BY <1>2
  <2>6. ShownOrMarking(p)'
    BY <2>1, <2>5 DEF Undisturbed, ShownOrMarking
  <2>7. FirstClaims(p)'
    <3> SUFFICES ASSUME NEW t \in Handlers, handler'[t].pay = p
                 PROVE  /\ handler'[t].at \in {"c2bInsert", "stkInsert"} => \A q \in DOMAIN rows' : rows'[q].pay # p
                        /\ handler'[t].at \in Claims => ~ Has(p)'
                        /\ handler'[t].at = "receipt" => handler'[t].student = rows'[handler'[t].row].student
      BY DEF FirstClaims
    <3>1. CASE t = s
      BY <1>2, <2>1, <3>1 DEF Has, IdleHandler, Claims
    <3>2. CASE t # s
      <4>1. handler[t].pay = p /\ handler'[t] = handler[t]
        BY <2>3, <3>2
      <4> QED
        BY <2>1, <4>1 DEF Undisturbed, FirstClaims, Has
    <3> QED
      BY <3>1, <3>2
  <2> QED
    BY <2>2, <2>4, <2>6, <2>7 DEF Undisturbed
<1> QED
  BY <1>3, <1>4, <1>5, <1>6 DEF MpesaInv
\* A receipt is posted on what the row said when it was read.
LEMMA CreditStep ==
    ASSUME MpesaInv, NEW s \in Handlers, handler[s].at = "receipt",
           credits' = Append(credits, [row |-> handler[s].row, pay |-> handler[s].pay, student |-> handler[s].student]),
           Go(s, "mark"), UNCHANGED <<outcome, rows, landed, deaths, shared>>
    PROVE  MpesaInv'
<1>1. /\ handler \in [Handlers -> HandlerType] /\ handler[s] \in HandlerType /\ rows \in Seq(RowType)
      /\ credits \in Seq(CreditType)
  BY DEF MpesaInv, MpesaTypeOK
<1>2. PICK h : h = [handler[s] EXCEPT !.at = "mark"]
  OBVIOUS
<1>3. /\ h \in HandlerType /\ h.at = "mark" /\ h.pay = handler[s].pay /\ h.row = handler[s].row
      /\ handler'[s] = h /\ handler' \in [Handlers -> HandlerType] /\ \A t \in Handlers : t # s => handler'[t] = handler[t]
  BY <1>1, <1>2 DEF Go, HandlerType, Steps
<1>4. /\ HandlerSound(s) /\ handler[s].pay \in Payments /\ outcome[handler[s].pay] = "paid"
      /\ handler[s].row \in DOMAIN rows /\ rows[handler[s].row].pay = handler[s].pay /\ handler[s].student \in Students
  BY DEF MpesaInv, HandlerSound, RowSteps, Steps
<1>5. PICK new : new = [row |-> handler[s].row, pay |-> handler[s].pay, student |-> handler[s].student]
  OBVIOUS
<1>6. new \in CreditType /\ new.row = handler[s].row /\ new.pay = handler[s].pay /\ new.student = handler[s].student
  BY <1>1, <1>4, <1>5 DEF CreditType
<1>7. PICK n : n = Len(credits) + 1
  OBVIOUS
<1>8. /\ credits' \in Seq(CreditType) /\ DOMAIN credits' = DOMAIN credits \cup {n} /\ n \notin DOMAIN credits
      /\ credits'[n] = new /\ \A c \in DOMAIN credits : credits'[c] = credits[c]
  BY <1>1, <1>5, <1>6, <1>7
<1>9. MpesaTypeOK'
  BY <1>3, <1>8 DEF MpesaInv, MpesaTypeOK
<1>10. \A p : Has(p)' <=> Has(p) \/ p = handler[s].pay
  BY <1>6, <1>8 DEF Has
<1>11. \A r \in DOMAIN rows' : RowSound(r)'
  BY <1>10 DEF MpesaInv, RowSound
<1>12. \A c \in DOMAIN credits' : CreditSound(c)'
  BY <1>4, <1>6, <1>8 DEF MpesaInv, CreditSound
<1>13. ASSUME NEW t \in Handlers PROVE HandlerSound(t)'
  <2>1. CASE t = s
    BY <1>3, <1>4, <1>10, <2>1 DEF HandlerSound
  <2>2. CASE t # s
    <3>1. HandlerSound(t)
      BY DEF MpesaInv
    <3> QED
      BY <1>3, <1>10, <2>2, <3>1 DEF HandlerSound
  <2> QED
    BY <2>1, <2>2
<1>14. ASSUME NEW p \in Payments \ shared' PROVE Undisturbed(p)'
  <2>1. Undisturbed(p) /\ p \in Payments
    BY DEF MpesaInv
  <2>2. OneRow(p)'
    BY <2>1 DEF Undisturbed, OneRow
  <2>3. \A t \in Handlers : handler'[t].pay = handler[t].pay
    BY <1>3
  <2>4. OneHandler(p)'
    BY <2>1, <2>3 DEF Undisturbed, OneHandler
  <2>5. p = handler[s].pay => ~ Has(p) /\ handler[s].student = rows[handler[s].row].student
    BY <2>1 DEF Undisturbed, FirstClaims, Claims
  <2>6. OneCredit(p)'
    BY <1>6, <1>8, <2>1, <2>5 DEF Undisturbed, OneCredit, Has
  <2>7. ShownOrMarking(p)'
    <3> SUFFICES ASSUME NEW c \in DOMAIN credits', credits'[c].pay = p
                 PROVE  /\ credits'[c].student = rows'[credits'[c].row].student
                        /\ \/ rows'[credits'[c].row].status = "POSTED"
                           \/ \E t \in Handlers : handler'[t].pay = p /\ handler'[t].at = "mark"
      BY DEF ShownOrMarking
    <3>1. CASE c = n
      BY <1>3, <1>6, <1>8, <2>5, <3>1
    <3>2. CASE c \in DOMAIN credits
      <4>1. credits'[c] = credits[c] /\ credits[c].pay = p
        BY <1>8, <3>2
      <4>2. \A t \in Handlers : handler[t].at = "mark" => handler'[t] = handler[t]
        BY <1>3
      <4> QED
        BY <2>1, <3>2, <4>1, <4>2 DEF Undisturbed, ShownOrMarking
    <3> QED
      BY <1>8, <3>1, <3>2
  <2>8. FirstClaims(p)'
    <3> SUFFICES ASSUME NEW t \in Handlers, handler'[t].pay = p
                 PROVE  /\ handler'[t].at \in {"c2bInsert", "stkInsert"} => \A q \in DOMAIN rows' : rows'[q].pay # p
                        /\ handler'[t].at \in Claims => ~ Has(p)'
                        /\ handler'[t].at = "receipt" => handler'[t].student = rows'[handler'[t].row].student
      BY DEF FirstClaims
    <3>1. CASE t = s
      BY <1>3, <3>1 DEF Claims
    <3>2. CASE t # s
      <4>1. handler[t].pay = p /\ handler'[t] = handler[t] /\ p # handler[s].pay
        BY <1>3, <2>1, <2>3, <3>2 DEF Undisturbed, OneHandler
      <4> QED
        BY <1>10, <2>1, <4>1 DEF Undisturbed, FirstClaims
    <3> QED
      BY <3>1, <3>2
  <2> QED
    BY <2>2, <2>4, <2>6, <2>7, <2>8 DEF Undisturbed
<1> QED
  BY <1>9, <1>11, <1>12, <1>13, <1>14 DEF MpesaInv

\* Time passes over rows that are still PENDING.
LEMMA AgeStep ==
    ASSUME MpesaInv, rows' \in Seq(RowType), DOMAIN rows' = DOMAIN rows, Len(rows') = Len(rows),
           \A r \in DOMAIN rows : /\ rows'[r].pay = rows[r].pay /\ rows'[r].student = rows[r].student
                                  /\ \/ rows'[r].status = rows[r].status
                                     \/ rows[r].status = "PENDING" /\ rows'[r].status = "FAILED",
           UNCHANGED <<outcome, credits, landed, deaths, handler, shared>>
    PROVE  MpesaInv'
<1>1. MpesaTypeOK'
  BY DEF MpesaInv, MpesaTypeOK
<1>2. \A r \in DOMAIN rows' : RowSound(r)'
  BY DEF MpesaInv, RowSound, Has
<1>3. \A c \in DOMAIN credits' : CreditSound(c)'
  BY DEF MpesaInv, CreditSound
<1>4. ASSUME NEW s \in Handlers PROVE HandlerSound(s)'
  <2>1. HandlerSound(s)
    BY DEF MpesaInv
  <2> QED
    BY <2>1 DEF HandlerSound, Has
<1>5. ASSUME NEW p \in Payments \ shared' PROVE Undisturbed(p)'
  <2>1. Undisturbed(p)
    BY DEF MpesaInv
  <2>2. OneHandler(p)' /\ OneRow(p)' /\ OneCredit(p)'
    BY <2>1 DEF Undisturbed, OneHandler, OneRow, OneCredit
  <2>3. ShownOrMarking(p)'
    BY <2>1 DEF MpesaInv, CreditSound, Undisturbed, ShownOrMarking
  <2>4. \A s \in Handlers : handler[s].at = "receipt" => handler[s].row \in DOMAIN rows
    BY DEF MpesaInv, HandlerSound, RowSteps, Steps
  <2>5. FirstClaims(p)'
    BY <2>1, <2>4 DEF Undisturbed, FirstClaims, Has
  <2> QED
    BY <2>2, <2>3, <2>5 DEF Undisturbed
<1> QED
  BY <1>1, <1>2, <1>3, <1>4, <1>5 DEF MpesaInv

-----------------------------------------------------------------------------
\* A handler that starts on a row works on the payment the row is of.
LEMMA StartOnRow ==
    ASSUME MpesaInv, NEW s \in Handlers, NEW r \in DOMAIN rows, NEW step \in {"callback", "query", "post", "allocate", "cancel"},
           FreeHandler(s), StartOn(s, step, r), UNCHANGED <<outcome, rows, credits, landed, deaths>>,
           step \in Claims => rows[r].status # "POSTED",
           step = "callback" => rows[r].pay \in Pushes
    PROVE  MpesaInv'
<1>1. PICK h : h = [IdleHandler EXCEPT !.at = step, !.row = r, !.pay = rows[r].pay]
  OBVIOUS
<1>2. /\ rows[r].pay \in Payments /\ outcome[rows[r].pay] # "none" /\ r \in Nat
      /\ handler \in [Handlers -> HandlerType]
  <2>1. rows[r] \in RowType /\ RowSound(r)
    BY MpesaTyped DEF MpesaInv
  <2>2. r \in Nat /\ handler \in [Handlers -> HandlerType]
    BY DEF MpesaInv, MpesaTypeOK
  <2> QED
    BY <2>1, <2>2 DEF RowSound, RowType
<1>3. h \in HandlerType /\ h.at = step /\ h.row = r /\ h.pay = rows[r].pay
  BY <1>1, <1>2 DEF IdleHandler, HandlerType, Steps
<1>4. /\ handler' = [handler EXCEPT ![s] = h] /\ handler[s].at = "idle"
      /\ shared' = IF AtWorkOn(h.pay) THEN shared \cup {h.pay} ELSE shared
  BY <1>1, <1>3 DEF StartOn, FreeHandler, Noted
<1>5. handler'[s] = h
  BY <1>2, <1>4
<1>6. HandlerSound(s)'
  BY <1>2, <1>3, <1>5 DEF HandlerSound
<1>7. shared' \in {shared, shared \cup {h.pay}} /\ (h.pay \in shared' \/ ~ AtWorkOn(h.pay))
  BY <1>4
<1>8. outcome' \in [Payments -> {"none", "asked", "paid", "declined"}] /\ landed' \subseteq Pushes
  BY DEF MpesaInv, MpesaTypeOK
<1>9. h.at \notin {"idle", "receipt", "mark"} /\ h.at \notin {"c2bInsert", "stkInsert"}
      /\ (h.at \in Claims => rows[h.row].status # "POSTED")
  BY <1>3
<1> QED
  BY <1>2, <1>3, <1>4, <1>6, <1>7, <1>8, <1>9, StartStep

LEMMA BeginSteps ==
    ASSUME MpesaInv, NEW s \in Handlers, NEW p \in Payments, Confirmation(s, p) \/ StkPush(s, p)
    PROVE  MpesaInv'
<1>1. PICK step : step = IF Confirmation(s, p) THEN "c2bInsert" ELSE "stkInsert"
  OBVIOUS
<1>2. PICK h : h = [IdleHandler EXCEPT !.at = step, !.pay = p]
  OBVIOUS
<1>3. h \in HandlerType /\ h.at = step /\ h.pay = p /\ step \in {"c2bInsert", "stkInsert"}
  BY <1>1, <1>2 DEF IdleHandler, HandlerType, Steps
<1>4. handler' = [handler EXCEPT ![s] = h] /\ handler[s].at = "idle" /\ UNCHANGED <<rows, credits, deaths, landed>>
  BY <1>1, <1>2 DEF Confirmation, StkPush, FreeHandler
<1>5. /\ handler \in [Handlers -> HandlerType] /\ landed' \subseteq Pushes
      /\ outcome \in [Payments -> {"none", "asked", "paid", "declined"}]
  BY <1>4 DEF MpesaInv, MpesaTypeOK
<1>6. handler'[s] = h
  BY <1>4, <1>5
<1>7. CASE Confirmation(s, p)
  <2>1. /\ p \in C2B /\ outcome[p] = "paid" /\ outcome' = outcome /\ \A r \in DOMAIN rows : rows[r].pay # p
        /\ shared' = IF AtWorkOn(p) THEN shared \cup {p} ELSE shared
    BY <1>7 DEF Confirmation, Noted
  <2>2. HandlerSound(s)'
    BY <1>1, <1>3, <1>6, <1>7, <2>1 DEF HandlerSound, RowSteps
  <2>3. /\ shared' \in {shared, shared \cup {h.pay}} /\ (h.pay \in shared' \/ ~ AtWorkOn(h.pay)) /\ h.pay \in Payments
        /\ h.at \notin {"idle", "receipt", "mark"} /\ h.at \notin Claims /\ \A r \in DOMAIN rows : rows[r].pay # h.pay
    BY <1>3, <2>1 DEF Claims
  <2> QED
    BY <1>3, <1>4, <1>5, <2>1, <2>2, <2>3, StartStep
<1>8. CASE ~ Confirmation(s, p) /\ StkPush(s, p)
  <2>1. /\ p \in Pushes /\ outcome[p] = "none" /\ outcome' = [outcome EXCEPT ![p] = "asked"] /\ shared' = shared
    BY <1>8 DEF StkPush
  <2>2. /\ outcome' \in [Payments -> {"none", "asked", "paid", "declined"}] /\ outcome'[p] = "asked"
        /\ \A q \in Payments : /\ outcome[q] = "paid" => outcome'[q] = "paid"
                               /\ outcome[q] # "none" => outcome'[q] # "none"
    BY <1>5, <2>1
  <2>3. HandlerSound(s)'
    BY <1>1, <1>3, <1>6, <1>8, <2>1, <2>2 DEF HandlerSound, RowSteps
  <2>4. \A r \in DOMAIN rows : rows[r].pay # p
    BY <2>1 DEF MpesaInv, RowSound
  <2>5. ~ AtWorkOn(p)
    <3>1. p # Nobody
      BY MpesaAssumption DEF Payments
    <3> QED
      BY <2>1, <3>1 DEF MpesaInv, HandlerSound, AtWorkOn
  <2>6. /\ h.at \notin {"idle", "receipt", "mark"} /\ h.at \notin Claims /\ \A r \in DOMAIN rows : rows[r].pay # h.pay
        /\ ~ AtWorkOn(h.pay) /\ h.pay \in Payments
    BY <1>3, <2>4, <2>5 DEF Claims
  <2> QED
    BY <1>3, <1>4, <1>5, <2>1, <2>2, <2>3, <2>6, StartStep
<1> QED
  BY <1>7, <1>8
LEMMA InsertSteps ==
    ASSUME MpesaInv, NEW s \in Handlers, C2bInsert(s) \/ StkInsert(s)
    PROVE  MpesaInv'
<1>1. /\ handler \in [Handlers -> HandlerType] /\ handler[s] \in HandlerType /\ HandlerSound(s) /\ rows \in Seq(RowType)
  BY DEF MpesaInv, MpesaTypeOK
<1>2. CASE C2bInsert(s)
  <2>1. PICK match \in Students \cup {Nobody} :
           rows' = Append(rows, [pay |-> handler[s].pay, status |-> "RECEIVED", student |-> match,
                                 receipt |-> TRUE, old |-> FALSE])
    BY <1>2 DEF C2bInsert
  <2>2. PICK new : new = [pay |-> handler[s].pay, status |-> "RECEIVED", student |-> match,
                          receipt |-> TRUE, old |-> FALSE]
    OBVIOUS
  <2>3. /\ handler[s].at = "c2bInsert" /\ Len(rows) < MaxRows /\ handler[s].pay \in Payments
        /\ outcome[handler[s].pay] = "paid" /\ UNCHANGED <<outcome, credits, landed, deaths, shared>>
        /\ handler' = [handler EXCEPT ![s] = [@ EXCEPT !.at = "post", !.row = Len(rows) + 1]]
    BY <1>1, <1>2 DEF C2bInsert, HandlerSound
  <2>4. new \in RowType /\ new.pay = handler[s].pay /\ new.status = "RECEIVED"
    BY <2>2, <2>3 DEF RowType, Statuses
  <2>5. PICK h : h = [handler[s] EXCEPT !.at = "post", !.row = Len(rows) + 1]
    OBVIOUS
  <2>6. h \in HandlerType /\ h.at = "post" /\ h.row = Len(rows) + 1 /\ h.pay = handler[s].pay
    <3>1. Len(rows) + 1 \in Nat
      BY <1>1
    <3> QED
      BY <1>1, <2>5, <3>1 DEF HandlerType, Steps
  <2>7. handler' = [handler EXCEPT ![s] = h] /\ rows' = Append(rows, new)
    BY <2>1, <2>2, <2>3, <2>5
  <2> QED
    BY <2>3, <2>4, <2>6, <2>7, InsertStep
<1>3. CASE StkInsert(s)
  <2>1. PICK st \in Students :
           rows' = Append(rows, [pay |-> handler[s].pay, status |-> "PENDING", student |-> st,
                                 receipt |-> FALSE, old |-> FALSE])
    BY <1>3 DEF StkInsert
  <2>2. PICK new : new = [pay |-> handler[s].pay, status |-> "PENDING", student |-> st,
                          receipt |-> FALSE, old |-> FALSE]
    OBVIOUS
  <2>3. /\ handler[s].at = "stkInsert" /\ Len(rows) < MaxRows /\ handler[s].pay \in Payments
        /\ UNCHANGED <<outcome, credits, landed, deaths, shared>>
        /\ handler' = [handler EXCEPT ![s] = IdleHandler]
    BY <1>1, <1>3 DEF StkInsert, HandlerSound, EndHandler
  <2>4. new \in RowType /\ new.pay = handler[s].pay /\ new.status = "PENDING"
    BY <2>2, <2>3 DEF RowType, Statuses
  <2>5. IdleHandler \in HandlerType /\ rows' = Append(rows, new)
    BY <2>1, <2>2 DEF IdleHandler, HandlerType, Steps
  <2> QED
    BY <2>3, <2>4, <2>5, InsertStep
<1> QED
  BY <1>2, <1>3

LEMMA WriteSteps ==
    ASSUME MpesaInv, NEW s \in Handlers,
           CallbackWrite(s) \/ QueryWrite(s) \/ AllocateWrite(s) \/ CancelWrite(s) \/ Mark(s)
    PROVE  MpesaInv'
<1>1. PICK r : r = handler[s].row
  OBVIOUS
<1>2. handler[s].at \in RowSteps /\ (handler[s].at \in Claims \/ handler[s].at = "mark")
  BY DEF CallbackWrite, QueryWrite, AllocateWrite, CancelWrite, Mark, RowSteps, Steps, Claims
<1>3. /\ handler \in [Handlers -> HandlerType] /\ handler[s] \in HandlerType /\ HandlerSound(s) /\ rows \in Seq(RowType)
      /\ landed \subseteq Pushes
  BY DEF MpesaInv, MpesaTypeOK
<1>4. /\ r \in DOMAIN rows /\ rows[r].pay = handler[s].pay /\ rows[r] \in RowType /\ RowSound(r)
  BY <1>1, <1>2, <1>3, MpesaTyped DEF MpesaInv, HandlerSound
<1>5. PICK post : post = [handler[s] EXCEPT !.at = "post"]
  OBVIOUS
<1>6. post \in HandlerType /\ IdleHandler \in HandlerType
  BY <1>3, <1>5 DEF HandlerType, IdleHandler, Steps
<1>7. ASSUME NEW new \in RowType, rows' = [rows EXCEPT ![r] = new], new.pay = rows[r].pay,
             new.status = "RECEIVED" => outcome[new.pay] = "paid",
             new.status = "POSTED" => Has(new.pay),
             handler' = [handler EXCEPT ![s] = post] \/ handler' = [handler EXCEPT ![s] = IdleHandler],
             landed' \subseteq Pushes, UNCHANGED <<outcome, credits, deaths, shared>>,
             handler[s].at = "mark" => new.status = "POSTED" /\ new.student = rows[r].student
      PROVE  MpesaInv'
  <2>1. PICK h \in HandlerType : /\ h = IdleHandler \/ h = [handler[s] EXCEPT !.at = "post"]
                                /\ handler' = [handler EXCEPT ![s] = h]
    BY <1>5, <1>6, <1>7
  <2>2. handler[s].at \in Claims \/ (handler[s].at = "mark" /\ new.status = "POSTED" /\ new.student = rows[r].student)
    BY <1>2, <1>7
  <2>3. new.pay = handler[s].pay
    BY <1>4, <1>7
  <2> QED
    BY <1>1, <1>2, <1>7, <2>1, <2>2, <2>3, WriteStep
<1>8. CASE CallbackWrite(s)
  <2>1. handler[s].at = "callback" /\ UNCHANGED <<outcome, credits, deaths, shared>>
    BY <1>8 DEF CallbackWrite
  <2>2. CASE outcome[handler[s].pay] = "paid" /\ rows' = [rows EXCEPT ![r].status = "RECEIVED", ![r].receipt = TRUE]
             /\ landed' = landed \cup {handler[s].pay} /\ Go(s, "post")
    <3>1. PICK new : new = [rows[r] EXCEPT !.status = "RECEIVED", !.receipt = TRUE]
      OBVIOUS
    <3>2. new \in RowType /\ new.pay = rows[r].pay /\ new.status = "RECEIVED"
      BY <1>4, <3>1 DEF RowType, Statuses
    <3>3. rows' = [rows EXCEPT ![r] = new]
      BY <1>3, <1>4, <2>2, <3>1
    <3>4. landed' \subseteq Pushes
      BY <1>3, <2>1, <2>2 DEF HandlerSound
    <3>5. handler' = [handler EXCEPT ![s] = post] /\ new.status # "POSTED" /\ outcome[new.pay] = "paid"
      BY <1>3, <1>4, <1>5, <2>2, <3>2 DEF Go
    <3> QED
      BY <1>7, <2>1, <3>2, <3>3, <3>4, <3>5
  <2>3. CASE rows' = [rows EXCEPT ![r].status = "FAILED"] /\ EndHandler(s) /\ UNCHANGED landed
    <3>1. PICK new : new = [rows[r] EXCEPT !.status = "FAILED"]
      OBVIOUS
    <3>2. new \in RowType /\ new.pay = rows[r].pay /\ new.status = "FAILED"
      BY <1>4, <3>1 DEF RowType, Statuses
    <3>3. rows' = [rows EXCEPT ![r] = new]
      BY <1>3, <1>4, <2>3, <3>1
    <3> QED
      BY <1>3, <1>7, <2>1, <2>3, <3>2, <3>3 DEF EndHandler
  <2> QED
    BY <1>1, <1>8, <2>2, <2>3 DEF CallbackWrite
<1>9. CASE QueryWrite(s)
  <2>1. /\ handler[s].at = "query" /\ UNCHANGED <<outcome, credits, landed, deaths, shared>>
        /\ handler' = [handler EXCEPT ![s] = post] \/ handler' = [handler EXCEPT ![s] = IdleHandler]
    BY <1>5, <1>9 DEF QueryWrite, Go, EndHandler
  <2>2. CASE rows[r].status = "PENDING"
    <3>1. PICK st \in {"RECEIVED", "FAILED"} : /\ st = IF outcome[handler[s].pay] = "paid" THEN "RECEIVED" ELSE "FAILED"
                                              /\ rows' = [rows EXCEPT ![r].status = st]
      BY <1>1, <1>9, <2>2 DEF QueryWrite
    <3>2. PICK new : new = [rows[r] EXCEPT !.status = st]
      OBVIOUS
    <3>3. new \in RowType /\ new.pay = rows[r].pay /\ new.status = st
      BY <1>4, <3>2 DEF RowType, Statuses
    <3>4. rows' = [rows EXCEPT ![r] = new]
      BY <1>3, <1>4, <3>1, <3>2
    <3>5. new.status = "RECEIVED" => outcome[new.pay] = "paid"
      BY <1>4, <3>1, <3>3
    <3> QED
      BY <1>3, <1>7, <2>1, <3>1, <3>3, <3>4, <3>5
  <2>3. CASE rows[r].status # "PENDING"
    <3>1. rows' = [rows EXCEPT ![r] = rows[r]]
      BY <1>1, <1>3, <1>4, <1>9, <2>3 DEF QueryWrite
    <3>2. (rows[r].status = "RECEIVED" => outcome[rows[r].pay] = "paid") /\ (rows[r].status = "POSTED" => Has(rows[r].pay))
      BY <1>4 DEF RowSound
    <3> QED
      BY <1>3, <1>4, <1>7, <2>1, <3>1, <3>2
  <2> QED
    BY <2>2, <2>3
<1>10. CASE AllocateWrite(s)
  <2>1. handler[s].at = "allocate" /\ Go(s, "post") /\ UNCHANGED <<outcome, credits, landed, deaths, shared>>
    BY <1>10 DEF AllocateWrite
  <2>2. PICK st \in Students : rows' = [rows EXCEPT ![r].student = st]
    BY <1>1, <1>10 DEF AllocateWrite
  <2>3. PICK new : new = [rows[r] EXCEPT !.student = st]
    OBVIOUS
  <2>4. new \in RowType /\ new.pay = rows[r].pay /\ new.status = rows[r].status
    BY <1>4, <2>3 DEF RowType
  <2>5. rows' = [rows EXCEPT ![r] = new]
    BY <1>3, <1>4, <2>2, <2>3
  <2>6. (rows[r].status = "RECEIVED" => outcome[rows[r].pay] = "paid") /\ (rows[r].status = "POSTED" => Has(rows[r].pay))
    BY <1>4 DEF RowSound
  <2> QED
    BY <1>3, <1>5, <1>7, <2>1, <2>4, <2>5, <2>6 DEF Go
<1>11. CASE CancelWrite(s)
  <2>1. PICK new : new = [rows[r] EXCEPT !.status = "CANCELLED"]
    OBVIOUS
  <2>2. new \in RowType /\ new.pay = rows[r].pay /\ new.status = "CANCELLED"
    BY <1>4, <2>1 DEF RowType, Statuses
  <2>3. rows' = [rows EXCEPT ![r] = new]
    BY <1>1, <1>3, <1>4, <1>11, <2>1 DEF CancelWrite
  <2> QED
    BY <1>3, <1>7, <1>11, <2>2, <2>3 DEF CancelWrite, EndHandler
<1>12. CASE Mark(s)
  <2>1. PICK new : new = [rows[r] EXCEPT !.status = "POSTED"]
    OBVIOUS
  <2>2. new \in RowType /\ new.pay = rows[r].pay /\ new.status = "POSTED" /\ new.student = rows[r].student
    BY <1>4, <2>1 DEF RowType, Statuses
  <2>3. rows' = [rows EXCEPT ![r] = new]
    BY <1>1, <1>3, <1>4, <1>12, <2>1 DEF Mark
  <2>4. Has(new.pay)
    BY <1>3, <1>4, <1>12, <2>2 DEF Mark, HandlerSound
  <2> QED
    BY <1>3, <1>7, <1>12, <2>2, <2>3, <2>4 DEF Mark, EndHandler
<1> QED
  BY <1>8, <1>9, <1>10, <1>11, <1>12

LEMMA EndStep ==
    ASSUME MpesaInv, NEW s \in Handlers, EndHandler(s), UNCHANGED <<outcome, rows, credits, landed>>,
           deaths' \in 0 .. MaxDeaths, shared \subseteq shared', shared' \subseteq Payments,
           handler[s].at = "mark" => handler[s].pay \in shared'
    PROVE  MpesaInv'
<1>1. IdleHandler \in HandlerType /\ IdleHandler.at = "idle"
  BY DEF HandlerType, IdleHandler, Steps
<1> QED
  BY <1>1, MoveStep DEF EndHandler

LEMMA PostSteps ==
    ASSUME MpesaInv, NEW s \in Handlers, PostRead(s) \/ PostReceipt(s) \/ HandlerDies(s)
    PROVE  MpesaInv'
<1>1. /\ handler \in [Handlers -> HandlerType] /\ handler[s] \in HandlerType /\ HandlerSound(s) /\ rows \in Seq(RowType)
      /\ deaths \in 0 .. MaxDeaths /\ shared \subseteq Payments
  BY DEF MpesaInv, MpesaTypeOK
<1>2. CASE PostRead(s)
  <2>1. handler[s].at = "post" /\ UNCHANGED <<outcome, rows, credits, landed, deaths, shared>>
    BY <1>2 DEF PostRead
  <2>2. CASE EndHandler(s)
    BY <1>1, <2>1, <2>2, EndStep
  <2>3. PICK r : r = handler[s].row
    OBVIOUS
  <2>4. CASE /\ rows[r].status = "RECEIVED" /\ rows[r].student # Nobody
             /\ handler' = [handler EXCEPT ![s] = [@ EXCEPT !.at = "receipt", !.student = rows[r].student]]
    <3>1. r \in DOMAIN rows /\ rows[r].pay = handler[s].pay /\ rows[r] \in RowType /\ RowSound(r)
      BY <1>1, <2>1, <2>3, MpesaTyped DEF MpesaInv, HandlerSound, RowSteps, Steps
    <3>2. PICK h : h = [handler[s] EXCEPT !.at = "receipt", !.student = rows[r].student]
      OBVIOUS
    <3>3. /\ h \in HandlerType /\ h.at = "receipt" /\ h.pay = handler[s].pay /\ h.row = r
          /\ h.student = rows[r].student /\ h.student \in Students
      BY <1>1, <2>3, <2>4, <3>1, <3>2 DEF HandlerType, Steps, RowType
    <3>4. handler' = [handler EXCEPT ![s] = h] /\ handler'[s] = h
      BY <1>1, <2>4, <3>2
    <3>5. HandlerSound(s)'
      BY <1>1, <2>1, <2>4, <3>1, <3>3, <3>4 DEF HandlerSound, RowSound, RowSteps, Steps
    <3>6. ASSUME h.pay \notin shared PROVE ~ Has(h.pay)
      <4> SUFFICES ASSUME NEW c \in DOMAIN credits, credits[c].pay = h.pay PROVE FALSE
        BY DEF Has
      <4>1. Undisturbed(h.pay) /\ credits[c].row \in DOMAIN rows /\ rows[credits[c].row].pay = h.pay
        BY <1>1, <2>1, <3>3, <3>6 DEF MpesaInv, HandlerSound, CreditSound
      <4>2. credits[c].row = r
        BY <3>1, <3>3, <4>1 DEF Undisturbed, OneRow
      <4>3. PICK t \in Handlers : handler[t].pay = h.pay /\ handler[t].at = "mark"
        BY <2>4, <4>1, <4>2 DEF Undisturbed, ShownOrMarking
      <4> QED
        BY <2>1, <3>3, <4>1, <4>3 DEF Undisturbed, OneHandler
    <3> QED
      BY <1>1, <2>1, <3>3, <3>4, <3>5, <3>6, MoveStep
  <2> QED
    BY <1>2, <2>2, <2>3, <2>4 DEF PostRead
<1>3. CASE PostReceipt(s)
  <2>1. handler[s].at = "receipt" /\ UNCHANGED <<outcome, rows, landed, deaths, shared>>
    BY <1>3 DEF PostReceipt
  <2>2. CASE EndHandler(s) /\ UNCHANGED credits
    BY <1>1, <2>1, <2>2, EndStep
  <2> QED
    BY <1>3, <2>1, <2>2, CreditStep DEF PostReceipt
<1>4. CASE HandlerDies(s)
  <2>1. /\ EndHandler(s) /\ UNCHANGED <<outcome, rows, credits, landed>> /\ deaths < MaxDeaths /\ deaths' = deaths + 1
        /\ shared' = shared \cup ({handler[s].pay} \cap Payments)
    BY <1>4 DEF HandlerDies
  <2>2. deaths' \in 0 .. MaxDeaths
    BY <1>1, <2>1, MpesaAssumption
  <2>3. handler[s].at = "mark" => handler[s].pay \in shared'
    BY <1>1, <2>1 DEF HandlerSound
  <2> QED
    BY <1>1, <2>1, <2>2, <2>3, EndStep
<1> QED
  BY <1>2, <1>3, <1>4

LEMMA AgeSteps ==
    ASSUME MpesaInv, ExpirePushes \/ \E r \in RowIds : GrowOld(r)
    PROVE  MpesaInv'
<1>1. rows \in Seq(RowType) /\ \A q \in DOMAIN rows : rows[q] \in RowType
  BY MpesaTyped DEF MpesaInv, MpesaTypeOK
<1>2. CASE ExpirePushes
  <2>1. PICK dead : dead = {r \in DOMAIN rows : rows[r].status = "PENDING" /\ rows[r].old}
    OBVIOUS
  <2>2. /\ rows' = [r \in DOMAIN rows |-> IF r \in dead THEN [rows[r] EXCEPT !.status = "FAILED"] ELSE rows[r]]
        /\ UNCHANGED <<outcome, credits, landed, deaths, handler, shared>>
    BY <1>2, <2>1 DEF ExpirePushes
  <2>3. \A r \in DOMAIN rows : [rows[r] EXCEPT !.status = "FAILED"] \in RowType
    BY <1>1 DEF RowType, Statuses
  <2>4. \A r \in DOMAIN rows : rows'[r] \in RowType
    BY <1>1, <2>2, <2>3
  <2>5. rows' \in Seq(RowType) /\ DOMAIN rows' = DOMAIN rows /\ Len(rows') = Len(rows)
    BY <1>1, <2>2, <2>4
  <2>6. \A r \in DOMAIN rows : /\ rows'[r].pay = rows[r].pay /\ rows'[r].student = rows[r].student
                               /\ \/ rows'[r].status = rows[r].status
                                  \/ rows[r].status = "PENDING" /\ rows'[r].status = "FAILED"
    BY <1>1, <2>1, <2>2 DEF RowType
  <2> QED
    BY <2>2, <2>5, <2>6, AgeStep
<1>3. ASSUME NEW r \in RowIds, GrowOld(r) PROVE MpesaInv'
  <2>1. /\ r \in DOMAIN rows /\ rows' = [rows EXCEPT ![r].old = TRUE]
        /\ UNCHANGED <<outcome, credits, landed, deaths, handler, shared>>
    BY <1>3 DEF GrowOld
  <2>2. PICK new : new = [rows[r] EXCEPT !.old = TRUE]
    OBVIOUS
  <2>3. new \in RowType /\ new.pay = rows[r].pay /\ new.student = rows[r].student /\ new.status = rows[r].status
    BY <1>1, <2>1, <2>2 DEF RowType
  <2>4. rows' = [rows EXCEPT ![r] = new]
    BY <2>1, <2>2
  <2>5. /\ rows' \in Seq(RowType) /\ DOMAIN rows' = DOMAIN rows /\ Len(rows') = Len(rows) /\ rows'[r] = new
        /\ \A q \in DOMAIN rows : q # r => rows'[q] = rows[q]
    <3>1. rows \in Seq(RowType) /\ r \in DOMAIN rows /\ new \in RowType
      BY <1>1, <2>1, <2>3
    <3> QED
      BY <2>4, <3>1
  <2>6. \A q \in DOMAIN rows : rows'[q].pay = rows[q].pay /\ rows'[q].student = rows[q].student /\ rows'[q].status = rows[q].status
    BY <2>3, <2>5
  <2> QED
    BY <2>1, <2>5, <2>6, AgeStep
<1> QED
  BY <1>2, <1>3

LEMMA MpesaStep == MpesaInv /\ [MpesaNext]_mpesaVars => MpesaInv'
<1> SUFFICES ASSUME MpesaInv, [MpesaNext]_mpesaVars PROVE MpesaInv'
  OBVIOUS
<1>1. CASE UNCHANGED mpesaVars
  <2>1. rows' \in Seq(RowType) /\ UNCHANGED <<rows, outcome, credits, landed, deaths, handler, shared>>
    BY <1>1 DEF mpesaVars, MpesaInv, MpesaTypeOK
  <2> QED
    BY <2>1, AgeStep
<1>2. ASSUME NEW p \in Payments, Pay(p) PROVE MpesaInv'
  BY <1>2, PayStep
<1>3. ASSUME NEW s \in Handlers, NEW p \in Payments, Confirmation(s, p) \/ StkPush(s, p) PROVE MpesaInv'
  BY <1>3, BeginSteps
<1>4. ASSUME NEW s \in Handlers, NEW r \in RowIds,
             Callback(s, r) \/ Query(s, r) \/ PersonPosts(s, r) \/ AllocateRow(s, r) \/ CancelRow(s, r)
      PROVE  MpesaInv'
  <2>1. CASE Callback(s, r) /\ rows[r].status # "PENDING"
    <3>1. /\ landed' \subseteq Pushes /\ UNCHANGED <<outcome, rows, credits, deaths, handler, shared>>
      BY <2>1 DEF Callback, MpesaInv, MpesaTypeOK
    <3>2. MpesaTypeOK'
      BY <3>1 DEF MpesaInv, MpesaTypeOK
    <3>3. /\ \A q \in DOMAIN rows' : RowSound(q)'
          /\ \A c \in DOMAIN credits' : CreditSound(c)'
          /\ \A t \in Handlers : HandlerSound(t)'
      BY <3>1 DEF MpesaInv, RowSound, CreditSound, HandlerSound, Has
    <3>4. \A p \in Payments \ shared' : Undisturbed(p)'
      BY <3>1 DEF MpesaInv, Undisturbed, OneHandler, OneRow, OneCredit, ShownOrMarking, FirstClaims, Has
    <3> QED
      BY <3>2, <3>3, <3>4 DEF MpesaInv
  <2>2. CASE ~ (Callback(s, r) /\ rows[r].status # "PENDING")
    <3>1. /\ r \in DOMAIN rows /\ FreeHandler(s) /\ UNCHANGED <<outcome, rows, credits, landed, deaths>>
          /\ \E step \in {"callback", "query", "post", "allocate", "cancel"} :
                /\ StartOn(s, step, r) /\ (step \in Claims => rows[r].status # "POSTED")
                /\ step = "callback" => rows[r].pay \in Pushes
      BY <1>4, <2>2 DEF Callback, Query, PersonPosts, AllocateRow, CancelRow, Claims
    <3> QED
      BY <3>1, StartOnRow
  <2> QED
    BY <2>1, <2>2
<1>5. ASSUME NEW s \in Handlers, HandlerStep(s) \/ HandlerDies(s) PROVE MpesaInv'
  BY <1>5, InsertSteps, WriteSteps, PostSteps DEF HandlerStep
<1>6. CASE ExpirePushes \/ \E r \in RowIds : GrowOld(r)
  BY <1>6, AgeSteps
<1> QED
  BY <1>1, <1>2, <1>3, <1>4, <1>5, <1>6 DEF MpesaNext

LEMMA MpesaInvAlways == MpesaSpec => []MpesaInv
<1>1. MpesaInit => MpesaInv
  BY MpesaInitInv
<1>2. MpesaInv /\ [MpesaNext]_mpesaVars => MpesaInv'
  BY MpesaStep
<1> QED
  BY <1>1, <1>2, PTL DEF MpesaSpec

\* Whatever callbacks, queries, cancellations, hands and time do (lib/mpesa/index.ts): only
\* what the payer paid is credited, and a row that says POSTED has its receipt.
THEOREM PaidIffCreditedAlways == MpesaSpec => []PaidIffCredited
<1>1. MpesaInv => PaidIffCredited
  <2> SUFFICES ASSUME MpesaInv PROVE PaidIffCredited
    OBVIOUS
  <2>1. OnlyPaidCredited
    BY DEF MpesaInv, CreditSound, OnlyPaidCredited
  <2>2. PostedRowsCredited
    BY DEF MpesaInv, RowSound, Has, PostedRowsCredited, CreditsOf
  <2> QED
    BY <2>1, <2>2 DEF MpesaInv, PaidIffCredited
<1> QED
  BY <1>1, MpesaInvAlways, PTL

\* However often a payment is confirmed, queried, refused, allocated and posted by hand: it
\* has one row and is credited at most once, to the student the row shows, unless two
\* handlers worked on it at once or one died on it.
THEOREM RightUnlessDisturbedAlways == MpesaSpec => []RightUnlessDisturbed
<1>1. MpesaInv => RightUnlessDisturbed
  <2> SUFFICES ASSUME MpesaInv PROVE RightUnlessDisturbed
    OBVIOUS
  <2>1. /\ \A r \in DOMAIN rows : rows[r].pay \in Payments
        /\ \A c \in DOMAIN credits : credits[c].pay \in Payments
    BY MpesaTyped DEF MpesaInv, RowType, CreditType
  <2>2. OnceUndisturbed
    BY <2>1 DEF MpesaInv, Undisturbed, OneRow, OneCredit, OnceUndisturbed
  <2>3. ShownAsCreditedUndisturbed
    BY <2>1 DEF MpesaInv, CreditSound, Undisturbed, ShownOrMarking, ShownAsCreditedUndisturbed
  <2> QED
    BY <2>2, <2>3 DEF RightUnlessDisturbed
<1> QED
  BY <1>1, MpesaInvAlways, PTL
============================================================================
