--------------------------- MODULE ServicesProofs ---------------------------
(***************************************************************************)
(* Proofs about the registers the services keep: number series, messages,  *)
(* places, statements, fee runs, leave, students, exits, reminders.  Each  *)
(* part has an inductive invariant of its own, lemmas that every step      *)
(* keeps it, and the theorem that states what the part promises.           *)
(***************************************************************************)
EXTENDS NoSeries, Outbox, Places, BankRec, FeeRun, Leave, Students, Exits, Reminders, SumTheorems,
        FiniteSetTheorems, SequenceTheorems, TLAPS
-----------------------------------------------------------------------------
(* NoSeries: the numbers of a line.                                         *)

\* The first n numbers of a line.
FirstNumbers(l, n) == {First[l] + k * Increment[l] : k \in 0 .. n - 1}
\* The m numbers from number j + 1 on, and the last m up to one of them.
NumbersFrom(l, j, m) == {First[l] + i * Increment[l] : i \in j .. j + m - 1}
NumbersUpTo(l, last, m) == {last - k * Increment[l] : k \in 0 .. m - 1}
FirstAndMore(l, n, j, m) == FirstNumbers(l, n) \cup NumbersFrom(l, j, m)
\* Nothing yet, or one of the first n.
Reached(l, n, last) == last = 0 \/ last \in FirstNumbers(l, n)
NumbersOf(l) == {a.no : a \in {x \in issued : x.line = l}}

\* The numbers on documents are the first so many of the line, and Last No. Used, on file
\* or on screen, is one of them.
SeriesOf(l) ==
    \E n \in Nat : /\ NumbersOf(l) = FirstNumbers(l, n)
                   /\ Reached(l, n, line[l].last)
                   /\ \A f \in form : f.line = l => Reached(l, n, f.last)

\* A line that no stale form put back is ahead of all its numbers and of their dates.
Ahead(l) ==
    \A a \in issued : a.line = l =>
        a.no <= line[l].last /\ (DateOrder => a.date <= line[l].lastDate)

\* Who has drawn holds the lock, and what was drawn is still next.
DrawnSound ==
    /\ \A s \in Sessions : sess[s].pc = "ask" => sess[s].count > 0
    /\ \A s \in Sessions : sess[s].pc = "drawn" =>
          /\ lock = s /\ sess[s].count > 0
          /\ CanDraw(sess[s].line, sess[s].date, sess[s].count)
          /\ sess[s].row = Stamped(sess[s].line, sess[s].date, sess[s].count)

NumbersInv ==
    /\ TypeOK /\ IsFiniteSet(issued) /\ DrawnSound /\ OpenIffRoom
    /\ \A l \in Lines : ~ Exceeds(line[l].last, line[l].ending) /\ SeriesOf(l)
    /\ \A l \in Lines : l \notin overwritten => Ahead(l)
    /\ DatesInOrder /\ NeverTwiceUnlessOverwritten

LEMMA SomeLineType == SomeLine \in Lines /\ Idle \in SessionType /\ Idle.pc = "idle"
BY ConstantsAssumption DEF SomeLine, Idle, SessionType, BlankRow, RowType, Endings

LEMMA NumbersInitInv == Init => NumbersInv
<1> SUFFICES ASSUME Init PROVE NumbersInv
  OBVIOUS
<1>1. \A l \in Lines : /\ line[l] \in RowType /\ line[l].last = 0 /\ line[l].open = TRUE
  BY ConstantsAssumption DEF Init, BlankRow, RowType, Endings
<1>2. TypeOK
  BY <1>1, SomeLineType DEF Init, TypeOK
<1>3. IsFiniteSet(issued) /\ DatesInOrder /\ NeverTwiceUnlessOverwritten
  BY FS_EmptySet DEF Init, DatesInOrder, NeverTwiceUnlessOverwritten
<1>4. DrawnSound
  BY SomeLineType DEF Init, DrawnSound
<1>5. OpenIffRoom
  BY <1>1 DEF OpenIffRoom
<1>6. \A l \in Lines : ~ Exceeds(line[l].last, line[l].ending)
  BY <1>1 DEF Exceeds, RowType, Endings
<1>7. \A l \in Lines : SeriesOf(l) /\ Ahead(l)
  <2> SUFFICES ASSUME NEW l \in Lines PROVE SeriesOf(l) /\ Ahead(l)
    OBVIOUS
  <2>1. NumbersOf(l) = FirstNumbers(l, 0)
    BY DEF Init, NumbersOf, FirstNumbers
  <2>2. Reached(l, 0, line[l].last)
    BY <1>1 DEF Reached
  <2> QED
    BY <2>1, <2>2 DEF Init, SeriesOf, Ahead
<1> QED
  BY <1>2, <1>3, <1>4, <1>5, <1>6, <1>7 DEF NumbersInv

-----------------------------------------------------------------------------
\* Steps of a positive increment keep the order, and a later one is the earlier one and
\* the steps between.
LEMMA StepsInOrder ==
    ASSUME NEW i \in Nat \ {0}, NEW a \in Int, NEW b \in Int
    PROVE  /\ a * i \in Int /\ (a + b) * i = a * i + b * i
           /\ a < b <=> a * i < b * i
           /\ a = b <=> a * i = b * i
           /\ a \in Nat => a * i \in Nat
<1>1. a * i \in Int /\ b * i \in Int /\ (a + b) * i = a * i + b * i /\ (b - a) * i = b * i - a * i
  OBVIOUS
<1>2. \A c \in Int : (c > 0 => c * i > 0) /\ (c < 0 => c * i < 0) /\ (c = 0 => c * i = 0)
  OBVIOUS
<1>3. b - a \in Int
  OBVIOUS
<1>4. (b - a > 0 => (b - a) * i > 0) /\ (b - a < 0 => (b - a) * i < 0) /\ (b - a = 0 => (b - a) * i = 0)
  BY <1>2, <1>3
<1>5. a \in Nat => a * i \in Nat
  BY <1>1, <1>2
<1> QED
  BY <1>1, <1>4, <1>5

\* The first n numbers are n.
LEMMA FirstNumbersCount ==
    ASSUME NEW l \in Lines, NEW n \in Nat
    PROVE  IsFiniteSet(FirstNumbers(l, n)) /\ Cardinality(FirstNumbers(l, n)) = n
<1> DEFINE f == [k \in 0 .. n - 1 |-> First[l] + k * Increment[l]]
<1>0. Increment[l] \in Nat \ {0} /\ First[l] \in Nat
  BY ConstantsAssumption
<1>1. f \in Bijection(0 .. n - 1, FirstNumbers(l, n))
  <2>1. \A j, k \in 0 .. n - 1 : f[j] = f[k] => j = k
    <3> SUFFICES ASSUME NEW j \in 0 .. n - 1, NEW k \in 0 .. n - 1, f[j] = f[k] PROVE j = k
      OBVIOUS
    <3>0. j \in Int /\ k \in Int
      OBVIOUS
    <3>1. PICK p, q : p = j * Increment[l] /\ q = k * Increment[l]
      OBVIOUS
    <3>2. p \in Int /\ q \in Int /\ (j = k <=> p = q)
      BY <1>0, <3>0, <3>1, StepsInOrder, Zenon
    <3>3. First[l] + p = First[l] + q
      BY <3>1
    <3>4. p = q
      BY <1>0, <3>2, <3>3
    <3> QED
      BY <3>2, <3>4
  <2>2. f \in [0 .. n - 1 -> FirstNumbers(l, n)]
    BY DEF FirstNumbers
  <2>3. \A x \in FirstNumbers(l, n) : \E k \in 0 .. n - 1 : f[k] = x
    BY DEF FirstNumbers
  <2> HIDE DEF f
  <2> QED
    BY <2>1, <2>2, <2>3 DEF Bijection, Injection, Surjection, IsInjective
<1>2. IsFiniteSet(0 .. n - 1) /\ Cardinality(0 .. n - 1) = n
  BY FS_Interval
<1> QED
  BY <1>1, <1>2, FS_Bijection DEF ExistsBijection

\* A set of numbers is the first n for one n only.
LEMMA SeriesCount ==
    ASSUME NEW l \in Lines, SeriesOf(l)
    PROVE  NumbersOf(l) = FirstNumbers(l, Cardinality(NumbersOf(l)))
BY FirstNumbersCount DEF SeriesOf

\* The next number of a line is number j + 1 of its series, at most one past the last.
LEMMA NextNoIs ==
    ASSUME NEW l \in Lines, NEW n \in Nat, line[l].last \in Nat, Reached(l, n, line[l].last)
    PROVE  /\ \E j \in 0 .. n : NextNo(l) = First[l] + j * Increment[l]
           /\ NextNo(l) \in Nat \ {0} /\ NextNo(l) > line[l].last
           /\ line[l].last # 0 => NextNo(l) = line[l].last + Increment[l]
<1>0. Increment[l] \in Nat \ {0} /\ First[l] \in Nat \ {0}
  BY ConstantsAssumption
<1>1. CASE line[l].last = 0
  <2>1. First[l] = First[l] + 0 * Increment[l]
    BY <1>0
  <2> QED
    BY <1>0, <1>1, <2>1 DEF NextNo
<1>2. CASE line[l].last # 0
  <2>1. PICK k \in 0 .. n - 1 : line[l].last = First[l] + k * Increment[l]
    BY <1>2 DEF Reached, FirstNumbers
  <2>2. PICK p : p = k * Increment[l]
    OBVIOUS
  <2>3. p \in Int /\ (k + 1) * Increment[l] = p + 1 * Increment[l] /\ 1 * Increment[l] = Increment[l]
    BY <1>0, <2>2, StepsInOrder
  <2>4. NextNo(l) = First[l] + (k + 1) * Increment[l]
    BY <1>0, <1>2, <2>1, <2>2, <2>3 DEF NextNo
  <2>5. k + 1 \in 0 .. n
    OBVIOUS
  <2> QED
    BY <1>0, <1>2, <2>4, <2>5 DEF NextNo
<1> QED
  BY <1>1, <1>2

\* The block of m numbers drawn from a line, as its numbers j + 1 to j + m.
LEMMA BlockIs ==
    ASSUME NEW l \in Lines, NEW j \in Nat, NEW m \in Nat \ {0}, NEW last,
           last = First[l] + j * Increment[l] + (m - 1) * Increment[l]
    PROVE  /\ NumbersUpTo(l, last, m) = NumbersFrom(l, j, m)
           /\ last \in Nat /\ last = First[l] + (j + m - 1) * Increment[l]
           /\ \A i \in j .. j + m - 1 : /\ First[l] + i * Increment[l] \in Nat
                                        /\ First[l] + j * Increment[l] <= First[l] + i * Increment[l]
                                        /\ First[l] + i * Increment[l] <= last
<1>0. Increment[l] \in Nat \ {0} /\ First[l] \in Nat
  BY ConstantsAssumption
<1>1. last = First[l] + (j + m - 1) * Increment[l]
  <2>1. PICK p, q : p = j * Increment[l] /\ q = (m - 1) * Increment[l]
    OBVIOUS
  <2>2. p \in Int /\ q \in Int /\ (j + (m - 1)) * Increment[l] = p + q
    BY <1>0, <2>1, StepsInOrder
  <2>3. j + (m - 1) = j + m - 1
    OBVIOUS
  <2> QED
    BY <1>0, <2>1, <2>2, <2>3
<1>2. \A i \in j .. j + m - 1 : /\ First[l] + i * Increment[l] \in Nat
                                /\ First[l] + j * Increment[l] <= First[l] + i * Increment[l]
                                /\ First[l] + i * Increment[l] <= last
  <2> SUFFICES ASSUME NEW i \in j .. j + m - 1
               PROVE  /\ First[l] + i * Increment[l] \in Nat
                      /\ First[l] + j * Increment[l] <= First[l] + i * Increment[l]
                      /\ First[l] + i * Increment[l] <= last
    OBVIOUS
  <2>1. PICK p, q, r : p = j * Increment[l] /\ q = (j + m - 1) * Increment[l] /\ r = i * Increment[l]
    OBVIOUS
  <2>2. j \in Int /\ i \in Int /\ j + m - 1 \in Int /\ j \in Nat /\ i \in Nat /\ j + m - 1 \in Nat
    OBVIOUS
  <2>3. /\ p \in Nat /\ q \in Nat /\ r \in Nat /\ (j < i <=> p < r) /\ (j = i <=> p = r)
        /\ (i < j + m - 1 <=> r < q) /\ (i = j + m - 1 <=> r = q)
    BY <1>0, <2>1, <2>2, StepsInOrder, Zenon
  <2>4. p <= r /\ r <= q
    BY <2>3
  <2> QED
    BY <1>0, <1>1, <2>1, <2>3, <2>4
<1>3. last \in Nat
  <2>1. PICK q : q = (j + m - 1) * Increment[l]
    OBVIOUS
  <2>2. q \in Nat
    BY <1>0, <2>1, StepsInOrder
  <2> QED
    BY <1>0, <1>1, <2>1, <2>2
<1>4. \A k \in 0 .. m - 1 : last - k * Increment[l] = First[l] + (j + m - 1 - k) * Increment[l]
  <2> SUFFICES ASSUME NEW k \in 0 .. m - 1
               PROVE  last - k * Increment[l] = First[l] + (j + m - 1 - k) * Increment[l]
    OBVIOUS
  <2>1. PICK p, q, r : p = k * Increment[l] /\ q = (j + m - 1) * Increment[l] /\ r = (j + m - 1 - k) * Increment[l]
    OBVIOUS
  <2>2. p \in Int /\ r \in Int /\ (j + m - 1 - k + k) * Increment[l] = r + p
    BY <1>0, <2>1, StepsInOrder
  <2>3. j + m - 1 - k + k = j + m - 1
    OBVIOUS
  <2> QED
    BY <1>0, <1>1, <2>1, <2>2, <2>3
<1>5. ASSUME NEW i \in j .. j + m - 1
      PROVE  \E k \in 0 .. m - 1 : First[l] + i * Increment[l] = last - k * Increment[l]
  <2>1. j + m - 1 - i \in 0 .. m - 1 /\ j + m - 1 - (j + m - 1 - i) = i
    OBVIOUS
  <2>2. last - (j + m - 1 - i) * Increment[l] = First[l] + (j + m - 1 - (j + m - 1 - i)) * Increment[l]
    BY <1>4, <2>1
  <2>3. last - (j + m - 1 - i) * Increment[l] = First[l] + i * Increment[l]
    BY <2>1, <2>2
  <2> QED
    BY <2>1, <2>3
<1>6. ASSUME NEW k \in 0 .. m - 1
      PROVE  \E i \in j .. j + m - 1 : last - k * Increment[l] = First[l] + i * Increment[l]
  <2>1. j + m - 1 - k \in j .. j + m - 1
    OBVIOUS
  <2> QED
    BY <1>4, <2>1
<1>7. NumbersUpTo(l, last, m) = NumbersFrom(l, j, m)
  BY <1>5, <1>6 DEF NumbersUpTo, NumbersFrom
<1> QED
  BY <1>1, <1>2, <1>3, <1>7

-----------------------------------------------------------------------------
\* Only sessions and the lock move: the rows and the numbers stay as they are.
LEMMA OnlySessions ==
    ASSUME NumbersInv, UNCHANGED <<line, issued, form, overwritten>>,
           sess' \in [Sessions -> SessionType], lock' \in Sessions \cup {NoSession}, DrawnSound'
    PROVE  NumbersInv'
<1>1. TypeOK'
  BY DEF NumbersInv, TypeOK
<1>2. /\ IsFiniteSet(issued') /\ OpenIffRoom' /\ DatesInOrder' /\ NeverTwiceUnlessOverwritten'
      /\ \A l \in Lines : ~ Exceeds(line'[l].last, line'[l].ending)
  BY DEF NumbersInv, OpenIffRoom, DatesInOrder, NeverTwiceUnlessOverwritten
<1>3. \A l \in Lines : SeriesOf(l)'
  BY DEF NumbersInv, SeriesOf, NumbersOf
<1>4. \A l \in Lines : l \notin overwritten' => Ahead(l)'
  BY DEF NumbersInv, Ahead
<1> QED
  BY <1>1, <1>2, <1>3, <1>4 DEF NumbersInv

\* What the others have drawn is still next.
LEMMA DrawnKept ==
    ASSUME DrawnSound, line' = line, NEW s \in Sessions, lock' = lock \/ lock = s,
           \A t \in Sessions : t # s => sess'[t] = sess[t],
           sess'[s].pc # "drawn", sess'[s].pc = "ask" => sess'[s].count > 0
    PROVE  DrawnSound'
<1>1. ASSUME NEW t \in Sessions, sess'[t].pc = "ask" PROVE sess'[t].count > 0
  BY <1>1 DEF DrawnSound
<1>2. ASSUME NEW t \in Sessions, sess'[t].pc = "drawn"
      PROVE  /\ lock' = t /\ sess'[t].count > 0
             /\ CanDraw(sess[t].line, sess[t].date, sess[t].count)'
             /\ sess'[t].row = Stamped(sess[t].line, sess[t].date, sess[t].count)'
  <2>1. t # s /\ sess'[t] = sess[t]
    BY <1>2
  <2>2. /\ lock = t /\ sess[t].count > 0
        /\ CanDraw(sess[t].line, sess[t].date, sess[t].count)
        /\ sess[t].row = Stamped(sess[t].line, sess[t].date, sess[t].count)
    BY <1>2, <2>1 DEF DrawnSound
  <2>3. CanDraw(sess[t].line, sess[t].date, sess[t].count)'
    BY <2>1, <2>2 DEF CanDraw, LastOfBlock, NextNo
  <2>4. sess'[t].row = Stamped(sess[t].line, sess[t].date, sess[t].count)'
    BY <2>1, <2>2 DEF Stamped, LastOfBlock, NextNo
  <2> QED
    BY <2>1, <2>2, <2>3, <2>4
<1> QED
  BY <1>1, <1>2 DEF DrawnSound

\* A transaction ends: its session is idle, and the lock free unless another has it.
LEMMA EndIs ==
    ASSUME TypeOK, NEW s \in Sessions, EndTransaction(s)
    PROVE  /\ sess' \in [Sessions -> SessionType] /\ lock' \in Sessions \cup {NoSession}
           /\ sess'[s].pc = "idle" /\ \A t \in Sessions : t # s => sess'[t] = sess[t]
           /\ lock' = lock \/ lock = s
BY SomeLineType DEF TypeOK, EndTransaction

LEMMA AbortStep ==
    ASSUME NumbersInv, NEW s \in Sessions, EndTransaction(s), UNCHANGED <<line, issued, form, overwritten>>
    PROVE  NumbersInv'
<1>1. /\ sess' \in [Sessions -> SessionType] /\ lock' \in Sessions \cup {NoSession}
      /\ sess'[s].pc = "idle" /\ \A t \in Sessions : t # s => sess'[t] = sess[t]
      /\ lock' = lock \/ lock = s
  BY EndIs DEF NumbersInv
<1>2. DrawnSound'
  BY <1>1, DrawnKept DEF NumbersInv
<1> QED
  BY <1>1, <1>2, OnlySessions

LEMMA AskNumberStep ==
    ASSUME NumbersInv, NEW s \in Sessions, Ask(s)
    PROVE  NumbersInv'
<1>1. PICK d \in Dates, n \in Batches :
          sess' = [sess EXCEPT ![s] = [Idle EXCEPT !.pc = "ask", !.date = d, !.count = n]]
  BY DEF Ask
<1>2. PICK new : new = [Idle EXCEPT !.pc = "ask", !.date = d, !.count = n]
  OBVIOUS
<1>3. d \in Nat /\ n \in Nat /\ n > 0
  BY ConstantsAssumption
<1>4. new \in SessionType /\ new.pc = "ask" /\ new.count = n
  BY <1>2, <1>3, SomeLineType DEF SessionType
<1>5. UNCHANGED <<line, lock, issued, form, overwritten>> /\ sess \in [Sessions -> SessionType]
      /\ lock \in Sessions \cup {NoSession}
  BY DEF Ask, NumbersInv, TypeOK
<1>6. /\ sess' \in [Sessions -> SessionType] /\ sess'[s] = new
      /\ \A t \in Sessions : t # s => sess'[t] = sess[t]
  BY <1>1, <1>2, <1>4, <1>5
<1>7. DrawnSound'
  BY <1>3, <1>4, <1>5, <1>6, DrawnKept DEF NumbersInv
<1> QED
  BY <1>5, <1>6, <1>7, OnlySessions

\* The last number of a block is a number.
LEMMA LastIsNat ==
    ASSUME TypeOK, NEW l \in Lines, SeriesOf(l), NEW m \in Nat \ {0}
    PROVE  /\ LastOfBlock(l, m) \in Nat /\ LastOfBlock(l, m) > line[l].last
           /\ LastOfBlock(l, m) >= NextNo(l) /\ LastOfBlock(l, m) # 0
<1>1. PICK n \in Nat : Reached(l, n, line[l].last)
  BY DEF SeriesOf
<1>2. line[l].last \in Nat
  BY DEF TypeOK, RowType
<1>3. PICK j \in 0 .. n : NextNo(l) = First[l] + j * Increment[l]
  BY <1>1, <1>2, NextNoIs
<1>4. NextNo(l) \in Nat \ {0} /\ NextNo(l) > line[l].last
  BY <1>1, <1>2, NextNoIs
<1>5. PICK q : q = (m - 1) * Increment[l]
  OBVIOUS
<1>6. q \in Nat
  <2>1. m - 1 \in Nat /\ m - 1 \in Int /\ Increment[l] \in Nat \ {0}
    BY ConstantsAssumption
  <2> QED
    BY <1>5, <2>1, StepsInOrder
<1>7. LastOfBlock(l, m) = NextNo(l) + q
  BY <1>5 DEF LastOfBlock
<1> QED
  BY <1>2, <1>4, <1>6, <1>7

LEMMA DrawStep ==
    ASSUME NumbersInv, NEW s \in Sessions, Draw(s)
    PROVE  NumbersInv'
<1>1. CASE EndTransaction(s)
  BY <1>1, AbortStep DEF Draw
<1>2. ASSUME NEW l \in Applicable(sess[s].date), CanDraw(l, sess[s].date, sess[s].count),
             sess' = [sess EXCEPT ![s] = [@ EXCEPT !.pc = "drawn", !.line = l,
                                                   !.row = Stamped(l, sess[s].date, sess[s].count)]],
             lock' = s
      PROVE  NumbersInv'
  <2>1. /\ l \in Lines /\ sess[s].pc = "ask" /\ lock = NoSession /\ UNCHANGED <<line, issued, form, overwritten>>
        /\ sess \in [Sessions -> SessionType] /\ sess[s] \in SessionType /\ TypeOK /\ SeriesOf(l)
        /\ line[l] \in RowType
    BY DEF Draw, Applicable, InScope, NumbersInv, TypeOK
  <2>2. PICK d, m : d = sess[s].date /\ m = sess[s].count
    OBVIOUS
  <2>3. d \in Nat /\ m \in Nat \ {0}
    BY <2>1, <2>2 DEF SessionType, NumbersInv, DrawnSound
  <2>4. PICK row : row = Stamped(l, d, m)
    OBVIOUS
  <2>5. row \in RowType
    <3>1. LastOfBlock(l, m) \in Nat
      BY <2>1, <2>3, LastIsNat
    <3>2. (~ Exceeds(LastOfBlock(l, m) + Increment[l], line[l].ending)) \in BOOLEAN
      BY DEF Exceeds
    <3> QED
      BY <2>1, <2>3, <2>4, <3>1, <3>2 DEF Stamped, RowType
  <2>6. PICK new : new = [sess[s] EXCEPT !.pc = "drawn", !.line = l, !.row = row]
    OBVIOUS
  <2>7. /\ new \in SessionType /\ new.pc = "drawn" /\ new.line = l /\ new.row = row
        /\ new.count = m /\ new.date = d
    BY <2>1, <2>2, <2>5, <2>6 DEF SessionType
  <2>8. sess' = [sess EXCEPT ![s] = new]
    BY <1>2, <2>2, <2>4, <2>6
  <2>9. /\ sess' \in [Sessions -> SessionType] /\ sess'[s] = new
        /\ \A t \in Sessions : t # s => sess'[t] = sess[t]
    BY <2>1, <2>7, <2>8
  <2>10. \A t \in Sessions : t # s => sess[t].pc # "drawn"
    BY <2>1, NoSessionAssumption DEF NumbersInv, DrawnSound
  <2>11. CanDraw(l, d, m)' /\ row = Stamped(l, d, m)'
    BY <1>2, <2>1, <2>2, <2>4 DEF CanDraw, Stamped, LastOfBlock, NextNo
  <2>12. DrawnSound'
    <3>1. \A t \in Sessions : sess'[t].pc = "ask" => sess'[t].count > 0
      BY <2>3, <2>7, <2>9 DEF NumbersInv, DrawnSound
    <3>2. ASSUME NEW t \in Sessions, sess'[t].pc = "drawn"
          PROVE  /\ lock' = t /\ sess'[t].count > 0
                 /\ CanDraw(sess[t].line, sess[t].date, sess[t].count)'
                 /\ sess'[t].row = Stamped(sess[t].line, sess[t].date, sess[t].count)'
      <4>1. t = s /\ sess'[t] = new
        BY <2>9, <2>10, <3>2
      <4>2. CanDraw(sess[t].line, sess[t].date, sess[t].count)'
        BY <2>7, <2>11, <4>1 DEF CanDraw, LastOfBlock, NextNo
      <4>3. sess'[t].row = Stamped(sess[t].line, sess[t].date, sess[t].count)'
        BY <2>7, <2>11, <4>1 DEF Stamped, LastOfBlock, NextNo
      <4>4. sess'[t].count > 0
        BY <2>3, <2>7, <4>1
      <4> QED
        BY <1>2, <4>1, <4>2, <4>3, <4>4
    <3> QED
      BY <3>1, <3>2 DEF DrawnSound
  <2> QED
    BY <1>2, <2>1, <2>9, <2>12, OnlySessions
<1> QED
  BY <1>1, <1>2 DEF Draw

LEMMA OpenFormStep ==
    ASSUME NumbersInv, NEW l \in Lines, OpenForm(l)
    PROVE  NumbersInv'
<1>1. form' = {[line |-> l, last |-> line[l].last]} /\ UNCHANGED <<line, lock, sess, issued, overwritten>>
  BY DEF OpenForm
<1>2. TypeOK'
  BY <1>1 DEF NumbersInv, TypeOK, RowType, FormType
<1>3. /\ IsFiniteSet(issued') /\ OpenIffRoom' /\ DatesInOrder' /\ NeverTwiceUnlessOverwritten'
      /\ \A k \in Lines : ~ Exceeds(line'[k].last, line'[k].ending)
      /\ \A k \in Lines : k \notin overwritten' => Ahead(k)'
  BY <1>1 DEF NumbersInv, OpenIffRoom, DatesInOrder, NeverTwiceUnlessOverwritten, Ahead
<1>4. \A k \in Lines : SeriesOf(k)'
  BY <1>1 DEF NumbersInv, SeriesOf, NumbersOf
<1>5. DrawnSound'
  BY <1>1 DEF NumbersInv, DrawnSound, CanDraw, Stamped, LastOfBlock, NextNo
<1> QED
  BY <1>2, <1>3, <1>4, <1>5 DEF NumbersInv

LEMMA SaveFormStep ==
    ASSUME NumbersInv, SaveForm
    PROVE  NumbersInv'
<1>1. PICK f \in form, e \in {Ending[l] : l \in Lines} :
          /\ ~ Exceeds(f.last, e)
          /\ line' = [line EXCEPT ![f.line] =
               [@ EXCEPT !.last = f.last, !.ending = e,
                         !.open = f.last = 0 \/ ~ Exceeds(f.last + Increment[f.line], e)]]
  BY DEF SaveForm
<1>2. /\ lock = NoSession /\ form' = {} /\ UNCHANGED <<lock, sess, issued>> /\ TypeOK
      /\ overwritten' = overwritten \cup {g.line : g \in {h \in form : h.last # line[h.line].last}}
  BY DEF SaveForm, NumbersInv
<1>3. PICK l : l = f.line
  OBVIOUS
<1>4. l \in Lines /\ f.last \in Nat /\ e \in Endings /\ line \in [Lines -> RowType] /\ line[l] \in RowType
  BY <1>1, <1>2, <1>3, ConstantsAssumption DEF TypeOK, FormType
<1>5. PICK row : row = [line[l] EXCEPT !.last = f.last, !.ending = e,
                                       !.open = f.last = 0 \/ ~ Exceeds(f.last + Increment[l], e)]
  OBVIOUS
<1>6. /\ row \in RowType /\ row.last = f.last /\ row.ending = e /\ row.lastDate = line[l].lastDate
      /\ row.open <=> (row.last = 0 \/ ~ Exceeds(row.last + Increment[l], row.ending))
  <2>1. (f.last = 0 \/ ~ Exceeds(f.last + Increment[l], e)) \in BOOLEAN
    OBVIOUS
  <2>2. PICK b \in BOOLEAN : b = (f.last = 0 \/ ~ Exceeds(f.last + Increment[l], e))
    BY <2>1
  <2>3. row = [line[l] EXCEPT !.last = f.last, !.ending = e, !.open = b]
    BY <1>5, <2>2
  <2>4. row \in RowType /\ row.last = f.last /\ row.ending = e /\ row.lastDate = line[l].lastDate /\ row.open = b
    BY <1>4, <2>3 DEF RowType
  <2> QED
    BY <2>2, <2>4
<1>7. /\ line' \in [Lines -> RowType] /\ line'[l] = row
      /\ \A k \in Lines : k # l => line'[k] = line[k]
  BY <1>1, <1>3, <1>4, <1>5, <1>6
<1>8. TypeOK'
  <2>1. overwritten' \subseteq Lines
    BY <1>2 DEF TypeOK, FormType
  <2> QED
    BY <1>2, <1>7, <2>1 DEF TypeOK
<1>9. DrawnSound'
  BY <1>2, NoSessionAssumption DEF NumbersInv, DrawnSound
<1>10. OpenIffRoom'
  <2> SUFFICES ASSUME NEW k \in Lines
               PROVE  line'[k].open <=> (line'[k].last = 0 \/ ~ Exceeds(line'[k].last + Increment[k], line'[k].ending))
    BY DEF OpenIffRoom
  <2>1. CASE k = l
    BY <1>6, <1>7, <2>1
  <2>2. CASE k # l
    BY <1>7, <2>2 DEF NumbersInv, OpenIffRoom
  <2> QED
    BY <2>1, <2>2
<1>11. \A k \in Lines : ~ Exceeds(line'[k].last, line'[k].ending)
  BY <1>1, <1>6, <1>7 DEF NumbersInv
<1>12. ASSUME NEW k \in Lines PROVE SeriesOf(k)'
  <2>1. PICK n \in Nat : /\ NumbersOf(k) = FirstNumbers(k, n)
                         /\ Reached(k, n, line[k].last)
                         /\ \A g \in form : g.line = k => Reached(k, n, g.last)
    BY DEF NumbersInv, SeriesOf
  <2>2. Reached(k, n, line'[k].last)
    BY <1>3, <1>6, <1>7, <2>1
  <2>3. NumbersOf(k)' = NumbersOf(k)
    BY <1>2 DEF NumbersOf
  <2> QED
    BY <1>2, <2>1, <2>2, <2>3 DEF SeriesOf
<1>13. ASSUME NEW k \in Lines, k \notin overwritten' PROVE Ahead(k)'
  <2>1. k \notin overwritten /\ Ahead(k)
    BY <1>2, <1>13 DEF NumbersInv
  <2>2. k = l => f.last = line[l].last
    BY <1>2, <1>3, <1>13
  <2>3. line'[k].last = line[k].last /\ line'[k].lastDate = line[k].lastDate
    BY <1>6, <1>7, <2>2
  <2> QED
    BY <1>2, <2>1, <2>3 DEF Ahead
<1>14. DatesInOrder' /\ NeverTwiceUnlessOverwritten'
  BY <1>2 DEF NumbersInv, DatesInOrder, NeverTwiceUnlessOverwritten
<1> QED
  BY <1>2, <1>8, <1>9, <1>10, <1>11, <1>12, <1>13, <1>14 DEF NumbersInv

\* The first n numbers and the next m from number j + 1 on, where j is at most n.
LEMMA MoreNumbers ==
    ASSUME NEW l \in Lines, NEW n \in Nat, NEW j \in Nat, NEW m \in Nat \ {0}, j <= n
    PROVE  FirstAndMore(l, n, j, m) = FirstNumbers(l, IF n >= j + m THEN n ELSE j + m)
<1>1. CASE n >= j + m
  <2>1. \A i \in j .. j + m - 1 : i \in 0 .. n - 1
    BY <1>1
  <2> QED
    BY <1>1, <2>1 DEF FirstNumbers, NumbersFrom, FirstAndMore
<1>2. CASE ~ (n >= j + m)
  <2>1. \A i : i \in 0 .. j + m - 1 <=> i \in 0 .. n - 1 \/ i \in j .. j + m - 1
    BY <1>2
  <2> QED
    BY <1>2, <2>1 DEF FirstNumbers, NumbersFrom, FirstAndMore
<1> QED
  BY <1>1, <1>2

LEMMA MoreReached ==
    ASSUME NEW l \in Lines, NEW n \in Nat, NEW k \in Nat, k >= n, NEW last, Reached(l, n, last)
    PROVE  Reached(l, k, last)
<1>1. \A i \in 0 .. n - 1 : i \in 0 .. k - 1
  OBVIOUS
<1> QED
  BY <1>1 DEF Reached, FirstNumbers

LEMMA ImageFinite ==
    ASSUME NEW S, NEW T, NEW f \in [S -> T], \A y \in T : \E x \in S : f[x] = y, IsFiniteSet(S)
    PROVE  IsFiniteSet(T)
<1>1. f \in Surjection(S, T)
  BY DEF Surjection
<1> QED
  BY <1>1, FS_Surjection

LEMMA CommitStep ==
    ASSUME NumbersInv, NEW s \in Sessions, Commit(s)
    PROVE  NumbersInv'
<1>1. PICK l, d, m, row, tick :
          l = sess[s].line /\ d = sess[s].date /\ m = sess[s].count /\ row = sess[s].row /\ tick = Tick
  OBVIOUS
<1>2. /\ l \in Lines /\ d \in Nat /\ m \in Nat \ {0} /\ row \in RowType /\ row = Stamped(l, d, m) /\ CanDraw(l, d, m)
      /\ lock = s /\ TypeOK /\ SeriesOf(l) /\ line \in [Lines -> RowType] /\ line[l] \in RowType
      /\ EndTransaction(s) /\ UNCHANGED <<form, overwritten>> /\ line' = [line EXCEPT ![l] = row]
      /\ issued \subseteq IssuedType /\ IsFiniteSet(issued)
  BY <1>1 DEF Commit, NumbersInv, TypeOK, SessionType, DrawnSound
<1>3. PICK n \in Nat : /\ NumbersOf(l) = FirstNumbers(l, n)
                       /\ Reached(l, n, line[l].last)
                       /\ \A f \in form : f.line = l => Reached(l, n, f.last)
  BY <1>2 DEF SeriesOf
<1>4. PICK j \in 0 .. n : NextNo(l) = First[l] + j * Increment[l]
  BY <1>2, <1>3, NextNoIs DEF RowType
<1>5. NextNo(l) \in Nat \ {0} /\ NextNo(l) > line[l].last
  BY <1>2, <1>3, NextNoIs DEF RowType
<1>6. /\ row.last = First[l] + j * Increment[l] + (m - 1) * Increment[l]
      /\ row.lastDate = d /\ row.ending = line[l].ending /\ ~ Exceeds(row.last, row.ending)
      /\ row.open <=> ~ Exceeds(row.last + Increment[l], row.ending)
      /\ DateOrder => line[l].lastDate <= d
  BY <1>2, <1>4 DEF Stamped, LastOfBlock, RowType, CanDraw
<1>7. PICK nos : nos = NumbersFrom(l, j, m)
  OBVIOUS
<1>8. j \in Nat /\ m \in Nat /\ m > 0 /\ n \in Nat /\ j <= n
  BY <1>2
<1>9. /\ {row.last - k * Increment[l] : k \in 0 .. m - 1} = nos
      /\ row.last \in Nat /\ row.last = First[l] + (j + m - 1) * Increment[l]
      /\ \A i \in j .. j + m - 1 : /\ First[l] + i * Increment[l] \in Nat
                                   /\ First[l] + j * Increment[l] <= First[l] + i * Increment[l]
                                   /\ First[l] + i * Increment[l] <= row.last
  <2>1. PICK last : last = row.last
    OBVIOUS
  <2>2. last = First[l] + j * Increment[l] + (m - 1) * Increment[l]
    BY <1>6, <2>1
  <2>3. /\ NumbersUpTo(l, last, m) = NumbersFrom(l, j, m)
        /\ last \in Nat /\ last = First[l] + (j + m - 1) * Increment[l]
        /\ \A i \in j .. j + m - 1 : /\ First[l] + i * Increment[l] \in Nat
                                     /\ First[l] + j * Increment[l] <= First[l] + i * Increment[l]
                                     /\ First[l] + i * Increment[l] <= last
    <3>1. l \in Lines /\ j \in Nat /\ m \in Nat \ {0}
      BY <1>2, <1>8
    <3> QED
      BY <2>2, <3>1, BlockIs, Zenon
  <2> QED
    BY <1>7, <2>1, <2>3, Zenon DEF NumbersUpTo
<1>10. nos \subseteq Nat /\ \A x \in nos : x > line[l].last /\ x <= row.last
  <2>1. line[l].last \in Nat
    BY <1>2 DEF RowType
  <2> QED
    BY <1>4, <1>5, <1>7, <1>9, <2>1 DEF NumbersFrom
<1>11. issued' = issued \cup {[no |-> x, line |-> l, date |-> d, tick |-> tick] : x \in nos}
  BY <1>1, <1>9 DEF Commit, Block
<1>12. PICK new : new = {[no |-> x, line |-> l, date |-> d, tick |-> tick] : x \in nos}
  OBVIOUS
<1>13. tick \in Nat
  BY <1>1, <1>2, FS_CardinalityType DEF Tick
<1>14. /\ new \subseteq IssuedType
       /\ \A a \in new : a.no \in nos /\ a.line = l /\ a.date = d
       /\ \A a, b \in new : a.no = b.no => a = b
       /\ {a.no : a \in new} = nos
  <2>1. new \subseteq IssuedType
    BY <1>2, <1>10, <1>12, <1>13 DEF IssuedType
  <2>2. {a.no : a \in new} = nos
    <3>1. \A a \in new : a.no \in nos
      BY <1>12
    <3>2. \A x \in nos : \E a \in new : a.no = x
      <4> SUFFICES ASSUME NEW x \in nos PROVE \E a \in new : a.no = x
        OBVIOUS
      <4>1. [no |-> x, line |-> l, date |-> d, tick |-> tick] \in new
        BY <1>12
      <4> QED
        BY <4>1
    <3> QED
      BY <3>1, <3>2
  <2> QED
    BY <1>12, <2>1, <2>2
<1>15. issued' = issued \cup new
  BY <1>11, <1>12
<1>16. IsFiniteSet(issued')
  <2>1. IsFiniteSet(j .. j + m - 1)
    BY <1>8, FS_Interval
  <2>2. PICK f : f = [i \in j .. j + m - 1 |-> First[l] + i * Increment[l]]
    OBVIOUS
  <2>3. f \in [j .. j + m - 1 -> nos] /\ \A x \in nos : \E i \in j .. j + m - 1 : f[i] = x
    BY <1>7, <2>2 DEF NumbersFrom
  <2>4. IsFiniteSet(nos)
    BY <2>1, <2>3, ImageFinite
  <2>5. PICK g : g = [x \in nos |-> [no |-> x, line |-> l, date |-> d, tick |-> tick]]
    OBVIOUS
  <2>6. g \in [nos -> new] /\ \A a \in new : \E x \in nos : g[x] = a
    BY <1>12, <2>5
  <2>7. IsFiniteSet(new)
    BY <2>4, <2>6, ImageFinite
  <2> QED
    BY <1>2, <1>15, <2>7, FS_Union
<1>17. /\ sess' \in [Sessions -> SessionType] /\ lock' \in Sessions \cup {NoSession}
       /\ sess'[s].pc = "idle" /\ \A t \in Sessions : t # s => sess'[t] = sess[t]
  BY <1>2, EndIs
<1>18. /\ line' \in [Lines -> RowType] /\ line'[l] = row
       /\ \A k \in Lines : k # l => line'[k] = line[k]
  BY <1>2
<1>19. TypeOK'
  BY <1>2, <1>14, <1>15, <1>17, <1>18 DEF TypeOK
<1>20. DrawnSound'
  <2>1. \A t \in Sessions : sess'[t].pc # "drawn"
    BY <1>2, <1>17 DEF NumbersInv, DrawnSound
  <2> QED
    BY <1>17, <2>1 DEF NumbersInv, DrawnSound
<1>21. OpenIffRoom'
  <2> SUFFICES ASSUME NEW k \in Lines
               PROVE  line'[k].open <=> (line'[k].last = 0 \/ ~ Exceeds(line'[k].last + Increment[k], line'[k].ending))
    BY DEF OpenIffRoom
  <2>1. CASE k = l
    <3>1. row.last # 0
      BY <1>10, <1>2, <1>9, <1>4, <1>5
    <3> QED
      BY <1>6, <1>18, <2>1, <3>1
  <2>2. CASE k # l
    BY <1>18, <2>2 DEF NumbersInv, OpenIffRoom
  <2> QED
    BY <2>1, <2>2
<1>22. \A k \in Lines : ~ Exceeds(line'[k].last, line'[k].ending)
  BY <1>6, <1>18 DEF NumbersInv
<1>30. \E k \in Nat :
          /\ k >= n /\ k >= j + m
          /\ FirstNumbers(l, n) \cup nos = FirstNumbers(l, k)
  <2>1. l \in Lines /\ m \in Nat \ {0} /\ n \in Nat /\ j \in Nat /\ j <= n
    BY <1>2, <1>8
  <2>2. FirstAndMore(l, n, j, m) = FirstNumbers(l, IF n >= j + m THEN n ELSE j + m)
    BY <2>1, MoreNumbers
  <2>3. PICK k : k = IF n >= j + m THEN n ELSE j + m
    OBVIOUS
  <2>4. k \in Nat /\ k >= n /\ k >= j + m
    BY <1>8, <2>3
  <2> QED
    BY <1>7, <2>2, <2>3, <2>4 DEF FirstAndMore
<1>23. ASSUME NEW k \in Lines PROVE SeriesOf(k)'
  <2>1. CASE k # l
    <3>1. NumbersOf(k)' = NumbersOf(k)
      BY <1>14, <1>15, <2>1 DEF NumbersOf
    <3>2. SeriesOf(k)
      BY DEF NumbersInv
    <3> QED
      BY <1>2, <1>18, <2>1, <3>1, <3>2 DEF SeriesOf
  <2>2. CASE k = l
    <3>1. PICK i \in Nat : i >= n /\ i >= j + m /\ FirstNumbers(l, n) \cup nos = FirstNumbers(l, i)
      BY <1>30
    <3>2. NumbersOf(l)' = NumbersOf(l) \cup nos
      <4>1. {x \in issued' : x.line = l} = {x \in issued : x.line = l} \cup new
        BY <1>14, <1>15
      <4> QED
        BY <1>14, <4>1 DEF NumbersOf
    <3>3. Reached(l, i, line'[l].last)
      <4>1. j + m - 1 \in 0 .. i - 1
        <5>1. i \in Nat /\ i >= j + m
          BY <3>1
        <5> QED
          BY <1>8, <5>1
      <4> QED
        BY <1>9, <1>18, <4>1 DEF Reached, FirstNumbers
    <3>4. \A f \in form' : f.line = l => Reached(l, i, f.last)
      BY <1>2, <1>3, <3>1, MoreReached
    <3> QED
      BY <1>3, <2>2, <3>1, <3>2, <3>3, <3>4 DEF SeriesOf
  <2> QED
    BY <2>1, <2>2
<1>24. \A a \in issued : a.no \in Nat /\ a.date \in Nat /\ a.line \in Lines
  BY <1>2 DEF IssuedType
<1>25. ASSUME l \notin overwritten
       PROVE  \A a \in issued : a.line = l => a.no <= line[l].last /\ (DateOrder => a.date <= d)
  <2>1. Ahead(l)
    BY <1>2, <1>25 DEF NumbersInv
  <2>2. line[l].lastDate \in Nat
    BY <1>2 DEF RowType
  <2> QED
    BY <1>2, <1>6, <1>24, <2>1, <2>2 DEF Ahead
<1>26. ASSUME NEW k \in Lines, k \notin overwritten' PROVE Ahead(k)'
  <2>1. CASE k # l
    BY <1>2, <1>14, <1>15, <1>18, <1>26, <2>1 DEF NumbersInv, Ahead
  <2>2. CASE k = l
    <3>1. l \notin overwritten
      BY <1>2, <1>26, <2>2
    <3>2. \A a \in issued' : a.line = l => a.no <= row.last /\ (DateOrder => a.date <= d)
      <4> SUFFICES ASSUME NEW a \in issued', a.line = l PROVE a.no <= row.last /\ (DateOrder => a.date <= d)
        OBVIOUS
      <4>1. CASE a \in new
        <5>1. a.no \in nos /\ a.date = d /\ d <= d
          BY <1>2, <1>14, <4>1
        <5>2. a.no <= row.last /\ a.date <= d
          BY <1>10, <5>1, Zenon
        <5> QED
          BY <5>2
      <4>2. CASE a \in issued
        <5>1. a.no <= line[l].last /\ (DateOrder => a.date <= d)
          BY <1>25, <3>1, <4>2
        <5>2. line[l].last < row.last /\ line[l].last \in Nat /\ row.last \in Nat /\ a.no \in Nat
          <6>1. j \in j .. j + m - 1
            BY <1>8
          <6>2. First[l] + j * Increment[l] <= row.last
            BY <1>9, <6>1, Zenon
          <6>3. line[l].last \in Nat
            BY <1>2 DEF RowType
          <6>4. NextNo(l) <= row.last /\ row.last \in Nat
            BY <1>4, <1>9, <6>2, Zenon
          <6> QED
            BY <1>5, <1>24, <4>2, <6>3, <6>4
        <5> QED
          BY <5>1, <5>2
      <4> QED
        BY <1>15, <4>1, <4>2
    <3> QED
      BY <1>6, <1>18, <2>2, <3>2 DEF Ahead
  <2> QED
    BY <2>1, <2>2
<1>27. ASSUME NEW a \in issued, NEW b \in new, a.line = l, l \notin overwritten
       PROVE  a.no < b.no /\ (DateOrder => a.date <= b.date)
  <2>1. a.no <= line[l].last /\ (DateOrder => a.date <= d)
    BY <1>25, <1>27
  <2>2. b.no \in nos /\ b.date = d
    BY <1>14
  <2>3. line[l].last \in Nat /\ a.no \in Nat
    BY <1>2, <1>24 DEF RowType
  <2>4. b.no > line[l].last /\ b.no \in Nat
    BY <1>10, <2>2
  <2>5. a.no <= line[l].last
    BY <2>1
  <2>6. a.no < b.no
    BY <2>3, <2>4, <2>5
  <2> QED
    BY <2>1, <2>2, <2>6
<1>28. ASSUME NEW a \in issued', NEW b \in issued', a.line = b.line, a.line \notin overwritten
       PROVE  /\ a.no = b.no => a = b
              /\ DateOrder /\ a.no < b.no => a.date <= b.date
  <2>1. CASE a \in issued /\ b \in issued
    BY <1>28, <2>1 DEF NumbersInv, DatesInOrder, NeverTwiceUnlessOverwritten
  <2>2. CASE a \in issued /\ b \in new
    <3>1. a.line = l /\ b.no \in Nat /\ a.no \in Nat
      BY <1>10, <1>14, <1>24, <1>28, <2>2
    <3> QED
      BY <1>27, <1>28, <2>2, <3>1
  <2>3. CASE a \in new /\ b \in issued
    <3>1. b.line = l /\ b.no \in Nat /\ a.no \in Nat /\ l \notin overwritten
      BY <1>10, <1>14, <1>24, <1>28, <2>3
    <3>2. b.no < a.no
      BY <1>27, <2>3, <3>1
    <3> QED
      BY <3>1, <3>2
  <2>4. CASE a \in new /\ b \in new
    BY <1>2, <1>14, <2>4
  <2> QED
    BY <1>15, <2>1, <2>2, <2>3, <2>4
<1>29. DatesInOrder' /\ NeverTwiceUnlessOverwritten'
  BY <1>2, <1>28 DEF DatesInOrder, NeverTwiceUnlessOverwritten
<1> QED
  BY <1>16, <1>19, <1>20, <1>21, <1>22, <1>23, <1>26, <1>29 DEF NumbersInv

LEMMA NumbersStep == NumbersInv /\ [Next]_vars => NumbersInv'
<1> SUFFICES ASSUME NumbersInv, [Next]_vars PROVE NumbersInv'
  OBVIOUS
<1>1. CASE UNCHANGED vars
  <2>1. DrawnSound'
    BY <1>1 DEF vars, NumbersInv, DrawnSound, CanDraw, Stamped, LastOfBlock, NextNo
  <2>2. sess' \in [Sessions -> SessionType] /\ lock' \in Sessions \cup {NoSession}
    BY <1>1 DEF vars, NumbersInv, TypeOK
  <2> QED
    BY <1>1, <2>1, <2>2, OnlySessions DEF vars
<1>2. ASSUME NEW s \in Sessions, Ask(s) PROVE NumbersInv'
  BY <1>2, AskNumberStep
<1>3. ASSUME NEW s \in Sessions, Draw(s) PROVE NumbersInv'
  BY <1>3, DrawStep
<1>4. ASSUME NEW s \in Sessions, Commit(s) PROVE NumbersInv'
  BY <1>4, CommitStep
<1>5. ASSUME NEW s \in Sessions, Abort(s) PROVE NumbersInv'
  BY <1>5, AbortStep DEF Abort
<1>6. ASSUME NEW l \in Lines, OpenForm(l) PROVE NumbersInv'
  BY <1>6, OpenFormStep
<1>7. CASE SaveForm
  BY <1>7, SaveFormStep
<1> QED
  BY <1>1, <1>2, <1>3, <1>4, <1>5, <1>6, <1>7 DEF Next

\* The invariant says what is promised: no gap, and every number between the line's ends.
LEMMA NumbersInvSound == NumbersInv => NumbersSound
<1> SUFFICES ASSUME NumbersInv PROVE NumbersSound
  OBVIOUS
<1>1. NoGaps
  <2> SUFFICES ASSUME NEW l \in Lines
               PROVE  NumbersOf(l) = {First[l] + k * Increment[l] : k \in 0 .. Cardinality(NumbersOf(l)) - 1}
    BY DEF NoGaps, NumbersOf
  <2> QED
    BY SeriesCount DEF NumbersInv, FirstNumbers
<1>2. WithinRange
  <2> SUFFICES ASSUME NEW a \in issued, a.line \notin overwritten
               PROVE  First[a.line] <= a.no /\ ~ Exceeds(a.no, line[a.line].ending)
    BY DEF WithinRange
  <2>1. PICK l : l = a.line
    OBVIOUS
  <2>2. l \in Lines /\ a.no \in Nat /\ line[l].last \in Nat /\ line[l].ending \in Endings
    BY <2>1 DEF NumbersInv, TypeOK, IssuedType, RowType
  <2>3. a.no <= line[l].last /\ ~ Exceeds(line[l].last, line[l].ending)
    BY <2>1, <2>2 DEF NumbersInv, Ahead
  <2>4. ~ Exceeds(a.no, line[l].ending)
    BY <2>2, <2>3 DEF Exceeds, Endings
  <2>5. PICK n \in Nat : NumbersOf(l) = FirstNumbers(l, n)
    BY <2>2 DEF NumbersInv, SeriesOf
  <2>6. a.no \in FirstNumbers(l, n)
    BY <2>1, <2>5 DEF NumbersOf
  <2>7. PICK k \in 0 .. n - 1 : a.no = First[l] + k * Increment[l]
    BY <2>6 DEF FirstNumbers
  <2>8. PICK p : p = k * Increment[l]
    OBVIOUS
  <2>9. p \in Nat
    <3>1. k \in Nat /\ k \in Int /\ Increment[l] \in Nat \ {0}
      BY <2>2, ConstantsAssumption
    <3> QED
      BY <2>8, <3>1, StepsInOrder
  <2>10. First[l] \in Nat
    BY <2>2, ConstantsAssumption
  <2> QED
    BY <2>1, <2>4, <2>7, <2>8, <2>9, <2>10
<1> QED
  BY <1>1, <1>2 DEF NumbersInv, NumbersSound, LineSound

\* Whatever draws overlap, fail or are rolled back and whatever forms administrators save
\* over them (getNextNo, nextSequenceBatch, saveNoSeriesLine): the rows are sound, the
\* numbers leave no gap, are in the order of their dates where asked for, lie between the
\* ends of their line, and none is given twice unless a stale form put the line back.
THEOREM NumbersSoundAlways == Spec => []NumbersSound
<1>1. Init => NumbersInv
  BY NumbersInitInv
<1>2. NumbersInv /\ [Next]_vars => NumbersInv'
  BY NumbersStep
<1>3. NumbersInv => NumbersSound
  BY NumbersInvSound
<1> QED
  BY <1>1, <1>2, <1>3, PTL DEF Spec
-----------------------------------------------------------------------------
(* Outbox: a message is attempted so often, by one sender, and is SENT when *)
(* it went out.                                                             *)

\* A message that nobody put back while it was being sent: its attempts are those of its
\* senders, one more for each that died, and a sender has it for itself.
Accounted(m) ==
    /\ outbox[m].attempts <= MaxAttempts + senderCrashes
    /\ outbox[m].status = "QUEUED" => outbox[m].attempts < MaxAttempts + senderCrashes
    /\ outbox[m].status = "SENDING" /\ (\A s \in Senders : ~ Sends(s, m)) =>
          outbox[m].attempts < MaxAttempts + senderCrashes
    /\ \A s \in Senders : Sends(s, m) => /\ outbox[m].status \in {"SENDING", "CANCELLED"}
                                         /\ ~ outbox[m].passed /\ sender[s].read = outbox[m].attempts
    /\ \A s, t \in Senders : Sends(s, m) /\ Sends(t, m) => s = t

\* A sender the gateway has said "ok" to has sent.
OkMeansSent == \A s \in Senders : sender[s].at = "ok" => \A m \in sender[s].on : sends[m] > 0

OutboxInv ==
    /\ OutboxTypeOK /\ SentMeansSent /\ OkMeansSent
    /\ \A m \in Messages : m \in resent \/ Accounted(m)

LEMMA OutboxInitInv == OutboxInit => OutboxInv
<1> SUFFICES ASSUME OutboxInit PROVE OutboxInv
  OBVIOUS
<1>1. OutboxTypeOK
  BY OutboxAssumption DEF OutboxInit, OutboxTypeOK, OutboxRow, OutboxStatuses, SenderType, WaitingSender
<1>2. SentMeansSent /\ OkMeansSent
  BY DEF OutboxInit, SentMeansSent, OkMeansSent, WaitingSender
<1>3. \A m \in Messages : Accounted(m)
  <2>1. \A m \in Messages, s \in Senders : ~ Sends(s, m)
    BY DEF OutboxInit, Sends, WaitingSender
  <2>2. \A m \in Messages : outbox[m].attempts = 0 /\ outbox[m].status = "none"
    BY DEF OutboxInit
  <2>3. senderCrashes = 0
    BY DEF OutboxInit
  <2>4. 0 <= MaxAttempts + senderCrashes
    BY <2>3, OutboxAssumption
  <2> QED
    BY <2>1, <2>2, <2>4 DEF Accounted
<1> QED
  BY <1>1, <1>2, <1>3 DEF OutboxInv

\* A step that does not concern a message leaves its account alone.
LEMMA AccountKept ==
    ASSUME OutboxTypeOK, OutboxTypeOK', NEW m \in Messages, Accounted(m),
           outbox'[m] = outbox[m], senderCrashes <= senderCrashes',
           \A s \in Senders : Sends(s, m)' <=> Sends(s, m),
           \A s \in Senders : Sends(s, m) => sender'[s].read = sender[s].read
    PROVE  Accounted(m)'
<1>1. outbox[m].attempts \in Nat /\ senderCrashes \in Nat /\ senderCrashes' \in Nat
  BY OutboxAssumption DEF OutboxTypeOK, OutboxRow
<1> QED
  BY <1>1, OutboxAssumption DEF Accounted

\* Where Onward leaves a session: it sends nothing.
LEMMA OnwardIdle ==
    ASSUME OutboxTypeOK, NEW s \in Senders, NEW todo \in SUBSET Messages, Onward(s, todo)
    PROVE  /\ sender' \in [Senders -> SenderType]
           /\ \A t \in Senders : t # s => sender'[t] = sender[t]
           /\ sender'[s].at \in {"idle", "claim"} /\ \A m \in Messages : ~ Sends(s, m)'
<1> DEFINE new == IF todo = {} THEN WaitingSender ELSE [WaitingSender EXCEPT !.at = "claim", !.todo = todo]
<1>1. new \in SenderType /\ new.at \in {"idle", "claim"}
  BY DEF SenderType, WaitingSender
<1>2. sender' = [sender EXCEPT ![s] = new] /\ sender \in [Senders -> SenderType]
  BY DEF Onward, OutboxTypeOK
<1> HIDE DEF new
<1>3. sender' \in [Senders -> SenderType] /\ sender'[s] = new /\ \A t \in Senders : t # s => sender'[t] = sender[t]
  BY <1>1, <1>2
<1> QED
  BY <1>1, <1>3 DEF Sends

LEMMA EnqueueStep ==
    ASSUME OutboxInv, NEW s \in Senders, NEW m \in Messages, Enqueue(s, m)
    PROVE  OutboxInv'
<1> DEFINE new == [status |-> "QUEUED", attempts |-> 0, passed |-> TRUE]
<1>1. /\ outbox[m].status = "none" /\ FreeSender(s) /\ Onward(s, {m})
      /\ outbox' = [outbox EXCEPT ![m] = new] /\ UNCHANGED <<sends, persons, senderCrashes, resent>>
  BY DEF Enqueue
<1>2. new \in OutboxRow /\ outbox \in [Messages -> OutboxRow] /\ OutboxTypeOK
  BY DEF OutboxRow, OutboxStatuses, OutboxInv, OutboxTypeOK
<1>3. /\ sender' \in [Senders -> SenderType]
      /\ \A t \in Senders : t # s => sender'[t] = sender[t]
      /\ sender'[s].at \in {"idle", "claim"} /\ \A n \in Messages : ~ Sends(s, n)'
  BY <1>1, <1>2, OnwardIdle
<1>4. outbox' \in [Messages -> OutboxRow] /\ \A n \in Messages : outbox'[n] = IF n = m THEN new ELSE outbox[n]
  <2> HIDE DEF new
  <2> QED
    BY <1>1, <1>2
<1>5. OutboxTypeOK'
  BY <1>1, <1>2, <1>3, <1>4 DEF OutboxTypeOK
<1>6. SentMeansSent' /\ OkMeansSent'
  BY <1>1, <1>3, <1>4 DEF OutboxInv, SentMeansSent, OkMeansSent
<1>7. \A n \in Messages, t \in Senders : Sends(t, n)' <=> Sends(t, n)
  BY <1>1, <1>3 DEF Sends, FreeSender
<1>8. ASSUME NEW n \in Messages, n \notin resent' PROVE Accounted(n)'
  <2>1. Accounted(n) /\ senderCrashes' = senderCrashes /\ senderCrashes \in Nat
    BY <1>1, <1>2, <1>8, OutboxAssumption DEF OutboxInv, OutboxTypeOK
  <2>2. CASE n = m
    <3>1. \A t \in Senders : ~ Sends(t, n)
      BY <1>1, <2>1, <2>2 DEF Accounted
    <3> QED
      BY <1>4, <1>7, <2>1, <2>2, <3>1, OutboxAssumption DEF Accounted
  <2>3. CASE n # m
    <3>1. \A t \in Senders : Sends(t, n) => sender'[t].read = sender[t].read
      BY <1>1, <1>3 DEF Sends, FreeSender
    <3> QED
      BY <1>2, <1>4, <1>5, <1>7, <2>1, <2>3, <3>1, AccountKept
  <2> QED
    BY <2>2, <2>3
<1> QED
  BY <1>5, <1>6, <1>8 DEF OutboxInv

\* One session moves on, the rows stay: it sends what it sent, or nothing.
LEMMA SessionMoves ==
    ASSUME OutboxInv, NEW s \in Senders, NEW new \in SenderType,
           sender' = [sender EXCEPT ![s] = new], UNCHANGED <<outbox, sends, resent>>,
           persons' \in 0 .. MaxPersons, senderCrashes' = senderCrashes, new.at # "ok",
           \A m \in Messages : ~ Sends(s, m), new.at \notin {"send", "error", "unconfigured"}
    PROVE  OutboxInv'
<1>1. OutboxTypeOK /\ sender \in [Senders -> SenderType]
  BY DEF OutboxInv, OutboxTypeOK
<1>2. /\ sender' \in [Senders -> SenderType] /\ sender'[s] = new
      /\ \A t \in Senders : t # s => sender'[t] = sender[t]
  BY <1>1
<1>3. OutboxTypeOK'
  BY <1>1, <1>2 DEF OutboxTypeOK
<1>4. SentMeansSent' /\ OkMeansSent'
  BY <1>2 DEF OutboxInv, SentMeansSent, OkMeansSent
<1>5. \A m \in Messages, t \in Senders : Sends(t, m)' <=> Sends(t, m)
  BY <1>2 DEF Sends
<1>6. \A m \in Messages, t \in Senders : Sends(t, m) => sender'[t].read = sender[t].read
  BY <1>2
<1>7. senderCrashes <= senderCrashes'
  BY <1>1, OutboxAssumption DEF OutboxTypeOK
<1>8. \A m \in Messages : m \in resent' \/ Accounted(m)'
  BY <1>1, <1>3, <1>5, <1>6, <1>7, AccountKept DEF OutboxInv
<1> QED
  BY <1>3, <1>4, <1>8 DEF OutboxInv

\* Rows that neither wait nor are sent change to others of the kind.
LEMMA RowsChange ==
    ASSUME OutboxInv, outbox' \in [Messages -> OutboxRow], UNCHANGED <<sends, persons, senderCrashes>>,
           sender' \in [Senders -> SenderType], resent' \subseteq Messages, resent \subseteq resent',
           \A s \in Senders : sender'[s].at = "ok" => sender'[s] = sender[s],
           \A m \in Messages : outbox'[m].status \in {"SENT", "purged"} => sends[m] > 0,
           \A m \in Messages : m \in resent' \/ (Accounted(m) => Accounted(m)')
    PROVE  OutboxInv'
<1>1. OutboxTypeOK'
  BY DEF OutboxInv, OutboxTypeOK
<1>2. SentMeansSent' /\ OkMeansSent'
  BY DEF OutboxInv, SentMeansSent, OkMeansSent
<1>3. \A m \in Messages : m \in resent' \/ Accounted(m)'
  BY DEF OutboxInv
<1> QED
  BY <1>1, <1>2, <1>3 DEF OutboxInv

LEMMA ListDueStep ==
    ASSUME OutboxInv, NEW s \in Senders, ListDue(s)
    PROVE  OutboxInv'
<1> DEFINE due == {m \in Messages : outbox[m].status = "QUEUED" /\ outbox[m].passed}
           new == IF due = {} THEN WaitingSender ELSE [WaitingSender EXCEPT !.at = "claim", !.todo = due]
<1>1. sender[s].at = "list" /\ sender' = [sender EXCEPT ![s] = new] /\ UNCHANGED <<outbox, sends, persons, senderCrashes, resent>>
  BY DEF ListDue, Onward
<1>2. new \in SenderType /\ new.at \in {"idle", "claim"}
  BY DEF SenderType, WaitingSender
<1>3. \A m \in Messages : ~ Sends(s, m)
  BY <1>1 DEF Sends
<1> HIDE DEF new
<1>4. persons' \in 0 .. MaxPersons
  BY <1>1 DEF OutboxInv, OutboxTypeOK
<1>5. \A nw \in SenderType : sender' = [sender EXCEPT ![s] = nw] /\ nw.at \in {"idle", "claim"} => OutboxInv'
  BY <1>1, <1>3, <1>4, SessionMoves
<1> QED
  BY <1>1, <1>2, <1>5

LEMMA PersonStep ==
    ASSUME OutboxInv, NEW s \in Senders, NEW m \in Messages, NEW what \in {"retry", "cancel"}, Person(s, m, what)
    PROVE  OutboxInv'
<1> DEFINE new == [WaitingSender EXCEPT !.at = what, !.on = {m}]
<1>1. /\ FreeSender(s) /\ sender' = [sender EXCEPT ![s] = new]
      /\ persons' = persons + 1 /\ persons < MaxPersons
      /\ UNCHANGED <<outbox, sends, senderCrashes, resent>>
  BY DEF Person
<1>2. new \in SenderType /\ new.at = what
  BY DEF SenderType, WaitingSender
<1>3. \A n \in Messages : ~ Sends(s, n)
  BY <1>1 DEF Sends, FreeSender
<1>4. persons' \in 0 .. MaxPersons
  BY <1>1, OutboxAssumption DEF OutboxInv, OutboxTypeOK
<1> HIDE DEF new
<1> QED
  BY <1>1, <1>2, <1>3, <1>4, SessionMoves

LEMMA RequeueStep ==
    ASSUME OutboxInv, NEW s \in Senders, RequeueLost(s)
    PROVE  OutboxInv'
<1>1. /\ FreeSender(s) /\ sender' = [sender EXCEPT ![s].at = "list"]
      /\ outbox' = [m \in Messages |-> IF outbox[m].status = "SENDING" /\ outbox[m].passed
                                       THEN [outbox[m] EXCEPT !.status = "QUEUED"] ELSE outbox[m]]
      /\ UNCHANGED <<sends, persons, senderCrashes, resent>>
  BY DEF RequeueLost
<1>2. OutboxTypeOK /\ sender \in [Senders -> SenderType] /\ \A m \in Messages : outbox[m] \in OutboxRow
  BY DEF OutboxInv, OutboxTypeOK
<1>3. /\ \A t \in Senders : t # s => sender'[t] = sender[t]
      /\ sender'[s] \in SenderType /\ sender'[s].at = "list" /\ sender' \in [Senders -> SenderType]
  <2>1. sender[s] \in SenderType
    BY <1>2
  <2>2. [sender[s] EXCEPT !.at = "list"] \in SenderType /\ [sender[s] EXCEPT !.at = "list"].at = "list"
    BY <2>1 DEF SenderType
  <2>3. sender' = [sender EXCEPT ![s] = [sender[s] EXCEPT !.at = "list"]]
    BY <1>1
  <2> QED
    BY <1>2, <2>2, <2>3
<1>4. \A m \in Messages, t \in Senders : Sends(t, m)' <=> Sends(t, m)
  BY <1>1, <1>3 DEF Sends, FreeSender
<1>5. \A m \in Messages : /\ outbox'[m] \in OutboxRow /\ outbox'[m].attempts = outbox[m].attempts
                          /\ outbox'[m].status = (IF outbox[m].status = "SENDING" /\ outbox[m].passed
                                                  THEN "QUEUED" ELSE outbox[m].status)
                          /\ ~ (outbox[m].status = "SENDING" /\ outbox[m].passed) => outbox'[m] = outbox[m]
  BY <1>1, <1>2 DEF OutboxRow, OutboxStatuses
<1>6. outbox' \in [Messages -> OutboxRow]
  BY <1>1, <1>5
<1>7. ASSUME NEW m \in Messages, Accounted(m) PROVE Accounted(m)'
  <2>1. CASE outbox[m].status = "SENDING" /\ outbox[m].passed
    <3>1. \A t \in Senders : ~ Sends(t, m)
      BY <1>7, <2>1 DEF Accounted
    <3>2. outbox[m].attempts < MaxAttempts + senderCrashes
      BY <1>7, <2>1, <3>1 DEF Accounted
    <3> QED
      BY <1>1, <1>4, <1>5, <1>7, <2>1, <3>1, <3>2 DEF Accounted
  <2>2. CASE ~ (outbox[m].status = "SENDING" /\ outbox[m].passed)
    <3>1. outbox'[m] = outbox[m]
      BY <1>5, <2>2
    <3>2. \A t \in Senders : Sends(t, m) => sender'[t].read = sender[t].read
      BY <1>1, <1>3 DEF Sends, FreeSender
    <3> QED
      BY <1>1, <1>4, <1>7, <3>1, <3>2 DEF Accounted
  <2> QED
    BY <2>1, <2>2
<1>8. \A m \in Messages : outbox'[m].status \in {"SENT", "purged"} => sends[m] > 0
  BY <1>5 DEF OutboxInv, SentMeansSent
<1>9. \A t \in Senders : sender'[t].at = "ok" => sender'[t] = sender[t]
  BY <1>3
<1>10. resent' \subseteq Messages /\ resent \subseteq resent'
  BY <1>1, <1>2 DEF OutboxTypeOK
<1> QED
  BY <1>1, <1>3, <1>6, <1>7, <1>8, <1>9, <1>10, RowsChange

LEMMA ClaimStep ==
    ASSUME OutboxInv, NEW s \in Senders, Claim(s)
    PROVE  OutboxInv'
<1>1. /\ sender[s].at = "claim" /\ UNCHANGED <<sends, persons, senderCrashes, resent>>
      /\ OutboxTypeOK /\ sender \in [Senders -> SenderType] /\ sender[s] \in SenderType
  BY DEF Claim, OutboxInv, OutboxTypeOK
<1>2. \A n \in Messages : ~ Sends(s, n)
  BY <1>1 DEF Sends
<1>3. PICK m \in sender[s].todo :
          IF outbox[m].status = "QUEUED"
          THEN /\ outbox' = [outbox EXCEPT ![m] = [status |-> "SENDING", attempts |-> @.attempts + 1, passed |-> FALSE]]
               /\ sender' = [sender EXCEPT ![s] = [at |-> "send", on |-> {m}, todo |-> @.todo \ {m},
                                               read |-> outbox[m].attempts + 1]]
          ELSE Onward(s, sender[s].todo \ {m}) /\ UNCHANGED outbox
  BY DEF Claim
<1>4. m \in Messages /\ outbox[m] \in OutboxRow
  BY <1>1 DEF SenderType, OutboxTypeOK
<1>5. CASE outbox[m].status # "QUEUED"
  <2> DEFINE todo == sender[s].todo \ {m}
             new == IF todo = {} THEN WaitingSender ELSE [WaitingSender EXCEPT !.at = "claim", !.todo = todo]
  <2>1. sender' = [sender EXCEPT ![s] = new] /\ outbox' = outbox
    BY <1>3, <1>5 DEF Onward
  <2>2. todo \in SUBSET Messages
    BY <1>1 DEF SenderType
  <2>3. new \in SenderType /\ new.at \in {"idle", "claim"}
    BY <2>2 DEF SenderType, WaitingSender
  <2>4. persons' \in 0 .. MaxPersons
    BY <1>1 DEF OutboxTypeOK
  <2> HIDE DEF new
  <2>5. PICK nw \in SenderType : sender' = [sender EXCEPT ![s] = nw] /\ nw.at \in {"idle", "claim"}
    BY <2>1, <2>3
  <2> QED
    BY <1>1, <1>2, <2>1, <2>4, <2>5, SessionMoves
<1>6. CASE outbox[m].status = "QUEUED"
  <2>1. PICK row : row = [status |-> "SENDING", attempts |-> outbox[m].attempts + 1, passed |-> FALSE]
    OBVIOUS
  <2>2. PICK new : new = [at |-> "send", on |-> {m}, todo |-> sender[s].todo \ {m}, read |-> outbox[m].attempts + 1]
    OBVIOUS
  <2>3. outbox' = [outbox EXCEPT ![m] = row] /\ sender' = [sender EXCEPT ![s] = new]
    BY <1>3, <1>6, <2>1, <2>2
  <2>4. row \in OutboxRow /\ new \in SenderType
    BY <1>1, <1>4, <2>1, <2>2 DEF OutboxRow, OutboxStatuses, SenderType
  <2>5. /\ outbox' \in [Messages -> OutboxRow] /\ sender' \in [Senders -> SenderType]
        /\ \A n \in Messages : outbox'[n] = IF n = m THEN row ELSE outbox[n]
        /\ \A t \in Senders : sender'[t] = IF t = s THEN new ELSE sender[t]
    BY <1>1, <2>3, <2>4 DEF OutboxTypeOK
  <2>6. /\ \A n \in Messages : Sends(s, n)' <=> n = m
        /\ \A n \in Messages, t \in Senders : t # s => (Sends(t, n)' <=> Sends(t, n))
    BY <2>2, <2>5 DEF Sends
  <2>7. ASSUME NEW n \in Messages, Accounted(n) PROVE Accounted(n)'
    <3>1. CASE n # m
      BY <1>1, <1>2, <2>5, <2>6, <2>7, <3>1 DEF Accounted
    <3>2. CASE n = m
      <4>1. \A t \in Senders : ~ Sends(t, n)
        BY <1>6, <2>7, <3>2 DEF Accounted
      <4>2. outbox'[n] = row /\ \A t \in Senders : Sends(t, n)' <=> t = s
        BY <2>5, <2>6, <3>2, <4>1
      <4>3. outbox[n].attempts < MaxAttempts + senderCrashes /\ outbox[n].attempts \in Nat
            /\ senderCrashes \in Nat
        BY <1>1, <1>4, <1>6, <2>7, <3>2, OutboxAssumption DEF Accounted, OutboxRow, OutboxTypeOK
      <4>4. row.status = "SENDING" /\ row.attempts = outbox[n].attempts + 1 /\ row.passed = FALSE
            /\ sender'[s].read = row.attempts
        BY <2>1, <2>2, <2>5, <3>2
      <4>5. outbox'[n].attempts <= MaxAttempts + senderCrashes'
        BY <1>1, <4>2, <4>3, <4>4, OutboxAssumption
      <4> QED
        BY <1>1, <4>2, <4>4, <4>5 DEF Accounted
    <3> QED
      BY <3>1, <3>2
  <2>8. \A n \in Messages : outbox'[n].status \in {"SENT", "purged"} => sends[n] > 0
    BY <2>1, <2>5 DEF OutboxInv, SentMeansSent
  <2>9. \A t \in Senders : sender'[t].at = "ok" => sender'[t] = sender[t]
    BY <2>2, <2>5
  <2>10. resent' \subseteq Messages /\ resent \subseteq resent'
    BY <1>1 DEF OutboxTypeOK
  <2> QED
    BY <1>1, <2>5, <2>7, <2>8, <2>9, <2>10, RowsChange
<1> QED
  BY <1>5, <1>6

LEMMA TransportStep ==
    ASSUME OutboxInv, NEW s \in Senders, Transport(s)
    PROVE  OutboxInv'
<1>1. PICK went \in BOOLEAN, answer \in {"ok", "error", "unconfigured"} :
          /\ answer = "ok" => went
          /\ sends' = [m \in Messages |-> sends[m] + IF went /\ m \in sender[s].on THEN 1 ELSE 0]
          /\ sender' = [sender EXCEPT ![s].at = answer]
  BY DEF Transport
<1>2. /\ sender[s].at = "send" /\ UNCHANGED <<outbox, persons, senderCrashes, resent>>
      /\ OutboxTypeOK /\ sender \in [Senders -> SenderType] /\ sender[s] \in SenderType
      /\ sends \in [Messages -> Nat]
  BY DEF Transport, OutboxInv, OutboxTypeOK
<1>3. /\ sends' \in [Messages -> Nat] /\ \A m \in Messages : sends'[m] >= sends[m]
      /\ went => \A m \in sender[s].on : sends'[m] > 0
  <2>1. \A m \in sender[s].on : m \in Messages
    BY <1>2 DEF SenderType
  <2> QED
    BY <1>1, <1>2, <2>1
<1>4. /\ sender' \in [Senders -> SenderType] /\ \A t \in Senders : t # s => sender'[t] = sender[t]
      /\ sender'[s].at = answer /\ sender'[s].on = sender[s].on /\ sender'[s].read = sender[s].read
  <2>1. PICK new : new = [sender[s] EXCEPT !.at = answer]
    OBVIOUS
  <2>2. new \in SenderType /\ new.at = answer /\ new.on = sender[s].on /\ new.read = sender[s].read
    BY <1>2, <2>1 DEF SenderType
  <2>3. sender' = [sender EXCEPT ![s] = new]
    BY <1>1, <2>1
  <2> QED
    BY <1>2, <2>2, <2>3
<1>5. OutboxTypeOK'
  BY <1>2, <1>3, <1>4 DEF OutboxTypeOK
<1>6. SentMeansSent'
  <2>1. \A m \in Messages : sends[m] > 0 => sends'[m] > 0
    BY <1>2, <1>3
  <2> QED
    BY <1>2, <2>1 DEF OutboxInv, SentMeansSent
<1>7. OkMeansSent'
  <2> SUFFICES ASSUME NEW t \in Senders, sender'[t].at = "ok", NEW m \in sender'[t].on
               PROVE  sends'[m] > 0
    BY DEF OkMeansSent
  <2>1. CASE t = s
    BY <1>1, <1>3, <1>4, <2>1
  <2>2. CASE t # s
    <3>1. m \in Messages /\ sends[m] > 0
      BY <1>2, <1>4, <2>2 DEF OutboxInv, OkMeansSent, SenderType
    <3> QED
      BY <1>2, <1>3, <3>1
  <2> QED
    BY <2>1, <2>2
<1>8. \A m \in Messages, t \in Senders : Sends(t, m)' <=> Sends(t, m)
  BY <1>2, <1>4 DEF Sends
<1>9. \A t \in Senders : sender'[t].read = sender[t].read
  BY <1>4
<1>10. \A m \in Messages : m \in resent' \/ Accounted(m)'
  BY <1>2, <1>8, <1>9 DEF OutboxInv, Accounted
<1> QED
  BY <1>5, <1>6, <1>7, <1>10 DEF OutboxInv

LEMMA RecordStep ==
    ASSUME OutboxInv, NEW s \in Senders, Record(s)
    PROVE  OutboxInv'
<1>1. /\ sender[s].at \in {"ok", "error", "unconfigured"} /\ UNCHANGED <<sends, persons, senderCrashes, resent>>
      /\ Onward(s, sender[s].todo)
      /\ OutboxTypeOK /\ sender \in [Senders -> SenderType] /\ sender[s] \in SenderType
      /\ \A m \in Messages : outbox[m] \in OutboxRow
  BY DEF Record, OutboxInv, OutboxTypeOK
<1>2. sender[s].todo \in SUBSET Messages /\ sender[s].on \in SUBSET Messages /\ sender[s].read \in Nat
  BY <1>1 DEF SenderType
<1>3. /\ sender' \in [Senders -> SenderType] /\ \A t \in Senders : t # s => sender'[t] = sender[t]
      /\ sender'[s].at \in {"idle", "claim"} /\ \A m \in Messages : ~ Sends(s, m)'
  BY <1>1, <1>2, OnwardIdle
<1>4. PICK o : o = Outcome(s)
  OBVIOUS
<1>5. /\ o \in {"SENT", "FAILED", "QUEUED"} /\ (o = "SENT" => sender[s].at = "ok")
      /\ o = "QUEUED" => sender[s].read < MaxAttempts
  <2>1. ~ (sender[s].read >= MaxAttempts) => sender[s].read < MaxAttempts
    BY <1>2, OutboxAssumption
  <2> QED
    BY <1>1, <1>4, <2>1 DEF Outcome
<1>6. \A m \in Messages : m \in sender[s].on => /\ outbox'[m].status = o /\ outbox'[m].attempts = outbox[m].attempts
                                                /\ outbox'[m].passed = FALSE /\ outbox'[m] \in OutboxRow
  BY <1>1, <1>4, <1>5 DEF Record, OutboxRow, OutboxStatuses
<1>7. \A m \in Messages : m \notin sender[s].on => outbox'[m] = outbox[m]
  BY DEF Record
<1>8. outbox' \in [Messages -> OutboxRow]
  <2>1. outbox' = [m \in Messages |-> outbox'[m]]
    BY DEF Record
  <2> QED
    BY <1>1, <1>6, <1>7, <2>1
<1>9. \A m \in Messages : outbox'[m].status \in {"SENT", "purged"} => sends[m] > 0
  BY <1>5, <1>6, <1>7 DEF OutboxInv, SentMeansSent, OkMeansSent
<1>10. ASSUME NEW m \in Messages, Accounted(m) PROVE Accounted(m)'
  <2>1. CASE m \notin sender[s].on
    <3>1. \A t \in Senders : (Sends(t, m)' <=> Sends(t, m)) /\ (Sends(t, m) => sender'[t].read = sender[t].read)
      BY <1>3, <2>1 DEF Sends
    <3> QED
      BY <1>1, <1>7, <1>10, <2>1, <3>1 DEF Accounted
  <2>2. CASE m \in sender[s].on
    <3>1. Sends(s, m)
      BY <1>1, <2>2 DEF Sends
    <3>2. \A t \in Senders : ~ Sends(t, m)'
      <4>1. \A t \in Senders : t # s => ~ Sends(t, m)
        BY <1>10, <3>1 DEF Accounted
      <4> QED
        BY <1>3, <4>1 DEF Sends
    <3>3. outbox[m].attempts = sender[s].read /\ outbox[m].attempts <= MaxAttempts + senderCrashes
      BY <1>10, <3>1 DEF Accounted
    <3>4. o = "QUEUED" => outbox[m].attempts < MaxAttempts + senderCrashes
      BY <1>1, <1>2, <1>5, <3>3, OutboxAssumption DEF OutboxTypeOK
    <3> QED
      BY <1>1, <1>5, <1>6, <2>2, <3>2, <3>3, <3>4 DEF Accounted
  <2> QED
    BY <2>1, <2>2
<1>11. \A t \in Senders : sender'[t].at = "ok" => sender'[t] = sender[t]
  BY <1>3
<1>12. resent' \subseteq Messages /\ resent \subseteq resent'
  BY <1>1 DEF OutboxTypeOK
<1> QED
  BY <1>1, <1>3, <1>8, <1>9, <1>10, <1>11, <1>12, RowsChange

LEMMA RetryStep ==
    ASSUME OutboxInv, NEW s \in Senders, RetryWrite(s)
    PROVE  OutboxInv'
<1>1. /\ sender[s].at = "retry" /\ UNCHANGED <<sends, persons, senderCrashes>>
      /\ Onward(s, sender[s].on)
      /\ resent' = resent \cup {m \in sender[s].on : \E t \in Senders : Sends(t, m)}
      /\ OutboxTypeOK /\ sender \in [Senders -> SenderType] /\ sender[s] \in SenderType
      /\ \A m \in Messages : outbox[m] \in OutboxRow
  BY DEF RetryWrite, OutboxInv, OutboxTypeOK
<1>2. sender[s].on \in SUBSET Messages
  BY <1>1 DEF SenderType
<1>3. /\ sender' \in [Senders -> SenderType] /\ \A t \in Senders : t # s => sender'[t] = sender[t]
      /\ sender'[s].at \in {"idle", "claim"} /\ \A m \in Messages : ~ Sends(s, m)'
  BY <1>1, <1>2, OnwardIdle
<1>4. \A m \in Messages : m \in sender[s].on =>
          outbox'[m].status = "QUEUED" /\ outbox'[m].attempts = 0 /\ outbox'[m] \in OutboxRow
  BY <1>1 DEF RetryWrite, OutboxRow, OutboxStatuses
<1>5. \A m \in Messages : m \notin sender[s].on => outbox'[m] = outbox[m]
  BY DEF RetryWrite
<1>6. outbox' \in [Messages -> OutboxRow]
  <2>1. outbox' = [m \in Messages |-> outbox'[m]]
    BY DEF RetryWrite
  <2> QED
    BY <1>1, <1>4, <1>5, <2>1
<1>7. \A m \in Messages, t \in Senders : Sends(t, m)' <=> Sends(t, m)
  BY <1>1, <1>3 DEF Sends
<1>8. ASSUME NEW m \in Messages, m \notin resent', Accounted(m) PROVE Accounted(m)'
  <2>1. CASE m \notin sender[s].on
    <3>1. \A t \in Senders : Sends(t, m) => sender'[t].read = sender[t].read
      BY <1>1, <1>3 DEF Sends
    <3> QED
      BY <1>1, <1>5, <1>7, <1>8, <2>1, <3>1 DEF Accounted
  <2>2. CASE m \in sender[s].on
    <3>1. \A t \in Senders : ~ Sends(t, m)'
      BY <1>1, <1>7, <1>8, <2>2
    <3>2. 0 < MaxAttempts + senderCrashes /\ 0 <= MaxAttempts + senderCrashes
      BY <1>1, OutboxAssumption DEF OutboxTypeOK
    <3> QED
      BY <1>1, <1>4, <2>2, <3>1, <3>2 DEF Accounted
  <2> QED
    BY <2>1, <2>2
<1>9. \A m \in Messages : outbox'[m].status \in {"SENT", "purged"} => sends[m] > 0
  BY <1>4, <1>5 DEF OutboxInv, SentMeansSent
<1>10. \A t \in Senders : sender'[t].at = "ok" => sender'[t] = sender[t]
  BY <1>3
<1>11. resent' \subseteq Messages /\ resent \subseteq resent'
  BY <1>1, <1>2 DEF OutboxTypeOK
<1> QED
  BY <1>1, <1>3, <1>6, <1>8, <1>9, <1>10, <1>11, RowsChange

LEMMA CancelStep ==
    ASSUME OutboxInv, NEW s \in Senders, CancelWrite(s)
    PROVE  OutboxInv'
<1>1. /\ sender[s].at = "cancel" /\ UNCHANGED <<sends, persons, senderCrashes, resent>>
      /\ Onward(s, {})
      /\ OutboxTypeOK /\ sender \in [Senders -> SenderType] /\ sender[s] \in SenderType
      /\ \A m \in Messages : outbox[m] \in OutboxRow
  BY DEF CancelWrite, OutboxInv, OutboxTypeOK
<1>2. /\ sender' \in [Senders -> SenderType] /\ \A t \in Senders : t # s => sender'[t] = sender[t]
      /\ sender'[s].at \in {"idle", "claim"} /\ \A m \in Messages : ~ Sends(s, m)'
  BY <1>1, OnwardIdle
<1>3. \A m \in Messages : /\ outbox'[m].attempts = outbox[m].attempts /\ outbox'[m].passed = outbox[m].passed
                          /\ outbox'[m] \in OutboxRow
                          /\ outbox'[m] = outbox[m] \/ outbox'[m].status = "CANCELLED"
  BY <1>1 DEF CancelWrite, OutboxRow, OutboxStatuses
<1>4. outbox' \in [Messages -> OutboxRow]
  <2>1. outbox' = [m \in Messages |-> outbox'[m]]
    BY DEF CancelWrite
  <2> QED
    BY <1>3, <2>1
<1>5. \A m \in Messages, t \in Senders : Sends(t, m)' <=> Sends(t, m)
  BY <1>1, <1>2 DEF Sends
<1>6. \A m \in Messages, t \in Senders : Sends(t, m) => sender'[t].read = sender[t].read
  BY <1>1, <1>2 DEF Sends
<1>7. ASSUME NEW m \in Messages, Accounted(m) PROVE Accounted(m)'
  BY <1>1, <1>3, <1>5, <1>6, <1>7 DEF Accounted
<1>8. \A m \in Messages : outbox'[m].status \in {"SENT", "purged"} => sends[m] > 0
  BY <1>3 DEF OutboxInv, SentMeansSent
<1>9. \A t \in Senders : sender'[t].at = "ok" => sender'[t] = sender[t]
  BY <1>2
<1>10. resent' \subseteq Messages /\ resent \subseteq resent'
  BY <1>1 DEF OutboxTypeOK
<1> QED
  BY <1>1, <1>2, <1>4, <1>7, <1>8, <1>9, <1>10, RowsChange

\* Time and the purge touch one row.
LEMMA TimeStep ==
    ASSUME OutboxInv, ~ SlowSends, NEW m \in Messages, TimePasses(m) \/ Purge(m)
    PROVE  OutboxInv'
<1>1. /\ UNCHANGED <<sends, sender, persons, senderCrashes, resent>> /\ OutboxTypeOK
      /\ outbox[m] \in OutboxRow
  BY DEF TimePasses, Purge, OutboxInv, OutboxTypeOK
<1>2. PICK row \in OutboxRow :
          /\ outbox' = [outbox EXCEPT ![m] = row] /\ row.attempts = outbox[m].attempts
          /\ \/ row.status = outbox[m].status /\ outbox[m].status \in {"QUEUED", "SENDING"}
                /\ (outbox[m].status = "SENDING" => \A s \in Senders : ~ Sends(s, m))
             \/ row.status = "purged" /\ outbox[m].status = "SENT"
  <2>1. CASE TimePasses(m)
    <3>1. PICK row : row = [outbox[m] EXCEPT !.passed = TRUE]
      OBVIOUS
    <3>2. row \in OutboxRow /\ row.attempts = outbox[m].attempts /\ row.status = outbox[m].status
      BY <1>1, <3>1 DEF OutboxRow
    <3>3. outbox' = [outbox EXCEPT ![m] = row]
      BY <2>1, <3>1 DEF TimePasses
    <3> QED
      BY <2>1, <3>2, <3>3 DEF TimePasses
  <2>2. CASE Purge(m)
    <3>1. PICK row : row = [outbox[m] EXCEPT !.status = "purged"]
      OBVIOUS
    <3>2. row \in OutboxRow /\ row.attempts = outbox[m].attempts /\ row.status = "purged"
      BY <1>1, <3>1 DEF OutboxRow, OutboxStatuses
    <3>3. outbox' = [outbox EXCEPT ![m] = row]
      BY <2>2, <3>1 DEF Purge
    <3> QED
      BY <2>2, <3>2, <3>3 DEF Purge
  <2> QED
    BY <2>1, <2>2
<1>3. outbox' \in [Messages -> OutboxRow] /\ \A n \in Messages : outbox'[n] = IF n = m THEN row ELSE outbox[n]
  BY <1>1, <1>2 DEF OutboxTypeOK
<1>4. \A n \in Messages, t \in Senders : Sends(t, n)' <=> Sends(t, n)
  BY <1>1 DEF Sends
<1>5. ASSUME NEW n \in Messages, Accounted(n) PROVE Accounted(n)'
  <2>1. CASE n # m
    BY <1>1, <1>3, <1>4, <1>5, <2>1 DEF Accounted
  <2>2. CASE n = m
    <3>1. \A t \in Senders : ~ Sends(t, n)
      BY <1>2, <1>5, <2>2 DEF Accounted
    <3> QED
      BY <1>1, <1>2, <1>3, <1>4, <1>5, <2>2, <3>1 DEF Accounted
  <2> QED
    BY <2>1, <2>2
<1>6. \A n \in Messages : outbox'[n].status \in {"SENT", "purged"} => sends[n] > 0
  BY <1>2, <1>3 DEF OutboxInv, SentMeansSent
<1>7. resent' \subseteq Messages /\ resent \subseteq resent' /\ sender' \in [Senders -> SenderType]
      /\ \A t \in Senders : sender'[t].at = "ok" => sender'[t] = sender[t]
  BY <1>1 DEF OutboxTypeOK
<1> QED
  BY <1>1, <1>3, <1>5, <1>6, <1>7, RowsChange

LEMMA CrashStep ==
    ASSUME OutboxInv, NEW s \in Senders, SenderCrash(s)
    PROVE  OutboxInv'
<1>1. /\ senderCrashes < MaxSenderCrashes /\ senderCrashes' = senderCrashes + 1 /\ Onward(s, {})
      /\ UNCHANGED <<outbox, sends, persons, resent>> /\ OutboxTypeOK /\ senderCrashes \in Nat
  BY OutboxAssumption DEF SenderCrash, OutboxInv, OutboxTypeOK
<1>2. /\ sender' \in [Senders -> SenderType] /\ \A t \in Senders : t # s => sender'[t] = sender[t]
      /\ sender'[s].at \in {"idle", "claim"} /\ \A m \in Messages : ~ Sends(s, m)'
  BY <1>1, OnwardIdle
<1>3. OutboxTypeOK'
  <2>1. senderCrashes' \in 0 .. MaxSenderCrashes
    BY <1>1, OutboxAssumption
  <2> QED
    BY <1>1, <1>2, <2>1 DEF OutboxTypeOK
<1>4. SentMeansSent' /\ OkMeansSent'
  BY <1>1, <1>2 DEF OutboxInv, SentMeansSent, OkMeansSent
<1>5. ASSUME NEW m \in Messages, Accounted(m) PROVE Accounted(m)'
  <2>1. \A t \in Senders : Sends(t, m)' => Sends(t, m) /\ sender'[t].read = sender[t].read
    BY <1>2 DEF Sends
  <2>2. outbox[m].attempts \in Nat /\ MaxAttempts \in Nat
    BY <1>1, OutboxAssumption DEF OutboxTypeOK, OutboxRow
  <2>3. outbox[m].attempts <= MaxAttempts + senderCrashes
    BY <1>5 DEF Accounted
  <2>4. outbox'[m].attempts < MaxAttempts + senderCrashes'
    BY <1>1, <2>2, <2>3
  <2>5. outbox'[m].attempts <= MaxAttempts + senderCrashes'
    BY <1>1, <2>2, <2>3
  <2> QED
    BY <1>1, <1>5, <2>1, <2>4, <2>5 DEF Accounted
<1> QED
  BY <1>1, <1>3, <1>4, <1>5 DEF OutboxInv

LEMMA OutboxStep == ~ SlowSends /\ OutboxInv /\ [OutboxNext]_outboxVars => OutboxInv'
<1> SUFFICES ASSUME ~ SlowSends, OutboxInv, [OutboxNext]_outboxVars PROVE OutboxInv'
  OBVIOUS
<1>1. CASE UNCHANGED outboxVars
  BY <1>1 DEF outboxVars, OutboxInv, OutboxTypeOK, SentMeansSent, OkMeansSent, Accounted, Sends
<1>2. ASSUME NEW s \in Senders, Delivery(s) PROVE OutboxInv'
  BY <1>2, ListDueStep, ClaimStep, TransportStep, RecordStep, RetryStep, CancelStep DEF Delivery
<1>3. CASE OutboxNext
  BY <1>2, <1>3, EnqueueStep, PersonStep, RequeueStep, CrashStep, TimeStep DEF OutboxNext
<1> QED
  BY <1>1, <1>3

\* The outbox, with a gateway that answers within ten minutes: a message is attempted
\* max_attempts times and once more for each dispatcher that died on one, one session
\* sends it at a time, unless a person puts it back meanwhile, and what is on file as
\* SENT went out; for any messages, sessions, retries by hand and crashes.
THEOREM OutboxSoundAlways == ~ SlowSends /\ OutboxSpec => []OutboxSound
<1>1. OutboxInv => OutboxSound
  <2> SUFFICES ASSUME OutboxInv PROVE OutboxSound
    OBVIOUS
  <2>1. AttemptsExplained
    BY DEF OutboxInv, Accounted, AttemptsExplained
  <2>2. OneSenderUnlessPutBack
    BY DEF OutboxInv, Accounted, OneSenderUnlessPutBack
  <2> QED
    BY <2>1, <2>2 DEF OutboxInv, OutboxSound
<1>2. ASSUME ~ SlowSends PROVE OutboxSpec => []OutboxSound
  <2>1. OutboxInv /\ [OutboxNext]_outboxVars => OutboxInv'
    BY <1>2, OutboxStep
  <2> QED
    BY <1>1, <2>1, OutboxInitInv, PTL DEF OutboxSpec
<1> QED
  BY <1>2
-----------------------------------------------------------------------------
(* Places: who holds what.                                                  *)

PlaceStates == {"AVAILABLE", "ON_LOAN", "LOST", "OUT"}
HoldingType == [thing : Things, holder : Holders, open : BOOLEAN, fines : Nat]

PlaceTypeOK ==
    /\ placeKind \in {"bed", "copy", "bus"}
    /\ placeState \in [Things -> PlaceStates]
    /\ holdings \in Seq(HoldingType)
    /\ asked \in [Desks -> {asked[k] : k \in Desks}]

\* What a request has checked is about a thing, a holder or a holding that exists,
\* and a copy on loan was not to be withdrawn.
AskedSound ==
    \A k \in Desks : asked[k] # <<>> =>
        \/ \E t \in Things, h \in Holders : asked[k] = <<"take", t, h>>
        \/ \E i \in DOMAIN holdings : asked[k] = <<"back", i>> \/ asked[k] = <<"fine", i>>
        \/ \E t \in Things, s \in {"AVAILABLE", "OUT"}, was \in PlaceStates :
              /\ asked[k] = <<"status", t, s, was>>
              /\ placeKind = "copy" => was # "ON_LOAN"

\* Nothing was written on a check that had gone stale.
PlacesQuiet == placeMarks \cap {"both", "late"} = {}

\* Who may hold what, while PlacesQuiet.
PlacesHeld ==
    /\ \A t \in Things : Cardinality(OpenOf(t)) <= 1
    /\ \A h \in Holders : placeKind = "bed" => Cardinality(OpenBy(h)) <= 1
    /\ \A h \in Holders : placeKind = "copy" => Cardinality(OpenBy(h)) <= Limit
    /\ \A t \in Things : placeKind = "copy" => (placeState[t] = "ON_LOAN" <=> OpenOf(t) # {})
    /\ \A t \in Things : placeKind = "bed" /\ placeState[t] # "AVAILABLE" => OpenOf(t) = {}

FinedOnce == "charged" \notin placeMarks => \A i \in DOMAIN holdings : holdings[i].fines <= 1

PlaceInv == PlaceTypeOK /\ AskedSound /\ (PlacesQuiet => PlacesHeld) /\ FinedOnce

LEMMA HeldOnceParts == (PlacesQuiet => PlacesHeld) /\ FinedOnce <=> HeldOnce
BY DEF PlacesQuiet, PlacesHeld, FinedOnce, HeldOnce

LEMMA PlaceInitInv == PlaceInit => PlaceInv
<1> SUFFICES ASSUME PlaceInit PROVE PlaceInv
  OBVIOUS
<1>1. PlaceTypeOK /\ AskedSound /\ FinedOnce
  BY DEF PlaceInit, PlaceTypeOK, AskedSound, PlaceStates, FinedOnce
<1>2. \A x : OpenOf(x) = {} /\ OpenBy(x) = {}
  BY DEF PlaceInit, OpenOf, OpenBy
<1>3. \A x : Cardinality(OpenOf(x)) = 0 /\ Cardinality(OpenBy(x)) = 0
  BY <1>2, FS_EmptySet
<1>4. \A t \in Things : placeState[t] = "AVAILABLE"
  BY DEF PlaceInit
<1>5. PlacesHeld
  BY <1>2, <1>3, <1>4, PlacesAssumption DEF PlacesHeld
<1> QED
  BY <1>1, <1>5 DEF PlaceInv

\* The open holdings of a thing or a person are finitely many.
LEMMA OpenFinite ==
    ASSUME PlaceTypeOK
    PROVE  \A x : /\ IsFiniteSet(OpenOf(x)) /\ Cardinality(OpenOf(x)) \in Nat
                  /\ IsFiniteSet(OpenBy(x)) /\ Cardinality(OpenBy(x)) \in Nat
<1>1. DOMAIN holdings = 1 .. Len(holdings) /\ Len(holdings) \in Int
  BY DEF PlaceTypeOK
<1>2. IsFiniteSet(DOMAIN holdings)
  BY <1>1, FS_Interval
<1> QED
  BY <1>2, FS_Subset, FS_CardinalityType DEF OpenOf, OpenBy

\* Fewer open holdings: the counts do not rise.
LEMMA FewerHeld ==
    ASSUME PlaceTypeOK, PlacesHeld, placeKind' = placeKind,
           \A x : OpenOf(x)' \subseteq OpenOf(x) /\ OpenBy(x)' \subseteq OpenBy(x)
    PROVE  /\ \A t \in Things : Cardinality(OpenOf(t)') <= 1
           /\ \A h \in Holders : placeKind = "bed" => Cardinality(OpenBy(h)') <= 1
           /\ \A h \in Holders : placeKind = "copy" => Cardinality(OpenBy(h)') <= Limit
<1>1. \A x : /\ Cardinality(OpenOf(x)') \in Nat /\ Cardinality(OpenOf(x)') <= Cardinality(OpenOf(x))
             /\ Cardinality(OpenBy(x)') \in Nat /\ Cardinality(OpenBy(x)') <= Cardinality(OpenBy(x))
  BY OpenFinite, FS_Subset, FS_CardinalityType
<1>2. \A x : Cardinality(OpenOf(x)) \in Nat /\ Cardinality(OpenBy(x)) \in Nat
  BY OpenFinite
<1> QED
  BY <1>1, <1>2, PlacesAssumption DEF PlacesHeld

\* A request that only checks: nothing is written, what it remembers is sound.
LEMMA AskStep ==
    ASSUME PlaceInv, NEW k \in Desks,
           \/ \E t \in Things, h \in Holders : AskTake(k, t, h)
           \/ \E i \in DOMAIN holdings : AskBack(k, i) \/ AskFine(k, i)
           \/ \E t \in Things, s \in {"AVAILABLE", "OUT"} : AskStatus(k, t, s)
    PROVE  PlaceInv'
<1>1. UNCHANGED <<placeKind, placeState, holdings, placeMarks>>
  BY DEF AskTake, AskBack, AskFine, AskStatus
<1>2. PICK r : asked' = [asked EXCEPT ![k] = r]
  BY DEF AskTake, AskBack, AskFine, AskStatus
<1>3. PlaceTypeOK'
  BY <1>1, <1>2 DEF PlaceInv, PlaceTypeOK
<1>4. AskedSound'
  <2>1. \/ \E t \in Things, h \in Holders : asked' = [asked EXCEPT ![k] = <<"take", t, h>>]
        \/ \E i \in DOMAIN holdings : \/ asked' = [asked EXCEPT ![k] = <<"back", i>>]
                                      \/ asked' = [asked EXCEPT ![k] = <<"fine", i>>]
        \/ \E t \in Things, s \in {"AVAILABLE", "OUT"} :
              /\ asked' = [asked EXCEPT ![k] = <<"status", t, s, placeState[t]>>]
              /\ placeKind = "copy" => placeState[t] # "ON_LOAN"
    BY DEF AskTake, AskBack, AskFine, AskStatus
  <2>2. \A j \in Desks : j # k => asked'[j] = asked[j]
    BY <1>2 DEF PlaceInv, PlaceTypeOK
  <2>3. \/ \E t \in Things, h \in Holders : asked'[k] = <<"take", t, h>>
        \/ \E i \in DOMAIN holdings : asked'[k] = <<"back", i>> \/ asked'[k] = <<"fine", i>>
        \/ \E t \in Things, s \in {"AVAILABLE", "OUT"}, was \in PlaceStates :
              /\ asked'[k] = <<"status", t, s, was>>
              /\ placeKind = "copy" => was # "ON_LOAN"
    BY <2>1 DEF PlaceInv, PlaceTypeOK
  <2> QED
    BY <1>1, <2>2, <2>3 DEF PlaceInv, AskedSound
<1>5. (PlacesQuiet => PlacesHeld)' /\ FinedOnce'
  BY <1>1 DEF PlaceInv, PlacesQuiet, PlacesHeld, FinedOnce, OpenOf, OpenBy
<1> QED
  BY <1>3, <1>4, <1>5 DEF PlaceInv

\* The other requests still ask for what they asked; this one for nothing.
LEMMA AnsweredSound ==
    ASSUME PlaceInv, NEW k \in Desks, asked' = [asked EXCEPT ![k] = <<>>], UNCHANGED placeKind,
           DOMAIN holdings \subseteq DOMAIN holdings'
    PROVE  AskedSound' /\ asked' \in [Desks -> {asked'[j] : j \in Desks}]
<1>1. \A j \in Desks : asked'[j] = IF j = k THEN <<>> ELSE asked[j]
  BY DEF PlaceInv, PlaceTypeOK
<1>2. AskedSound'
  <2> SUFFICES ASSUME NEW j \in Desks, asked'[j] # <<>>
               PROVE  \/ \E t \in Things, h \in Holders : asked'[j] = <<"take", t, h>>
                      \/ \E i \in DOMAIN holdings' : asked'[j] = <<"back", i>> \/ asked'[j] = <<"fine", i>>
                      \/ \E t \in Things, s \in {"AVAILABLE", "OUT"}, was \in PlaceStates :
                            /\ asked'[j] = <<"status", t, s, was>>
                            /\ placeKind = "copy" => was # "ON_LOAN"
    BY DEF AskedSound
  <2>1. j # k /\ asked'[j] = asked[j]
    BY <1>1
  <2> QED
    BY <2>1 DEF PlaceInv, AskedSound
<1> QED
  BY <1>2 DEF PlaceInv, PlaceTypeOK

LEMMA TakeStep ==
    ASSUME PlaceInv, NEW k \in Desks, TakePlace(k)
    PROVE  PlaceInv'
<1>1. PICK t \in Things, h \in Holders : asked[k] = <<"take", t, h>>
  BY DEF PlaceInv, AskedSound, TakePlace
<1> DEFINE n == Len(holdings) + 1
           kept == [i \in DOMAIN holdings |->
                       IF placeKind = "bed" /\ i \in OpenBy(h) THEN [holdings[i] EXCEPT !.open = FALSE]
                       ELSE holdings[i]]
           new == [thing |-> t, holder |-> h, open |-> TRUE, fines |-> 0]
<1>2. /\ holdings' = Append(kept, new)
      /\ placeState' = IF placeKind = "copy" THEN [placeState EXCEPT ![t] = "ON_LOAN"] ELSE placeState
      /\ placeMarks' = placeMarks \cup (IF FreePlace(t, h) THEN {} ELSE {"both"})
      /\ asked' = [asked EXCEPT ![k] = <<>>]
      /\ placeKind' = placeKind
  BY <1>1 DEF TakePlace
<1>3. holdings \in Seq(HoldingType) /\ DOMAIN holdings = 1 .. Len(holdings) /\ Len(holdings) \in Nat
  BY DEF PlaceInv, PlaceTypeOK
<1>4. kept \in Seq(HoldingType) /\ Len(kept) = Len(holdings)
  <2>1. \A i \in DOMAIN holdings : holdings[i] \in HoldingType
    BY <1>3
  <2>2. \A i \in 1 .. Len(holdings) : kept[i] \in HoldingType
    BY <2>1, <1>3 DEF HoldingType
  <2>3. kept = [i \in 1 .. Len(holdings) |-> kept[i]]
    BY <1>3
  <2> HIDE DEF kept
  <2> QED
    BY <2>2, <2>3, <1>3
<1>5. new \in HoldingType
  BY DEF HoldingType
<1>6. /\ holdings' \in Seq(HoldingType) /\ DOMAIN holdings' = 1 .. n
      /\ holdings'[n] = new /\ \A i \in DOMAIN holdings : holdings'[i] = kept[i]
  <2> HIDE DEF kept, new
  <2> QED
    BY <1>2, <1>3, <1>4, <1>5
<1>7. \A i \in DOMAIN holdings : /\ holdings[i] \in HoldingType
                                 /\ holdings'[i].thing = holdings[i].thing
                                 /\ holdings'[i].holder = holdings[i].holder
                                 /\ holdings'[i].fines = holdings[i].fines
                                 /\ holdings'[i].open => holdings[i].open
                                 /\ holdings'[i].open => ~ (placeKind = "bed" /\ i \in OpenBy(h))
                                 /\ placeKind # "bed" => holdings'[i] = holdings[i]
  <2> SUFFICES ASSUME NEW i \in DOMAIN holdings
               PROVE  /\ holdings[i] \in HoldingType
                      /\ holdings'[i].thing = holdings[i].thing
                      /\ holdings'[i].holder = holdings[i].holder
                      /\ holdings'[i].fines = holdings[i].fines
                      /\ holdings'[i].open => holdings[i].open
                      /\ holdings'[i].open => ~ (placeKind = "bed" /\ i \in OpenBy(h))
                      /\ placeKind # "bed" => holdings'[i] = holdings[i]
    OBVIOUS
  <2>1. holdings[i] \in HoldingType
    BY <1>3
  <2>2. CASE placeKind = "bed" /\ i \in OpenBy(h)
    <3>1. holdings'[i] = [holdings[i] EXCEPT !.open = FALSE]
      BY <2>2, <1>6
    <3> QED
      BY <2>1, <2>2, <3>1 DEF HoldingType
  <2>3. CASE ~ (placeKind = "bed" /\ i \in OpenBy(h))
    <3>1. holdings'[i] = holdings[i]
      BY <2>3, <1>6
    <3> QED
      BY <2>1, <2>3, <3>1
  <2> QED
    BY <2>2, <2>3
<1>8. \A i \in DOMAIN holdings' : i \in DOMAIN holdings \/ i = n
  BY <1>3, <1>6
<1>9. n \in DOMAIN holdings' /\ n \notin DOMAIN holdings
  BY <1>3, <1>6
<1> HIDE DEF n, kept
<1>10. PlaceTypeOK' /\ AskedSound'
  <2>1. placeState' \in [Things -> PlaceStates]
    BY <1>2 DEF PlaceInv, PlaceTypeOK, PlaceStates
  <2>2. AskedSound' /\ asked' \in [Desks -> {asked'[j] : j \in Desks}]
    <3>1. DOMAIN holdings \subseteq DOMAIN holdings'
      BY <1>3, <1>6 DEF n
    <3> QED
      BY <1>2, <3>1, AnsweredSound
  <2> QED
    BY <1>2, <1>6, <2>1, <2>2 DEF PlaceInv, PlaceTypeOK
<1>11. FinedOnce'
  <2>1. "charged" \notin placeMarks' => "charged" \notin placeMarks
    BY <1>2
  <2>2. holdings'[n].fines = 0
    BY <1>6
  <2> QED
    BY <1>7, <1>8, <2>1, <2>2 DEF PlaceInv, FinedOnce
<1>12. ASSUME PlacesQuiet' PROVE PlacesHeld'
  <2>1. FreePlace(t, h) /\ PlacesHeld
    BY <1>12, <1>2 DEF PlacesQuiet, PlaceInv
  <2>2. \A x : x # t => OpenOf(x)' \subseteq OpenOf(x) /\ (placeKind # "bed" => OpenOf(x) \subseteq OpenOf(x)')
    <3> SUFFICES ASSUME NEW x, x # t
                 PROVE  /\ OpenOf(x)' \subseteq OpenOf(x)
                        /\ placeKind # "bed" => OpenOf(x) \subseteq OpenOf(x)'
      OBVIOUS
    <3>1. n \notin OpenOf(x)'
      BY <1>6 DEF OpenOf
    <3>2. DOMAIN holdings \subseteq DOMAIN holdings'
      BY <1>3, <1>6 DEF n
    <3> HIDE DEF new
    <3> QED
      BY <1>7, <1>8, <3>1, <3>2 DEF OpenOf
  <2>3. \A x : x # h => OpenBy(x)' \subseteq OpenBy(x)
    BY <1>6, <1>7, <1>8, <1>9 DEF OpenBy, HoldingType
  <2>4. OpenOf(t)' \subseteq OpenOf(t) \cup {n} /\ n \in OpenOf(t)'
    BY <1>6, <1>7, <1>8, <1>9 DEF OpenOf, HoldingType
  <2>5. OpenBy(h)' \subseteq (IF placeKind = "bed" THEN {} ELSE OpenBy(h)) \cup {n}
    BY <1>6, <1>7, <1>8, <1>9 DEF OpenBy, HoldingType
  <2>6. \A x : n \notin OpenOf(x) /\ n \notin OpenBy(x)
    BY <1>9 DEF OpenOf, OpenBy
  <2>7. OpenOf(t) = {}
    BY <2>1 DEF FreePlace, PlacesHeld, PlaceInv, PlaceTypeOK
  <2>8. \A x : /\ IsFiniteSet(OpenOf(x)) /\ Cardinality(OpenOf(x)) \in Nat
               /\ IsFiniteSet(OpenBy(x)) /\ Cardinality(OpenBy(x)) \in Nat
    BY OpenFinite DEF PlaceInv
  <2>9. \A x : /\ IsFiniteSet(OpenOf(x)') /\ Cardinality(OpenOf(x)') \in Nat
               /\ IsFiniteSet(OpenBy(x)') /\ Cardinality(OpenBy(x)') \in Nat
    <3>1. IsFiniteSet(DOMAIN holdings')
      BY <1>3, <1>6, FS_Interval DEF n
    <3> QED
      BY <3>1, FS_Subset, FS_CardinalityType DEF OpenOf, OpenBy
  <2>10. IsFiniteSet({n}) /\ Cardinality({n}) = 1
    BY FS_Singleton
  <2>11. \A x \in Things : Cardinality(OpenOf(x)') <= 1
    <3>1. Cardinality(OpenOf(t)') <= 1
      BY <2>4, <2>7, <2>10, FS_Subset
    <3>2. \A x \in Things : x # t => Cardinality(OpenOf(x)') <= Cardinality(OpenOf(x))
      BY <2>2, <2>8, FS_Subset
    <3> QED
      BY <3>1, <3>2, <2>1, <2>8, <2>9 DEF PlacesHeld
  <2>12. \A x \in Holders : x # h => Cardinality(OpenBy(x)') <= Cardinality(OpenBy(x))
    BY <2>3, <2>8, FS_Subset
  <2>13. \A x \in Holders : placeKind = "bed" => Cardinality(OpenBy(x)') <= 1
    <3>1. placeKind = "bed" => Cardinality(OpenBy(h)') <= 1
      BY <2>5, <2>10, FS_Subset
    <3> QED
      BY <3>1, <2>12, <2>1, <2>8, <2>9 DEF PlacesHeld
  <2>14. \A x \in Holders : placeKind = "copy" => Cardinality(OpenBy(x)') <= Limit
    <3>1. IsFiniteSet(OpenBy(h) \cup {n}) /\ Cardinality(OpenBy(h) \cup {n}) = Cardinality(OpenBy(h)) + 1
      BY <2>6, <2>8, FS_AddElement
    <3>2. placeKind = "copy" => Cardinality(OpenBy(h)') <= Cardinality(OpenBy(h)) + 1
      BY <3>1, <2>5, FS_Subset
    <3>3. placeKind = "copy" => Cardinality(OpenBy(h)) < Limit
      BY <2>1 DEF FreePlace
    <3>4. placeKind = "copy" => Cardinality(OpenBy(h)') <= Limit
      BY <3>2, <3>3, <2>8, <2>9, PlacesAssumption
    <3> QED
      BY <3>4, <2>12, <2>1, <2>8, <2>9, PlacesAssumption DEF PlacesHeld
  <2>15. \A x \in Things : placeKind = "copy" => (placeState'[x] = "ON_LOAN" <=> OpenOf(x)' # {})
    <3> SUFFICES ASSUME NEW x \in Things, placeKind = "copy"
                 PROVE  placeState'[x] = "ON_LOAN" <=> OpenOf(x)' # {}
      OBVIOUS
    <3>1. placeState'[x] = IF x = t THEN "ON_LOAN" ELSE placeState[x]
      BY <1>2 DEF PlaceInv, PlaceTypeOK
    <3>2. x # t => OpenOf(x)' = OpenOf(x)
      BY <2>2
    <3>3. placeState[x] = "ON_LOAN" <=> OpenOf(x) # {}
      BY <2>1 DEF PlacesHeld
    <3>4. OpenOf(t)' # {}
      BY <2>4
    <3> QED
      BY <3>1, <3>2, <3>3, <3>4
  <2>16. \A x \in Things : placeKind = "bed" /\ placeState'[x] # "AVAILABLE" => OpenOf(x)' = {}
    BY <1>2, <2>1, <2>2 DEF PlacesHeld, FreePlace
  <2> QED
    BY <1>2, <2>11, <2>13, <2>14, <2>15, <2>16 DEF PlacesHeld
<1> QED
  BY <1>10, <1>11, <1>12 DEF PlaceInv

LEMMA GiveBackStep ==
    ASSUME PlaceInv, NEW k \in Desks, GiveBack(k)
    PROVE  PlaceInv'
<1>1. PICK i \in DOMAIN holdings : asked[k] = <<"back", i>>
  BY DEF PlaceInv, AskedSound, GiveBack
<1>0. PICK t : t = holdings[i].thing
  OBVIOUS
<1>2. PICK s : /\ placeState' = [placeState EXCEPT ![t] = s]
               /\ placeKind = "copy" => s \in {"AVAILABLE", "LOST"}
               /\ placeKind # "copy" => s = placeState[t]
  <2>1. CASE placeKind = "copy"
    <3>1. asked[k][2] = i
      BY <1>1
    <3>2. \E s \in IF placeKind = "copy" THEN {"AVAILABLE", "LOST"} ELSE {placeState[holdings[asked[k][2]].thing]} :
             placeState' = [placeState EXCEPT ![holdings[asked[k][2]].thing] = s]
      BY DEF GiveBack
    <3>3. \E s \in {"AVAILABLE", "LOST"} : placeState' = [placeState EXCEPT ![t] = s]
      BY <1>0, <2>1, <3>1, <3>2
    <3> QED
      BY <2>1, <3>3
  <2>2. CASE placeKind # "copy"
    BY <1>0, <1>1, <2>2 DEF GiveBack
  <2> QED
    BY <2>1, <2>2
<1>3. /\ holdings' = [holdings EXCEPT ![i].open = FALSE]
      /\ placeMarks' = placeMarks \cup (IF holdings[i].open THEN {} ELSE {"late"})
      /\ asked' = [asked EXCEPT ![k] = <<>>]
      /\ placeKind' = placeKind
  BY <1>1 DEF GiveBack
<1>4. /\ holdings \in Seq(HoldingType) /\ \A j \in DOMAIN holdings : holdings[j] \in HoldingType
      /\ t \in Things
  <2>1. \A j \in DOMAIN holdings : holdings[j] \in HoldingType
    BY DEF PlaceInv, PlaceTypeOK
  <2> QED
    BY <1>0, <2>1 DEF HoldingType, PlaceInv, PlaceTypeOK
<1>5. holdings' \in Seq(HoldingType) /\ DOMAIN holdings' = DOMAIN holdings
  <2>1. [holdings[i] EXCEPT !.open = FALSE] \in HoldingType
    BY <1>4 DEF HoldingType
  <2> QED
    BY <1>3, <1>4, <2>1
<1>6. \A j \in DOMAIN holdings : /\ holdings'[j].thing = holdings[j].thing
                                 /\ holdings'[j].holder = holdings[j].holder
                                 /\ holdings'[j].fines = holdings[j].fines
                                 /\ j # i => holdings'[j] = holdings[j]
  BY <1>3, <1>4 DEF HoldingType
<1>7. holdings'[i].open = FALSE
  BY <1>3, <1>4 DEF HoldingType
<1>8. PlaceTypeOK' /\ AskedSound'
  <2>1. t \in Things /\ placeState \in [Things -> PlaceStates] /\ s \in PlaceStates
    BY <1>2, <1>4 DEF PlaceInv, PlaceTypeOK, PlaceStates
  <2>2. placeState' \in [Things -> PlaceStates]
    BY <1>2, <2>1
  <2>3. AskedSound' /\ asked' \in [Desks -> {asked'[j] : j \in Desks}]
    BY <1>3, <1>5, AnsweredSound
  <2> QED
    BY <1>3, <1>5, <2>2, <2>3 DEF PlaceInv, PlaceTypeOK
<1>9. FinedOnce'
  BY <1>3, <1>5, <1>6 DEF PlaceInv, FinedOnce
<1>10. ASSUME PlacesQuiet' PROVE PlacesHeld'
  <2>1. holdings[i].open /\ PlacesHeld
    BY <1>10, <1>3 DEF PlacesQuiet, PlaceInv
  <2>2. \A x : OpenOf(x)' = OpenOf(x) \ {i} /\ OpenBy(x)' = OpenBy(x) \ {i}
    BY <1>5, <1>6, <1>7 DEF OpenOf, OpenBy
  <2>3. OpenOf(t)' = {}
    <3>1. i \in OpenOf(t) /\ IsFiniteSet(OpenOf(t)) /\ Cardinality(OpenOf(t)) \in Nat /\ Cardinality(OpenOf(t)) <= 1
      BY <1>0, <1>4, <2>1, OpenFinite DEF OpenOf, PlacesHeld, PlaceInv
    <3>2. IsFiniteSet(OpenOf(t) \ {i}) /\ Cardinality(OpenOf(t) \ {i}) = Cardinality(OpenOf(t)) - 1
      BY <3>1, FS_RemoveElement
    <3>3. IsFiniteSet(OpenOf(t) \ {i}) /\ Cardinality(OpenOf(t) \ {i}) \in Nat
      BY <3>2, FS_CardinalityType
    <3>4. OpenOf(t) \ {i} = {}
      BY <3>1, <3>2, <3>3, FS_EmptySet
    <3> QED
      BY <2>2, <3>4
  <2>4. /\ \A x \in Things : Cardinality(OpenOf(x)') <= 1
        /\ \A x \in Holders : placeKind = "bed" => Cardinality(OpenBy(x)') <= 1
        /\ \A x \in Holders : placeKind = "copy" => Cardinality(OpenBy(x)') <= Limit
    BY <2>1, <2>2, <1>3, FewerHeld DEF PlaceInv
  <2>5. \A x : x # t => OpenOf(x)' = OpenOf(x)
    BY <1>0, <2>2 DEF OpenOf
  <2>6. \A x \in Things : placeState'[x] = IF x = t THEN s ELSE placeState[x]
    BY <1>2 DEF PlaceInv, PlaceTypeOK
  <2>7. \A x \in Things : placeKind = "copy" => (placeState'[x] = "ON_LOAN" <=> OpenOf(x)' # {})
    BY <1>2, <2>1, <2>3, <2>5, <2>6 DEF PlacesHeld
  <2>8. \A x \in Things : placeKind = "bed" /\ placeState'[x] # "AVAILABLE" => OpenOf(x)' = {}
    BY <1>2, <2>1, <2>3, <2>5, <2>6 DEF PlacesHeld
  <2> QED
    BY <1>3, <2>4, <2>7, <2>8 DEF PlacesHeld
<1> QED
  BY <1>8, <1>9, <1>10 DEF PlaceInv

LEMMA SetStateStep ==
    ASSUME PlaceInv, NEW k \in Desks, SetState(k)
    PROVE  PlaceInv'
<1>1. PICK t \in Things, s \in {"AVAILABLE", "OUT"}, was \in PlaceStates :
          /\ asked[k] = <<"status", t, s, was>>
          /\ placeKind = "copy" => was # "ON_LOAN"
  BY DEF PlaceInv, AskedSound, SetState
<1>2. /\ placeState' = [placeState EXCEPT ![t] = s]
      /\ placeMarks' = placeMarks \cup
           (IF placeState[t] # was \/ (placeKind = "bed" /\ OpenOf(t) # {}) THEN {"both"} ELSE {})
      /\ asked' = [asked EXCEPT ![k] = <<>>]
      /\ placeKind' = placeKind /\ holdings' = holdings
  BY <1>1 DEF SetState
<1>3. PlaceTypeOK' /\ AskedSound'
  <2>1. placeState' \in [Things -> PlaceStates]
    BY <1>2 DEF PlaceInv, PlaceTypeOK, PlaceStates
  <2>2. AskedSound' /\ asked' \in [Desks -> {asked'[j] : j \in Desks}]
    BY <1>2, AnsweredSound
  <2> QED
    BY <1>2, <2>1, <2>2 DEF PlaceInv, PlaceTypeOK
<1>4. FinedOnce'
  BY <1>2 DEF PlaceInv, FinedOnce
<1>5. ASSUME PlacesQuiet' PROVE PlacesHeld'
  <2>1. PlacesHeld /\ placeState[t] = was /\ (placeKind = "bed" => OpenOf(t) = {})
    BY <1>5, <1>2 DEF PlacesQuiet, PlaceInv
  <2>2. \A x : OpenOf(x)' = OpenOf(x) /\ OpenBy(x)' = OpenBy(x)
    BY <1>2 DEF OpenOf, OpenBy
  <2>3. placeKind = "copy" => OpenOf(t) = {}
    BY <1>1, <2>1 DEF PlacesHeld
  <2>4. \A x \in Things : placeState'[x] = IF x = t THEN s ELSE placeState[x]
    BY <1>2 DEF PlaceInv, PlaceTypeOK
  <2>5. \A x \in Things : placeKind = "copy" => (placeState'[x] = "ON_LOAN" <=> OpenOf(x) # {})
    BY <2>1, <2>3, <2>4 DEF PlacesHeld
  <2>6. \A x \in Things : placeKind = "bed" /\ placeState'[x] # "AVAILABLE" => OpenOf(x) = {}
    BY <2>1, <2>4 DEF PlacesHeld
  <2> QED
    BY <1>2, <2>1, <2>2, <2>5, <2>6 DEF PlacesHeld
<1> QED
  BY <1>3, <1>4, <1>5 DEF PlaceInv

LEMMA ChargeStep ==
    ASSUME PlaceInv, NEW k \in Desks, ChargeFine(k)
    PROVE  PlaceInv'
<1>1. PICK i \in DOMAIN holdings : asked[k] = <<"fine", i>>
  BY DEF PlaceInv, AskedSound, ChargeFine
<1>2. /\ holdings' = [holdings EXCEPT ![i].fines = @ + 1]
      /\ placeMarks' = placeMarks \cup (IF holdings[i].fines > 0 THEN {"charged"} ELSE {})
      /\ asked' = [asked EXCEPT ![k] = <<>>]
      /\ placeKind' = placeKind /\ placeState' = placeState
  BY <1>1 DEF ChargeFine
<1>3. holdings \in Seq(HoldingType) /\ \A j \in DOMAIN holdings : holdings[j] \in HoldingType
  BY DEF PlaceInv, PlaceTypeOK
<1>4. holdings' \in Seq(HoldingType) /\ DOMAIN holdings' = DOMAIN holdings
  <2>1. [holdings[i] EXCEPT !.fines = @ + 1] \in HoldingType
    BY <1>3 DEF HoldingType
  <2> QED
    BY <1>2, <1>3, <2>1
<1>5. \A j \in DOMAIN holdings : /\ holdings'[j].thing = holdings[j].thing
                                 /\ holdings'[j].holder = holdings[j].holder
                                 /\ holdings'[j].open = holdings[j].open
                                 /\ j # i => holdings'[j] = holdings[j]
  BY <1>2, <1>3 DEF HoldingType
<1>6. holdings'[i].fines = holdings[i].fines + 1 /\ holdings[i].fines \in Nat
  BY <1>2, <1>3 DEF HoldingType
<1>7. PlaceTypeOK' /\ AskedSound'
  <2>1. AskedSound' /\ asked' \in [Desks -> {asked'[j] : j \in Desks}]
    BY <1>2, <1>4, AnsweredSound
  <2> QED
    BY <1>2, <1>4, <2>1 DEF PlaceInv, PlaceTypeOK
<1>8. FinedOnce'
  <2> SUFFICES ASSUME "charged" \notin placeMarks', NEW j \in DOMAIN holdings
               PROVE  holdings'[j].fines <= 1
    BY <1>4 DEF FinedOnce
  <2>1. "charged" \notin placeMarks /\ ~ (holdings[i].fines > 0)
    BY <1>2
  <2>2. holdings[j].fines <= 1
    BY <2>1 DEF PlaceInv, FinedOnce
  <2> QED
    BY <1>5, <1>6, <2>1, <2>2
<1>9. \A x : OpenOf(x)' = OpenOf(x) /\ OpenBy(x)' = OpenBy(x)
  BY <1>4, <1>5 DEF OpenOf, OpenBy
<1>10. (PlacesQuiet => PlacesHeld)'
  <2>1. PlacesQuiet' => PlacesQuiet
    BY <1>2 DEF PlacesQuiet
  <2>2. PlacesHeld => PlacesHeld'
    BY <1>2, <1>9 DEF PlacesHeld
  <2> QED
    BY <2>1, <2>2 DEF PlaceInv
<1> QED
  BY <1>7, <1>8, <1>10 DEF PlaceInv

LEMMA PlaceStep == PlaceInv /\ [PlaceNext]_placeVars => PlaceInv'
<1> SUFFICES ASSUME PlaceInv, [PlaceNext]_placeVars PROVE PlaceInv'
  OBVIOUS
<1>1. CASE UNCHANGED placeVars
  BY <1>1 DEF placeVars, PlaceInv, PlaceTypeOK, AskedSound, PlacesQuiet, PlacesHeld, FinedOnce, OpenOf, OpenBy
<1>2. CASE PlaceNext
  BY <1>2, AskStep, TakeStep, GiveBackStep, SetStateStep, ChargeStep DEF PlaceNext
<1> QED
  BY <1>1, <1>2

\* Hostels, library, transport: a thing has one holder, an occupant one bed, a borrower
\* no more than the limit, the status of a copy says whether it is on loan, a bed out of
\* service is empty and a fine is charged once, unless two requests checked before
\* either wrote; for any things, holders, requests and limit.
THEOREM HeldOnceAlways == PlaceSpec => []HeldOnce
<1>1. PlaceInv => HeldOnce
  BY HeldOnceParts DEF PlaceInv
<1> QED
  BY PlaceInitInv, PlaceStep, <1>1, PTL DEF PlaceSpec
-----------------------------------------------------------------------------
(* BankRec: what a statement says and what its entries come to.             *)

EntryType == [amount : Int, closed : BOOLEAN]
RecType == [last : Int, stmt : Int, applied : SUBSET Nat, adjust : Int, status : {"OPEN", "POSTED"}]

RecTypeOK ==
    /\ entry \in Seq(EntryType) /\ lastStmt \in Int /\ recs \in Seq(RecType)
    /\ view \in [Cashiers -> {view[c] : c \in Cashiers}]
    /\ \A r \in DOMAIN recs : recs[r].applied \subseteq DOMAIN entry

\* A reconciliation that was read to be posted agreed with its statement, and the
\* amounts of its entries are what they were.
ViewSound ==
    \A c \in Cashiers : view[c] # <<>> =>
        \/ \E stmt \in Statements, was \in Int : view[c] = <<"start", stmt, was>>
        \/ \E r \in DOMAIN recs, rd \in RecType :
              /\ view[c] = <<"post", r, rd>>
              /\ rd.applied \subseteq DOMAIN entry /\ rd.status = "OPEN" /\ Difference(rd) = 0

Closed == {i \in DOMAIN entry : entry[i].closed}

\* One reconciliation is open, it starts where the last one ended, and what it has
\* matched is open too.
OneOpen ==
    /\ lastStmt = AmountOf(Closed)
    /\ \A r, q \in DOMAIN recs : OpenRec(r) /\ OpenRec(q) => r = q
    /\ \A r \in DOMAIN recs : OpenRec(r) => recs[r].last = lastStmt /\ recs[r].applied \cap Closed = {}

RecInv == RecTypeOK /\ ViewSound /\ (recMarks = {} => OneOpen)

LEMMA RecInitInv == RecInit => RecInv
<1> SUFFICES ASSUME RecInit PROVE RecInv
  OBVIOUS
<1>1. RecTypeOK /\ ViewSound
  BY DEF RecInit, RecTypeOK, ViewSound
<1>2. Closed = {} /\ DOMAIN recs = {}
  BY DEF RecInit, Closed
<1>3. AmountOf(Closed) = 0
  BY <1>2, SumOfNothing DEF AmountOf, SumOver
<1>4. OneOpen
  BY <1>2, <1>3 DEF RecInit, OneOpen
<1> QED
  BY <1>1, <1>4 DEF RecInv

\* What a set of entries comes to is a number that later entries and closings leave alone.
LEMMA AmountKept ==
    ASSUME RecTypeOK, entry' \in Seq(EntryType), DOMAIN entry \subseteq DOMAIN entry',
           \A i \in DOMAIN entry : entry'[i].amount = entry[i].amount
    PROVE  \A S \in SUBSET DOMAIN entry :
              IsFiniteSet(S) /\ AmountOf(S) \in Int /\ AmountOf(S)' = AmountOf(S)
<1> SUFFICES ASSUME NEW S \in SUBSET DOMAIN entry
             PROVE  IsFiniteSet(S) /\ AmountOf(S) \in Int /\ AmountOf(S)' = AmountOf(S)
  OBVIOUS
<1> DEFINE f == [i \in DOMAIN entry |-> entry[i].amount]
           g == [i \in DOMAIN entry' |-> entry'[i].amount]
<1>1. IsFiniteSet(S)
  <2>1. DOMAIN entry = 1 .. Len(entry) /\ Len(entry) \in Int
    BY DEF RecTypeOK
  <2> HIDE DEF f, g
  <2>2. IsFiniteSet(1 .. Len(entry))
    BY <2>1, FS_Interval
  <2> QED
    BY <2>1, <2>2, FS_Subset
<1>2. \A i \in S : f[i] = g[i] /\ f[i] \in Int
  <2>1. \A i \in DOMAIN entry : entry[i] \in EntryType
    BY DEF RecTypeOK
  <2> QED
    BY <2>1 DEF EntryType
<1>3. AmountOf(S) = SumOver(f, S) /\ AmountOf(S)' = SumOver(g, S)
  BY DEF AmountOf, SumOver
<1> HIDE DEF f, g
<1>4. SumOver(f, S) \in Int /\ SumOver(f, S) = SumOver(g, S)
  BY <1>1, <1>2, SumIsInt, SumSame
<1> QED
  BY <1>1, <1>3, <1>4

\* The reconciliations read to be posted still agree with their statements.
LEMMA ViewKept ==
    ASSUME RecInv, entry' \in Seq(EntryType), DOMAIN entry \subseteq DOMAIN entry',
           \A i \in DOMAIN entry : entry'[i].amount = entry[i].amount,
           DOMAIN recs \subseteq DOMAIN recs',
           NEW c \in Cashiers, view'[c] = view[c], view[c] # <<>>
    PROVE  \/ \E stmt \in Statements, was \in Int : view'[c] = <<"start", stmt, was>>
           \/ \E r \in DOMAIN recs', rd \in RecType :
                 /\ view'[c] = <<"post", r, rd>>
                 /\ rd.applied \subseteq DOMAIN entry' /\ rd.status = "OPEN" /\ Difference(rd)' = 0
<1>1. CASE \E stmt \in Statements, was \in Int : view[c] = <<"start", stmt, was>>
  BY <1>1
<1>2. ASSUME NEW r \in DOMAIN recs, NEW rd \in RecType, view[c] = <<"post", r, rd>>,
             rd.applied \subseteq DOMAIN entry, rd.status = "OPEN", Difference(rd) = 0
      PROVE  rd.applied \subseteq DOMAIN entry' /\ Difference(rd)' = 0
  <2>1. AmountOf(rd.applied)' = AmountOf(rd.applied)
    BY <1>2, AmountKept DEF RecInv
  <2> QED
    BY <1>2, <2>1 DEF Difference
<1> QED
  BY <1>1, <1>2 DEF RecInv, ViewSound

LEMMA ArriveStep ==
    ASSUME RecInv, NEW a \in Amounts, Arrive(a)
    PROVE  RecInv'
<1> DEFINE e == [amount |-> a, closed |-> FALSE]
           n == Len(entry) + 1
<1>1. entry' = Append(entry, e) /\ UNCHANGED <<lastStmt, recs, view, recMarks>>
  BY DEF Arrive
<1>2. e \in EntryType /\ entry \in Seq(EntryType) /\ DOMAIN entry = 1 .. Len(entry)
  BY RecAssumption DEF EntryType, RecInv, RecTypeOK
<1>3. /\ entry' \in Seq(EntryType) /\ DOMAIN entry' = 1 .. n
      /\ entry'[n] = e /\ \A i \in DOMAIN entry : entry'[i] = entry[i]
  <2> HIDE DEF e
  <2> QED
    BY <1>1, <1>2
<1>4. DOMAIN entry \subseteq DOMAIN entry' /\ \A i \in DOMAIN entry' : i \in DOMAIN entry \/ i = n
  BY <1>2, <1>3
<1>5. RecTypeOK'
  BY <1>1, <1>3, <1>4 DEF RecInv, RecTypeOK
<1>6. ViewSound'
  BY <1>1, <1>3, <1>4, ViewKept DEF ViewSound
<1>7. Closed' = Closed
  <2>1. entry'[n].closed = FALSE
    BY <1>3
  <2> QED
    BY <1>3, <1>4, <2>1 DEF Closed
<1>8. AmountOf(Closed)' = AmountOf(Closed)
  <2>1. PICK C : C = Closed
    OBVIOUS
  <2>2. C \in SUBSET DOMAIN entry
    BY <2>1 DEF Closed
  <2>3. AmountOf(C)' = AmountOf(C)
    BY <1>3, <1>4, <2>2, AmountKept DEF RecInv
  <2> QED
    BY <1>7, <2>1, <2>3 DEF AmountOf
<1>9. (recMarks = {} => OneOpen)'
  BY <1>1, <1>7, <1>8 DEF RecInv, OneOpen, OpenRec
<1> QED
  BY <1>5, <1>6, <1>9 DEF RecInv

\* A request that reads: what it remembers is sound.
LEMMA ReadStep ==
    ASSUME RecInv, NEW c \in Cashiers,
           \/ \E stmt \in Statements : AskStart(c, stmt)
           \/ \E r \in DOMAIN recs : AskPost(c, r)
    PROVE  RecInv'
<1>1. UNCHANGED <<entry, lastStmt, recs, recMarks>>
  BY DEF AskStart, AskPost
<1>2. \/ \E stmt \in Statements : view' = [view EXCEPT ![c] = <<"start", stmt, lastStmt>>]
      \/ \E r \in DOMAIN recs : /\ view' = [view EXCEPT ![c] = <<"post", r, recs[r]>>]
                                /\ OpenRec(r) /\ Difference(recs[r]) = 0
  BY DEF AskStart, AskPost
<1>3. RecTypeOK' /\ \A b \in Cashiers : b # c => view'[b] = view[b]
  BY <1>1, <1>2 DEF RecInv, RecTypeOK
<1>4. ViewSound'
  <2> SUFFICES ASSUME NEW b \in Cashiers, view'[b] # <<>>
               PROVE  \/ \E stmt \in Statements, was \in Int : view'[b] = <<"start", stmt, was>>
                      \/ \E r \in DOMAIN recs', rd \in RecType :
                            /\ view'[b] = <<"post", r, rd>>
                            /\ rd.applied \subseteq DOMAIN entry' /\ rd.status = "OPEN" /\ Difference(rd)' = 0
    BY DEF ViewSound
  <2>1. CASE b # c
    <3>1. /\ entry' \in Seq(EntryType) /\ DOMAIN entry \subseteq DOMAIN entry'
          /\ \A i \in DOMAIN entry : entry'[i].amount = entry[i].amount
          /\ DOMAIN recs \subseteq DOMAIN recs' /\ view'[b] = view[b]
      BY <1>1, <1>3, <2>1 DEF RecInv, RecTypeOK
    <3> QED
      BY <3>1, ViewKept
  <2>2. ASSUME b = c, NEW stmt \in Statements, view' = [view EXCEPT ![c] = <<"start", stmt, lastStmt>>]
        PROVE  \E st \in Statements, was \in Int : view'[b] = <<"start", st, was>>
    BY <2>2 DEF RecInv, RecTypeOK
  <2>3. ASSUME b = c, NEW r \in DOMAIN recs, view' = [view EXCEPT ![c] = <<"post", r, recs[r]>>],
               OpenRec(r), Difference(recs[r]) = 0
        PROVE  \E q \in DOMAIN recs', rd \in RecType :
                  /\ view'[b] = <<"post", q, rd>>
                  /\ rd.applied \subseteq DOMAIN entry' /\ rd.status = "OPEN" /\ Difference(rd)' = 0
    <3>1. PICK rd \in RecType : rd = recs[r]
      BY DEF RecInv, RecTypeOK
    <3>2. view'[b] = <<"post", r, rd>>
      BY <2>3, <3>1 DEF RecInv, RecTypeOK
    <3>3. rd.applied \subseteq DOMAIN entry' /\ rd.status = "OPEN"
      BY <1>1, <2>3, <3>1 DEF OpenRec, RecInv, RecTypeOK
    <3>4. Difference(rd)' = 0
      BY <1>1, <2>3, <3>1 DEF Difference, AmountOf
    <3> QED
      BY <1>1, <3>2, <3>3, <3>4
  <2> QED
    BY <1>2, <2>1, <2>2, <2>3
<1>5. (recMarks = {} => OneOpen)'
  BY <1>1 DEF RecInv, OneOpen, OpenRec, Closed, AmountOf
<1> QED
  BY <1>3, <1>4, <1>5 DEF RecInv

\* The entries stay, the reconciliations change as recs' says: what the other requests
\* have read is still sound.
LEMMA RecsChanged ==
    ASSUME RecInv, entry' = entry, recs' \in Seq(RecType), DOMAIN recs \subseteq DOMAIN recs',
           \A r \in DOMAIN recs' : recs'[r].applied \subseteq DOMAIN entry, lastStmt' = lastStmt,
           \/ view' = view
           \/ \E c \in Cashiers : view' = [view EXCEPT ![c] = <<>>]
    PROVE  RecTypeOK' /\ ViewSound'
<1>1. \A c \in Cashiers : view'[c] = view[c] \/ view'[c] = <<>>
  BY DEF RecInv, RecTypeOK
<1>2. ViewSound'
  <2>1. /\ entry' \in Seq(EntryType) /\ DOMAIN entry \subseteq DOMAIN entry'
        /\ \A i \in DOMAIN entry : entry'[i].amount = entry[i].amount
    BY DEF RecInv, RecTypeOK
  <2> QED
    BY <1>1, <2>1, ViewKept DEF ViewSound
<1>3. view' \in [Cashiers -> {view'[c] : c \in Cashiers}]
  BY DEF RecInv, RecTypeOK
<1> QED
  BY <1>2, <1>3 DEF RecInv, RecTypeOK

LEMMA StartStep ==
    ASSUME RecInv, NEW c \in Cashiers, StartRec(c)
    PROVE  RecInv'
<1>1. PICK stmt \in Statements, was \in Int : view[c] = <<"start", stmt, was>>
  BY DEF RecInv, ViewSound, StartRec
<1> DEFINE new == [last |-> was, stmt |-> stmt, applied |-> {}, adjust |-> 0, status |-> "OPEN"]
           n == Len(recs) + 1
<1>2. /\ recs' = Append(recs, new) /\ view' = [view EXCEPT ![c] = <<>>]
      /\ recMarks' = recMarks \cup
           (IF lastStmt # was \/ \E r \in DOMAIN recs : OpenRec(r) THEN {"both"} ELSE {})
      /\ entry' = entry /\ lastStmt' = lastStmt
  BY <1>1 DEF StartRec
<1>3. new \in RecType /\ recs \in Seq(RecType) /\ DOMAIN recs = 1 .. Len(recs)
  BY RecAssumption DEF RecType, RecInv, RecTypeOK
<1>4. /\ recs' \in Seq(RecType) /\ DOMAIN recs' = 1 .. n /\ recs'[n] = new
      /\ \A r \in DOMAIN recs : recs'[r] = recs[r]
  <2> HIDE DEF new
  <2> QED
    BY <1>2, <1>3
<1>5. DOMAIN recs \subseteq DOMAIN recs' /\ \A r \in DOMAIN recs' : r \in DOMAIN recs \/ r = n
  BY <1>3, <1>4
<1>6. RecTypeOK' /\ ViewSound'
  <2>1. \A r \in DOMAIN recs' : recs'[r].applied \subseteq DOMAIN entry
    BY <1>4, <1>5 DEF RecInv, RecTypeOK
  <2> HIDE DEF new
  <2> QED
    BY <1>2, <1>4, <1>5, <2>1, RecsChanged
<1>7. ASSUME recMarks' = {} PROVE OneOpen'
  <2>1. OneOpen /\ lastStmt = was /\ \A r \in DOMAIN recs : ~ OpenRec(r)
    BY <1>2, <1>7 DEF RecInv
  <2>2. recs'[n].last = was /\ recs'[n].applied = {}
    BY <1>4
  <2>3. \A r \in DOMAIN recs' : OpenRec(r)' => r = n
    BY <1>4, <1>5, <2>1 DEF OpenRec
  <2>4. AmountOf(Closed)' = AmountOf(Closed) /\ Closed' = Closed
    BY <1>2 DEF AmountOf, Closed
  <2> QED
    BY <1>2, <2>1, <2>2, <2>3, <2>4 DEF OneOpen
<1> QED
  BY <1>6, <1>7 DEF RecInv

LEMMA LinesStep ==
    ASSUME RecInv, NEW r \in DOMAIN recs,
           \/ \E i \in DOMAIN entry : MatchEntry(r, i)
           \/ \E a \in Amounts \cup {0} : AdjustRec(r, a)
    PROVE  RecInv'
<1>1. OpenRec(r) /\ UNCHANGED <<entry, lastStmt, view, recMarks>>
  BY DEF MatchEntry, AdjustRec
<1>2. /\ recs[r] \in RecType /\ recs \in Seq(RecType) /\ recs[r].applied \subseteq DOMAIN entry
      /\ DOMAIN entry \subseteq Nat
  BY DEF RecInv, RecTypeOK
<1>3. PICK rd : /\ recs' = [recs EXCEPT ![r] = rd] /\ rd \in RecType
                /\ rd.last = recs[r].last /\ rd.status = recs[r].status
                /\ rd.applied \subseteq DOMAIN entry
                /\ \A i \in rd.applied : i \in recs[r].applied \/ ~ entry[i].closed
  <2>1. ASSUME NEW i \in DOMAIN entry, MatchEntry(r, i)
        PROVE  \E rd : /\ recs' = [recs EXCEPT ![r] = rd] /\ rd \in RecType
                       /\ rd.last = recs[r].last /\ rd.status = recs[r].status
                       /\ rd.applied \subseteq DOMAIN entry
                       /\ \A j \in rd.applied : j \in recs[r].applied \/ ~ entry[j].closed
    <3> DEFINE S == IF i \in recs[r].applied THEN recs[r].applied \ {i} ELSE recs[r].applied \cup {i}
               rd == [recs[r] EXCEPT !.applied = S]
    <3>1. recs' = [recs EXCEPT ![r] = rd]
      BY <2>1 DEF MatchEntry
    <3>2. S \subseteq DOMAIN entry /\ \A j \in S : j \in recs[r].applied \/ ~ entry[j].closed
      BY <2>1, <1>2 DEF MatchEntry
    <3>3. S \in SUBSET Nat
      BY <1>2, <3>2
    <3> HIDE DEF S
    <3>4. rd \in RecType /\ rd.last = recs[r].last /\ rd.status = recs[r].status /\ rd.applied = S
      BY <1>2, <3>3 DEF RecType
    <3> HIDE DEF rd
    <3> QED
      BY <3>1, <3>2, <3>4
  <2>2. ASSUME NEW a \in Amounts \cup {0}, AdjustRec(r, a)
        PROVE  \E rd : /\ recs' = [recs EXCEPT ![r] = rd] /\ rd \in RecType
                       /\ rd.last = recs[r].last /\ rd.status = recs[r].status
                       /\ rd.applied \subseteq DOMAIN entry
                       /\ \A j \in rd.applied : j \in recs[r].applied \/ ~ entry[j].closed
    <3> DEFINE rd == [recs[r] EXCEPT !.adjust = a]
    <3>1. recs' = [recs EXCEPT ![r] = rd]
      BY <2>2 DEF AdjustRec
    <3>2. rd \in RecType /\ rd.last = recs[r].last /\ rd.status = recs[r].status /\ rd.applied = recs[r].applied
      <4>1. a \in Int
        BY RecAssumption
      <4> QED
        BY <1>2, <4>1 DEF RecType
    <3> HIDE DEF rd
    <3> QED
      BY <1>2, <3>1, <3>2
  <2> QED
    BY <2>1, <2>2
<1>4. recs' \in Seq(RecType) /\ DOMAIN recs' = DOMAIN recs /\ \A q \in DOMAIN recs : recs'[q] = IF q = r THEN rd ELSE recs[q]
  BY <1>2, <1>3
<1>5. RecTypeOK' /\ ViewSound'
  <2>1. \A q \in DOMAIN recs' : recs'[q].applied \subseteq DOMAIN entry
    BY <1>3, <1>4 DEF RecInv, RecTypeOK
  <2> QED
    BY <1>1, <1>4, <2>1, RecsChanged
<1>6. ASSUME recMarks' = {} PROVE OneOpen'
  <2>1. OneOpen
    BY <1>1, <1>6 DEF RecInv
  <2>2. AmountOf(Closed)' = AmountOf(Closed) /\ Closed' = Closed
    BY <1>1 DEF AmountOf, Closed
  <2>3. \A q \in DOMAIN recs : OpenRec(q)' <=> OpenRec(q)
    BY <1>3, <1>4 DEF OpenRec
  <2>4. rd.last = lastStmt /\ rd.applied \cap Closed = {}
    BY <1>1, <1>3, <2>1 DEF OneOpen, Closed
  <2>5. \A q \in DOMAIN recs : OpenRec(q)' => recs'[q].last = lastStmt /\ recs'[q].applied \cap Closed = {}
    BY <1>4, <2>1, <2>3, <2>4 DEF OneOpen
  <2> QED
    BY <1>1, <1>4, <2>1, <2>2, <2>3, <2>5 DEF OneOpen
<1> QED
  BY <1>5, <1>6 DEF RecInv

LEMMA PostStep ==
    ASSUME RecInv, NEW c \in Cashiers, PostRec(c)
    PROVE  RecInv'
<1>1. PICK r \in DOMAIN recs, rd \in RecType :
          /\ view[c] = <<"post", r, rd>>
          /\ rd.applied \subseteq DOMAIN entry /\ rd.status = "OPEN" /\ Difference(rd) = 0
  BY DEF RecInv, ViewSound, PostRec
<1> DEFINE closed == [i \in DOMAIN entry |->
                         IF i \in rd.applied THEN [entry[i] EXCEPT !.closed = TRUE] ELSE entry[i]]
           e == [amount |-> rd.adjust, closed |-> TRUE]
           n == Len(entry) + 1
<1>2. /\ entry' = IF rd.adjust = 0 THEN closed ELSE Append(closed, e)
      /\ lastStmt' = rd.stmt
      /\ recs' = [recs EXCEPT ![r].status = "POSTED"]
      /\ recMarks' = recMarks \cup (IF recs[r] # rd THEN {"twice"} ELSE {})
      /\ view' = [view EXCEPT ![c] = <<>>]
  <2>1. view[c][2] = r /\ view[c][3] = rd
    BY <1>1
  <2> QED
    BY <2>1 DEF PostRec
<1>3. /\ entry \in Seq(EntryType) /\ DOMAIN entry = 1 .. Len(entry) /\ Len(entry) \in Nat
      /\ \A i \in DOMAIN entry : entry[i] \in EntryType
  BY DEF RecInv, RecTypeOK
<1>4. closed \in Seq(EntryType) /\ Len(closed) = Len(entry)
  <2>1. \A i \in 1 .. Len(entry) : closed[i] \in EntryType
    BY <1>3 DEF EntryType
  <2>2. closed = [i \in 1 .. Len(entry) |-> closed[i]]
    BY <1>3
  <2> HIDE DEF closed
  <2> QED
    BY <1>3, <2>1, <2>2
<1>5. e \in EntryType
  BY DEF EntryType, RecType
<1>6. /\ entry' \in Seq(EntryType) /\ \A i \in DOMAIN entry : entry'[i] = closed[i]
      /\ rd.adjust = 0 => DOMAIN entry' = DOMAIN entry
      /\ rd.adjust # 0 => DOMAIN entry' = 1 .. n /\ entry'[n] = e
  <2> HIDE DEF closed, e
  <2> QED
    BY <1>2, <1>3, <1>4, <1>5
<1>7. \A i \in DOMAIN entry : /\ entry'[i].amount = entry[i].amount
                              /\ entry'[i].closed <=> entry[i].closed \/ i \in rd.applied
  <2> SUFFICES ASSUME NEW i \in DOMAIN entry
               PROVE  /\ entry'[i].amount = entry[i].amount
                      /\ entry'[i].closed <=> entry[i].closed \/ i \in rd.applied
    OBVIOUS
  <2>1. CASE i \in rd.applied
    <3>1. entry'[i] = [entry[i] EXCEPT !.closed = TRUE]
      BY <1>6, <2>1
    <3> QED
      BY <1>3, <2>1, <3>1 DEF EntryType
  <2>2. CASE i \notin rd.applied
    BY <1>6, <2>2
  <2> QED
    BY <2>1, <2>2
<1> HIDE DEF closed
<1>8. DOMAIN entry \subseteq DOMAIN entry'
  BY <1>3, <1>6
<1>9. /\ recs \in Seq(RecType) /\ recs' \in Seq(RecType) /\ DOMAIN recs' = DOMAIN recs
      /\ \A q \in DOMAIN recs : recs'[q].applied = recs[q].applied /\ recs'[q].last = recs[q].last
      /\ \A q \in DOMAIN recs : q # r => recs'[q] = recs[q]
      /\ recs'[r].status = "POSTED"
  <2>1. recs \in Seq(RecType) /\ \A q \in DOMAIN recs : recs[q] \in RecType
    BY DEF RecInv, RecTypeOK
  <2>2. PICK u : u = [recs[r] EXCEPT !.status = "POSTED"]
    OBVIOUS
  <2>3. u \in RecType /\ u.applied = recs[r].applied /\ u.last = recs[r].last /\ u.status = "POSTED"
    BY <2>1, <2>2 DEF RecType
  <2>4. recs' = [recs EXCEPT ![r] = u]
    BY <1>2, <2>2
  <2>5. recs' \in Seq(RecType) /\ DOMAIN recs' = DOMAIN recs
    BY <2>1, <2>3, <2>4
  <2>6. \A q \in DOMAIN recs : recs'[q] = IF q = r THEN u ELSE recs[q]
    BY <2>1, <2>4
  <2> QED
    BY <2>1, <2>3, <2>5, <2>6
<1>10. RecTypeOK'
  <2>1. view' \in [Cashiers -> {view'[b] : b \in Cashiers}]
    BY <1>2 DEF RecInv, RecTypeOK
  <2>2. \A q \in DOMAIN recs' : recs'[q].applied \subseteq DOMAIN entry'
    BY <1>8, <1>9 DEF RecInv, RecTypeOK
  <2>3. lastStmt' \in Int
    BY <1>2 DEF RecType
  <2> QED
    BY <1>6, <1>9, <2>1, <2>2, <2>3 DEF RecTypeOK
<1>11. ViewSound'
  <2>1. \A b \in Cashiers : view'[b] # <<>> => view'[b] = view[b]
    BY <1>2 DEF RecInv, RecTypeOK
  <2> QED
    BY <1>6, <1>7, <1>8, <1>9, <2>1, ViewKept DEF ViewSound
<1>12. ASSUME recMarks' = {} PROVE OneOpen'
  <2>1. OneOpen /\ recs[r] = rd /\ OpenRec(r)
    BY <1>1, <1>2, <1>12 DEF RecInv, OpenRec
  <2>2. \A q \in DOMAIN recs : ~ OpenRec(q)'
    BY <1>9, <2>1 DEF OpenRec, OneOpen
  <2>3. PICK C : C = Closed
    OBVIOUS
  <2> DEFINE D == C \cup rd.applied
  <2>4. C \in SUBSET DOMAIN entry /\ rd.applied \in SUBSET DOMAIN entry /\ C \cap rd.applied = {}
    BY <1>1, <2>1, <2>3 DEF OneOpen, Closed
  <2>5. AmountOf(D) = lastStmt + AmountOf(rd.applied)
    <3> DEFINE f == [i \in DOMAIN entry |-> entry[i].amount]
    <3>1. IsFiniteSet(C) /\ IsFiniteSet(rd.applied)
      BY <1>6, <1>7, <1>8, <2>4, AmountKept DEF RecInv
    <3>2. \A i \in C \cup rd.applied : f[i] \in Int
      BY <1>3, <2>4 DEF EntryType
    <3>3. SumOver(f, C \cup rd.applied) = SumOver(f, C) + SumOver(f, rd.applied)
      <4> HIDE DEF f
      <4> QED
        BY <2>4, <3>1, <3>2, SumOfUnion
    <3>4. lastStmt = AmountOf(C)
      BY <2>1, <2>3 DEF OneOpen
    <3> QED
      BY <3>3, <3>4 DEF AmountOf, SumOver
  <2>6. rd.stmt = AmountOf(D) + rd.adjust
    <3>1. rd.stmt \in Int /\ rd.adjust \in Int /\ lastStmt \in Int /\ AmountOf(rd.applied) \in Int /\ rd.last = lastStmt
      BY <1>6, <1>7, <1>8, <2>1, <2>4, AmountKept DEF RecType, RecInv, RecTypeOK, OneOpen
    <3>2. rd.stmt - (rd.last + AmountOf(rd.applied) + rd.adjust) = 0
      BY <1>1 DEF Difference
    <3> QED
      BY <2>5, <3>1, <3>2
  <2>7. D \in SUBSET DOMAIN entry /\ IsFiniteSet(D) /\ AmountOf(D)' = AmountOf(D) /\ AmountOf(D) \in Int
    <3>1. D \in SUBSET DOMAIN entry
      BY <2>4
    <3> HIDE DEF D
    <3> QED
      BY <1>6, <1>7, <1>8, <3>1, AmountKept DEF RecInv
  <2>8. Closed' = IF rd.adjust = 0 THEN D ELSE D \cup {n}
    <3>0. /\ \A i \in DOMAIN entry : i \in D <=> entry'[i].closed
          /\ D \subseteq DOMAIN entry
      BY <1>7, <2>3, <2>4 DEF Closed
    <3> HIDE DEF D
    <3>1. CASE rd.adjust = 0
      BY <1>6, <3>0, <3>1 DEF Closed
    <3>2. CASE rd.adjust # 0
      <4>1. \A i \in DOMAIN entry' : i \in DOMAIN entry \/ i = n
        BY <1>3, <1>6, <3>2
      <4>2. n \in DOMAIN entry' /\ entry'[n].closed
        BY <1>3, <1>6, <3>2
      <4> HIDE DEF n
      <4> QED
        BY <1>8, <3>0, <3>2, <4>1, <4>2 DEF Closed
    <3> QED
      BY <3>1, <3>2
  <2>9. AmountOf(Closed)' = rd.stmt
    <3>1. CASE rd.adjust = 0
      <4>1. AmountOf(Closed)' = AmountOf(D)'
        BY <2>8, <3>1 DEF AmountOf
      <4> QED
        BY <2>6, <2>7, <3>1, <4>1
    <3>2. CASE rd.adjust # 0
      <4> DEFINE g == [i \in DOMAIN entry' |-> entry'[i].amount]
      <4>1. AmountOf(Closed)' = SumOver(g, D \cup {n})
        BY <2>8, <3>2 DEF AmountOf, SumOver
      <4>2. n \notin D /\ g[n] = rd.adjust /\ rd.adjust \in Int
        <5>1. n \notin D /\ n \in DOMAIN entry'
          BY <1>3, <1>6, <2>7, <3>2
        <5>2. entry'[n].amount = rd.adjust
          BY <1>6, <3>2
        <5> QED
          BY <5>1, <5>2 DEF RecType
      <4>3. \A i \in D \cup {n} : g[i] \in Int
        <5>1. \A i \in DOMAIN entry' : entry'[i] \in EntryType
          BY <1>6
        <5>2. D \cup {n} \subseteq DOMAIN entry'
          BY <1>3, <1>6, <2>7, <3>2
        <5> QED
          BY <5>1, <5>2 DEF EntryType
      <4>4. AmountOf(D)' = SumOver(g, D)
        BY DEF AmountOf, SumOver
      <4> HIDE DEF g, n, D
      <4>5. SumOver(g, D \cup {n}) = SumOver(g, D) + g[n]
        BY <2>7, <4>2, <4>3, SumWith
      <4> QED
        BY <2>6, <2>7, <4>1, <4>2, <4>4, <4>5
    <3> QED
      BY <3>1, <3>2
  <2> QED
    BY <1>2, <1>9, <2>2, <2>9 DEF OneOpen
<1> QED
  BY <1>10, <1>11, <1>12 DEF RecInv

LEMMA RecStep == RecInv /\ [RecNext]_recVars => RecInv'
<1> SUFFICES ASSUME RecInv, [RecNext]_recVars PROVE RecInv'
  OBVIOUS
<1>1. CASE UNCHANGED recVars
  <2>1. RecTypeOK'
    BY <1>1 DEF recVars, RecInv, RecTypeOK
  <2>2. ViewSound' /\ (recMarks = {} => OneOpen)'
    BY <1>1 DEF recVars, RecInv, ViewSound, Difference, OneOpen, OpenRec, Closed, AmountOf
  <2> QED
    BY <2>1, <2>2 DEF RecInv
<1>2. CASE RecNext
  BY <1>2, ArriveStep, ReadStep, StartStep, LinesStep, PostStep DEF RecNext
<1> QED
  BY <1>1, <1>2

\* Bank reconciliation: the balance of the last statement is the sum of the entries that
\* reconciliations closed, however entries arrive and lines change, unless two were
\* started at once or one changed while it was posted; for any amounts and statements.
THEOREM StatementIsReconciledAlways == RecSpec => []StatementIsReconciled
<1>1. RecInv => StatementIsReconciled
  BY DEF RecInv, OneOpen, Closed, StatementIsReconciled
<1> QED
  BY RecInitInv, RecStep, <1>1, PTL DEF RecSpec

-----------------------------------------------------------------------------
(* FeeRun: what every student is billed, and how often.                     *)

\* A sequence is added up over its positions, and to an integer.
LEMMA SeqAddsUp ==
    ASSUME NEW q \in Seq(Int)
    PROVE  IsFiniteSet(DOMAIN q) /\ SumSeq(q) = SumOver(q, DOMAIN q) /\ SumSeq(q) \in Int
<1>1. DOMAIN q = 1 .. Len(q) /\ Len(q) \in Nat /\ \A i \in DOMAIN q : q[i] \in Int
  OBVIOUS
<1>2. IsFiniteSet(DOMAIN q)
  BY <1>1, FS_Interval
<1>3. SumSeq(q) = SumOver(q, DOMAIN q)
  BY SumOfFunction DEF SumSeq
<1> QED
  BY <1>1, <1>2, <1>3, SumIsInt

\* A function on 1 .. n is a sequence.
LEMMA SeqIsUnion == \A S : \A n \in Nat : \A f \in [1 .. n -> S] : f \in Seq(S)
OBVIOUS

LEMMA RoundedIsInt == \A a \in Int, p \in Nat : Rounded(a, p) \in Int
BY DEF Rounded

\* Whatever the percentages, and though each part is rounded, the parts of an amount come
\* to it (splitByInstalments).
LEMMA SplitAddsUp ==
    ASSUME NEW a \in Int, NEW pcts \in Seq(Nat), pcts # <<>>
    PROVE  /\ DOMAIN Split(a, pcts) = DOMAIN pcts
           /\ \A k \in DOMAIN pcts : Split(a, pcts)[k] \in Int
           /\ SumOver(Split(a, pcts), DOMAIN pcts) = a
<1>1. PICK r : r = [k \in DOMAIN pcts |-> Rounded(a, pcts[k])]
  OBVIOUS
<1>2. PICK n : n = Len(pcts)
  OBVIOUS
<1>3. DOMAIN pcts = 1 .. n /\ n \in Nat \ {0} /\ n \in DOMAIN pcts /\ \A k \in DOMAIN pcts : pcts[k] \in Nat
  BY <1>2
<1>4. \A k \in DOMAIN pcts : r[k] \in Int
  BY <1>1, <1>3, RoundedIsInt
<1>5. r \in Seq(Int)
  <2>1. r \in [1 .. n -> Int]
    BY <1>1, <1>3, <1>4
  <2> QED
    BY <1>3, <2>1, SeqIsUnion
<1>6. PICK drift : drift = a - SumSeq(r)
  OBVIOUS
<1>7. SumSeq(r) = SumOver(r, DOMAIN pcts) /\ SumSeq(r) \in Int /\ IsFiniteSet(DOMAIN pcts)
  BY <1>1, <1>5, SeqAddsUp
<1>8. PICK g : g = [k \in DOMAIN pcts |-> Rounded(a, pcts[k]) + IF k = Len(pcts) THEN drift ELSE 0]
  OBVIOUS
<1>9. Split(a, pcts) = g
  BY <1>1, <1>6, <1>8 DEF Split
<1>10. DOMAIN g = DOMAIN pcts /\ \A k \in DOMAIN pcts : g[k] = r[k] + (IF k = n THEN drift ELSE 0)
  BY <1>1, <1>2, <1>8
<1>11. drift \in Int
  BY <1>6, <1>7
<1>12. /\ \A k \in DOMAIN pcts : g[k] \in Int
       /\ \A k \in DOMAIN pcts \ {n} : g[k] = r[k]
       /\ g[n] - r[n] = drift
  <2>1. \A k \in DOMAIN pcts \ {n} : g[k] = r[k]
    BY <1>4, <1>10
  <2>2. g[n] = r[n] + drift
    BY <1>3, <1>10
  <2>3. r[n] \in Int /\ g[n] \in Int
    BY <1>3, <1>4, <1>11, <2>2
  <2>4. \A k \in DOMAIN pcts : g[k] \in Int
    BY <1>4, <2>1, <2>3
  <2>5. g[n] - r[n] = drift
    BY <1>11, <2>2, <2>3
  <2> QED
    BY <2>1, <2>4, <2>5
<1>13. SumOver(g, DOMAIN pcts) = SumOver(r, DOMAIN pcts) + drift
  <2>1. SumOver(g, DOMAIN pcts) = SumOver(r, DOMAIN pcts) + (g[n] - r[n])
    BY <1>3, <1>4, <1>7, <1>12, SumChanged
  <2> QED
    BY <1>12, <2>1
<1> QED
  BY <1>6, <1>7, <1>9, <1>10, <1>12, <1>13

\* The invoices of a bill come to its net, whatever the lines, the discount and the
\* percentages.
LEMMA InvoicesAddUp ==
    ASSUME NEW b \in Bills, NEW pcts \in Seq(Nat), pcts # <<>>
    PROVE  /\ Invoices(b, pcts) \in Seq(Int) /\ DOMAIN Invoices(b, pcts) = DOMAIN pcts
           /\ SumSeq(Invoices(b, pcts)) = Net(b)
           /\ Gross(b) \in Int /\ Net(b) \in Int
<1>1. b.lines \in Seq(Int) /\ b.discount \in Int
  <2>1. b.lines \in Seq(Nat) /\ b.discount \in Nat
    BY FeeAssumption
  <2> QED
    BY <2>1
<1>2. PICK S : S = DOMAIN b.lines
  OBVIOUS
<1>3. PICK T : T = DOMAIN pcts
  OBVIOUS
<1>4. IsFiniteSet(S) /\ Gross(b) = SumOver(b.lines, S) /\ Gross(b) \in Int /\ \A i \in S : b.lines[i] \in Int
  BY <1>1, <1>2, SeqAddsUp DEF Gross
<1>5. IsFiniteSet(T) /\ T = 1 .. Len(pcts) /\ Len(pcts) \in Nat
  <2>1. T = 1 .. Len(pcts) /\ Len(pcts) \in Nat
    BY <1>3
  <2> QED
    BY <2>1, FS_Interval
<1>6. PICK m : m = [i \in S |-> Split(b.lines[i], pcts)]
  OBVIOUS
<1>7. PICK d : d = Split(b.discount, pcts)
  OBVIOUS
<1>8. (\A k \in T : d[k] \in Int) /\ SumOver(d, T) = b.discount
  BY <1>1, <1>3, <1>7, SplitAddsUp
<1>9. \A i \in S : (\A k \in T : m[i][k] \in Int) /\ SumOver(m[i], T) = b.lines[i]
  BY <1>3, <1>4, <1>6, SplitAddsUp
<1>n. PICK c : c = [k \in T |-> [i \in S |-> m[i][k]]]
  OBVIOUS
<1>10. PICK a : a = [k \in T |-> SumOver(c[k], S)]
  OBVIOUS
<1>11. SumOver(a, T) = Gross(b)
  <2>1. Table(S, T, m, c, b.lines, a)
    BY <1>9, <1>10, <1>n DEF Table
  <2>2. SumOver(a, T) = SumOver(b.lines, S)
    BY <1>4, <1>5, <2>1, SumsExchange
  <2> QED
    BY <1>4, <2>2
<1>12. PICK q : q = Invoices(b, pcts)
  OBVIOUS
<1>13. ASSUME NEW k \in T PROVE a[k] \in Int /\ q[k] = a[k] - d[k]
  <2>1. PICK col : col = c[k]
    OBVIOUS
  <2>2. \A i \in S : col[i] \in Int
    BY <1>9, <1>n, <1>13, <2>1
  <2>3. a[k] = SumOver(col, S)
    BY <1>10, <1>13, <2>1
  <2>4. SumOver(col, S) \in Int
    BY <1>4, <2>2, SumIsInt
  <2>5. col = [i \in DOMAIN b.lines |-> Split(b.lines[i], pcts)[k]] /\ DOMAIN col = S
    BY <1>2, <1>6, <1>n, <1>13, <2>1
  <2>6. SumSeq(col) = SumOver(col, S)
    BY <2>5, SumOfFunction DEF SumSeq
  <2>7. q[k] = SumSeq(col) - d[k]
    BY <1>3, <1>7, <1>12, <1>13, <2>5 DEF Invoices
  <2> QED
    BY <2>3, <2>4, <2>6, <2>7
<1>14. DOMAIN q = T
  BY <1>3, <1>12 DEF Invoices
<1>15. \A k \in T : q[k] \in Int /\ d[k] \in Int /\ a[k] = q[k] + d[k]
  BY <1>8, <1>13
<1>16. SumOver(a, T) = SumOver(q, T) + SumOver(d, T)
  BY <1>5, <1>15, SumOfSums
<1>17. q \in Seq(Int)
  <2>1. q = [k \in T |-> q[k]]
    BY <1>12, <1>14 DEF Invoices
  <2> QED
    BY <1>5, <1>15, <2>1
<1>18. SumSeq(q) = SumOver(q, T) /\ SumSeq(q) \in Int
  BY <1>14, <1>17, SeqAddsUp
<1> QED
  BY <1>1, <1>3, <1>4, <1>8, <1>11, <1>12, <1>14, <1>16, <1>17, <1>18 DEF Net

-----------------------------------------------------------------------------
Status(r) == runs[r].status

\* A bill was made by a run that was created, comes to the student's net, and is noted
\* under that run until it is deleted.
BillSound(s, n) ==
    /\ Status(account[s][n].run) # "none"
    /\ Status(account[s][n].run) # "deleted" =>
          \E i \in feeInvoices : i.run = account[s][n].run /\ i.student = s /\ i.k = 1
    /\ SumSeq(account[s][n].invoices) = account[s][n].net

\* What a request that bills has counted: of those it listed some were to be billed, of
\* those some are; the others were billed before.
CountsRight(c) == clerk[c].at = "bill" =>
    \E due \in SUBSET clerk[c].lines : \E done \in SUBSET due :
        /\ Cardinality(due) = clerk[c].due /\ Cardinality(done) = clerk[c].posted
        /\ done \cap clerk[c].todo = {} /\ clerk[c].todo \subseteq due
        /\ \A s \in clerk[c].lines \ due : account[s] # <<>>
        /\ \A s \in done : account[s] # <<>>

FeeInv ==
    /\ FeeTypeOK
    /\ BilledAgainOnlyAfterDelete
    /\ \A s \in Students : \A n \in DOMAIN account[s] : BillSound(s, n)
    /\ \A i \in feeInvoices : account[i.student] # <<>>
    /\ \A c \in Clerks : CountsRight(c)

LEMMA NoJobTyped == NoJob \in ClerkType /\ NoJob.at = "idle" /\ NoAmount \in [Students -> Int]
BY DEF NoJob, NoAmount, ClerkType

LEMMA FeeInitInv == FeeInit => FeeInv
<1> SUFFICES ASSUME FeeInit PROVE FeeInv
  OBVIOUS
<1>1. FeeTypeOK
  BY NoJobTyped, FeeAssumption DEF FeeInit, FeeTypeOK, FeeRunType
<1>2. \A s \in Students : account[s] = <<>>
  BY DEF FeeInit
<1>3. \A c \in Clerks : clerk[c].at = "idle"
  BY NoJobTyped DEF FeeInit
<1>4. feeInvoices = {}
  BY DEF FeeInit
<1> QED
  BY <1>1, <1>2, <1>3, <1>4 DEF FeeInv, BilledAgainOnlyAfterDelete, CountsRight

\* What the account typing says of one bill.
LEMMA BillsTyped ==
    ASSUME FeeTypeOK, NEW s \in Students
    PROVE  /\ account[s] \in Seq(BilledType)
           /\ DOMAIN account[s] = 1 .. Len(account[s]) /\ Len(account[s]) \in Nat
           /\ \A n \in DOMAIN account[s] : account[s][n] \in BilledType /\ account[s][n].run \in FeeRuns
<1>1. account[s] \in Seq(BilledType)
  BY DEF FeeTypeOK
<1>2. \A n \in DOMAIN account[s] : account[s][n] \in BilledType
  BY <1>1
<1> QED
  BY <1>1, <1>2 DEF BilledType

\* Steps that bill nobody and take no note away: a run that is deleted stays so, and no
\* other becomes so.
LEMMA NobodyBilled ==
    ASSUME FeeInv, account' = account, feeInvoices' = feeInvoices, FeeTypeOK',
           \A r \in FeeRuns : /\ Status(r) = "deleted" <=> Status(r)' = "deleted"
                              /\ Status(r) # "none" => Status(r)' # "none",
           \A c \in Clerks : CountsRight(c)'
    PROVE  FeeInv'
<1>1. FeeTypeOK /\ \A s \in Students : \A n \in DOMAIN account[s] : account[s][n].run \in FeeRuns
  BY BillsTyped DEF FeeInv
<1>2. BilledAgainOnlyAfterDelete'
  BY <1>1 DEF FeeInv, BilledAgainOnlyAfterDelete, Status
<1>3. \A s \in Students : \A n \in DOMAIN account[s] : BillSound(s, n)'
  BY <1>1 DEF FeeInv, BillSound, Status
<1>4. \A i \in feeInvoices' : account'[i.student] # <<>>
  BY DEF FeeInv
<1> QED
  BY <1>2, <1>3, <1>4 DEF FeeInv

\* The requests no step of another touches count on.
LEMMA CountsStand ==
    ASSUME NEW c, CountsRight(c), clerk'[c] = clerk[c], \A s \in clerk[c].lines : account[s] # <<>> => account'[s] # <<>>
    PROVE  CountsRight(c)'
<1> SUFFICES ASSUME clerk[c].at = "bill"
             PROVE  \E due \in SUBSET clerk[c].lines : \E done \in SUBSET due :
                       /\ Cardinality(due) = clerk[c].due /\ Cardinality(done) = clerk[c].posted
                       /\ done \cap clerk[c].todo = {} /\ clerk[c].todo \subseteq due
                       /\ \A s \in clerk[c].lines \ due : account'[s] # <<>>
                       /\ \A s \in done : account'[s] # <<>>
  BY DEF CountsRight
<1>1. PICK due \in SUBSET clerk[c].lines : \E done \in SUBSET due :
        /\ Cardinality(due) = clerk[c].due /\ Cardinality(done) = clerk[c].posted
        /\ done \cap clerk[c].todo = {} /\ clerk[c].todo \subseteq due
        /\ \A s \in clerk[c].lines \ due : account[s] # <<>>
        /\ \A s \in done : account[s] # <<>>
  BY DEF CountsRight
<1>2. PICK done \in SUBSET due :
        /\ Cardinality(due) = clerk[c].due /\ Cardinality(done) = clerk[c].posted
        /\ done \cap clerk[c].todo = {} /\ clerk[c].todo \subseteq due
        /\ \A s \in clerk[c].lines \ due : account[s] # <<>>
        /\ \A s \in done : account[s] # <<>>
  BY <1>1
<1> QED
  BY <1>1, <1>2

LEMMA CreateRunStep ==
    ASSUME FeeInv, NEW r \in FeeRuns, CreateRun(r) PROVE FeeInv'
<1>1. PICK x : x = [status |-> "Open", billed |-> Cardinality(ToBill(r)),
                    total |-> SumFunctionOnSet([s \in Students |-> Net(bill[s])], ToBill(r))]
  OBVIOUS
<1>2. runs' = [runs EXCEPT ![r] = x] /\ Status(r) = "none" /\ UNCHANGED <<feeInvoices, account, bill, ready, clerk, edits, clerkCrashes>>
  BY <1>1 DEF CreateRun, Status
<1>3. ToBill(r) \subseteq Students /\ IsFiniteSet(ToBill(r)) /\ Cardinality(ToBill(r)) \in Nat
  <2>1. ToBill(r) \subseteq Students
    BY FeeAssumption DEF ToBill, Billable
  <2>2. IsFiniteSet(ToBill(r))
    BY <2>1, FeeAssumption, FS_Subset
  <2> QED
    BY <2>1, <2>2, FS_CardinalityType
<1>4. SumFunctionOnSet([s \in Students |-> Net(bill[s])], ToBill(r)) \in Int
  <2>1. PICK f : f = [s \in Students |-> Net(bill[s])]
    OBVIOUS
  <2>2. \A s \in ToBill(r) : f[s] \in Int
    <3>1. \A s \in Students : bill[s] \in Bills
      BY DEF FeeInv, FeeTypeOK
    <3>2. \A s \in Students : Net(bill[s]) \in Int
      BY <3>1, FeeAssumption, InvoicesAddUp
    <3> QED
      BY <1>3, <2>1, <3>2
  <2>3. SumOver(f, ToBill(r)) \in Int
    BY <1>3, <2>2, SumIsInt
  <2> QED
    BY <2>1, <2>3 DEF SumOver
<1>5. x \in FeeRunType /\ x.status = "Open"
  BY <1>1, <1>3, <1>4 DEF FeeRunType
<1>6. runs \in [FeeRuns -> FeeRunType]
  BY DEF FeeInv, FeeTypeOK
<1>7. FeeTypeOK'
  BY <1>2, <1>5, <1>6 DEF FeeInv, FeeTypeOK
<1>8. \A q \in FeeRuns : /\ Status(q) = "deleted" <=> Status(q)' = "deleted"
                         /\ Status(q) # "none" => Status(q)' # "none"
  BY <1>2, <1>5, <1>6 DEF Status
<1>9. \A c \in Clerks : CountsRight(c)'
  BY <1>2, CountsStand DEF FeeInv
<1> QED
  BY <1>2, <1>7, <1>8, <1>9, NobodyBilled

\* The steps of a request that write neither a bill nor a run.
LEMMA RequestMoves ==
    ASSUME FeeInv, NEW c \in Clerks, NEW x \in ClerkType, clerk' = [clerk EXCEPT ![c] = x],
           UNCHANGED <<runs, feeInvoices, account>>,
           bill' \in [Students -> Bills], ready' \in [Students -> BOOLEAN],
           edits' \in 0 .. MaxEdits, clerkCrashes' \in 0 .. MaxClerkCrashes,
           CountsRight(c)'
    PROVE  FeeInv'
<1>1. clerk \in [Clerks -> ClerkType]
  BY DEF FeeInv, FeeTypeOK
<1>2. clerk' \in [Clerks -> ClerkType]
  BY <1>1
<1>3. FeeTypeOK'
  BY <1>2 DEF FeeInv, FeeTypeOK
<1>4. \A q \in FeeRuns : /\ Status(q) = "deleted" <=> Status(q)' = "deleted"
                         /\ Status(q) # "none" => Status(q)' # "none"
  BY DEF Status
<1>5. ASSUME NEW d \in Clerks, d # c PROVE CountsRight(d)'
  <2>1. clerk'[d] = clerk[d]
    BY <1>1, <1>5
  <2> QED
    BY <2>1, CountsStand DEF FeeInv
<1> QED
  BY <1>3, <1>4, <1>5, NobodyBilled

\* A request in no run counts nothing.
LEMMA NothingCounted == ASSUME NEW c, clerk'[c].at # "bill" PROVE CountsRight(c)'
BY DEF CountsRight

LEMMA ReadRunStep ==
    ASSUME FeeInv, NEW c \in Clerks, NEW r \in FeeRuns, PostRead(c, r) \/ DeleteRead(c, r) PROVE FeeInv'
<1>1. PICK at \in {"preview", "delete"} : clerk' = [clerk EXCEPT ![c] = [NoJob EXCEPT !.at = at, !.run = {r}]]
  BY DEF PostRead, DeleteRead
<1>2. PICK x : x = [NoJob EXCEPT !.at = at, !.run = {r}]
  OBVIOUS
<1>3. x \in ClerkType /\ x.at = at
  BY <1>2, NoJobTyped DEF ClerkType
<1>4. clerk' = [clerk EXCEPT ![c] = x] /\ clerk'[c] = x
  BY <1>1, <1>2 DEF FeeInv, FeeTypeOK
<1>5. CountsRight(c)'
  BY <1>3, <1>4, NothingCounted
<1>6. UNCHANGED <<runs, feeInvoices, account, bill, ready, edits, clerkCrashes>>
  BY DEF PostRead, DeleteRead
<1>7. bill' \in [Students -> Bills] /\ ready' \in [Students -> BOOLEAN] /\ edits' \in 0 .. MaxEdits /\ clerkCrashes' \in 0 .. MaxClerkCrashes
  BY <1>6 DEF FeeInv, FeeTypeOK
<1> QED
  BY <1>3, <1>4, <1>5, <1>6, <1>7, RequestMoves

LEMMA ClerkCrashStep ==
    ASSUME FeeInv, NEW c \in Clerks, ClerkCrash(c) PROVE FeeInv'
<1>1. clerk' = [clerk EXCEPT ![c] = NoJob] /\ clerk'[c] = NoJob
  BY DEF ClerkCrash, FeeInv, FeeTypeOK
<1>2. CountsRight(c)'
  BY <1>1, NoJobTyped, NothingCounted
<1>3. clerkCrashes' \in 0 .. MaxClerkCrashes
  BY FeeAssumption DEF ClerkCrash, FeeInv, FeeTypeOK
<1>4. bill' \in [Students -> Bills] /\ ready' \in [Students -> BOOLEAN] /\ edits' \in 0 .. MaxEdits /\ UNCHANGED <<runs, feeInvoices, account>>
  BY DEF ClerkCrash, FeeInv, FeeTypeOK
<1> QED
  BY <1>1, <1>2, <1>3, <1>4, NoJobTyped, RequestMoves

\* Whom the preview lists and does not bill has been billed.
LEMMA PreviewStep ==
    ASSUME FeeInv, NEW c \in Clerks, NEW r \in FeeRuns, PreviewRun(c, r) PROVE FeeInv'
<1>1. PICK x : x = [at |-> "bill", run |-> {r}, lines |-> Billable(r), todo |-> ToBill(r),
                    due |-> Cardinality(ToBill(r)),
                    amount |-> [s \in Students |-> IF s \in ToBill(r) THEN Net(bill[s]) ELSE 0],
                    posted |-> 0, total |-> 0]
  OBVIOUS
<1>2. clerk' = [clerk EXCEPT ![c] = x] /\ clerk'[c] = x
  BY <1>1 DEF PreviewRun, FeeInv, FeeTypeOK
<1>3. Billable(r) \subseteq Students /\ ToBill(r) \subseteq Billable(r) /\ Cardinality(ToBill(r)) \in Nat
  <2>1. Billable(r) \subseteq Students /\ ToBill(r) \subseteq Billable(r)
    BY FeeAssumption DEF ToBill, Billable
  <2>2. IsFiniteSet(ToBill(r))
    BY <2>1, FeeAssumption, FS_Subset
  <2> QED
    BY <2>1, <2>2, FS_CardinalityType
<1>4. [s \in Students |-> IF s \in ToBill(r) THEN Net(bill[s]) ELSE 0] \in [Students -> Int]
  <2>1. \A s \in Students : bill[s] \in Bills
    BY DEF FeeInv, FeeTypeOK
  <2>2. \A s \in Students : Net(bill[s]) \in Int
    BY <2>1, FeeAssumption, InvoicesAddUp
  <2> QED
    BY <2>2
<1>5. x \in ClerkType
  BY <1>1, <1>3, <1>4 DEF ClerkType
<1>6. \A s \in Billable(r) \ ToBill(r) : account[s] # <<>>
  BY DEF ToBill, Invoiced, FeeInv
<1>7. UNCHANGED <<runs, feeInvoices, account, bill, ready, edits, clerkCrashes>>
  BY DEF PreviewRun
<1>8. CountsRight(c)'
  <2>1. /\ x.lines = Billable(r) /\ x.todo = ToBill(r) /\ x.due = Cardinality(ToBill(r)) /\ x.posted = 0
    BY <1>1
  <2>2. /\ ToBill(r) \in SUBSET x.lines /\ {} \in SUBSET ToBill(r) /\ Cardinality({}) = x.posted
        /\ {} \cap x.todo = {} /\ x.todo \subseteq ToBill(r) /\ Cardinality(ToBill(r)) = x.due
        /\ \A s \in x.lines \ ToBill(r) : account'[s] # <<>>
    BY <1>3, <1>6, <1>7, <2>1, FS_EmptySet
  <2>3. \E due \in SUBSET x.lines : \E done \in SUBSET due :
          /\ Cardinality(due) = x.due /\ Cardinality(done) = x.posted
          /\ done \cap x.todo = {} /\ x.todo \subseteq due
          /\ \A s \in x.lines \ due : account'[s] # <<>>
          /\ \A s \in done : account'[s] # <<>>
    BY <2>2
  <2> QED
    BY <1>2, <2>3 DEF CountsRight
<1>9. bill' \in [Students -> Bills] /\ ready' \in [Students -> BOOLEAN] /\ edits' \in 0 .. MaxEdits /\ clerkCrashes' \in 0 .. MaxClerkCrashes
  BY <1>7 DEF FeeInv, FeeTypeOK
<1> QED
  BY <1>2, <1>5, <1>7, <1>8, <1>9, RequestMoves

LEMMA AccountStep ==
    ASSUME FeeInv, NEW s \in Students, Mend(s) \/ ChangeBill(s) PROVE FeeInv'
<1>1. UNCHANGED <<runs, feeInvoices, account, clerk, clerkCrashes>>
  BY DEF Mend, ChangeBill
<1>2. FeeTypeOK'
  <2>0. bill \in [Students -> Bills] /\ ready \in [Students -> BOOLEAN] /\ edits \in 0 .. MaxEdits /\ MaxEdits \in Nat
    BY FeeAssumption DEF FeeInv, FeeTypeOK
  <2>1. bill' \in [Students -> Bills] /\ ready' \in [Students -> BOOLEAN] /\ edits' \in 0 .. MaxEdits
    <3>1. CASE Mend(s)
      BY <2>0, <3>1 DEF Mend
    <3>2. CASE ChangeBill(s)
      <4>1. edits < MaxEdits /\ edits' = edits + 1 /\ ready' = ready
        BY <3>2 DEF ChangeBill
      <4>2. PICK b \in Bills : bill' = [bill EXCEPT ![s] = b]
        BY <3>2 DEF ChangeBill
      <4> QED
        BY <2>0, <4>1, <4>2
    <3> QED
      BY <3>1, <3>2
  <2> QED
    BY <1>1, <2>1 DEF FeeInv, FeeTypeOK
<1>3. \A c \in Clerks : CountsRight(c)'
  BY <1>1, CountsStand DEF FeeInv
<1>4. \A q \in FeeRuns : Status(q)' = Status(q)
  BY <1>1 DEF Status
<1> QED
  BY <1>1, <1>2, <1>3, <1>4, NobodyBilled

LEMMA FinishRunStep ==
    ASSUME FeeInv, NEW c \in Clerks, NEW r \in FeeRuns, FinishRun(c, r) PROVE FeeInv'
<1>1. PICK x : x = [status |-> StatusAfter(c), billed |-> clerk[c].posted, total |-> clerk[c].total]
  OBVIOUS
<1>2. runs' = (IF Status(r) = "deleted" THEN runs ELSE [runs EXCEPT ![r] = x])
  BY <1>1 DEF FinishRun, Status
<1>3. clerk' = [clerk EXCEPT ![c] = NoJob] /\ UNCHANGED <<feeInvoices, account, bill, ready, edits, clerkCrashes>>
  BY DEF FinishRun
<1>4. clerk \in [Clerks -> ClerkType] /\ runs \in [FeeRuns -> FeeRunType]
  BY DEF FeeInv, FeeTypeOK
<1>5. x \in FeeRunType /\ x.status \in {"Open", "Posted"}
  BY <1>1, <1>4 DEF StatusAfter, ClerkType, FeeRunType
<1>6. clerk' \in [Clerks -> ClerkType] /\ clerk'[c] = NoJob /\ \A d \in Clerks : d # c => clerk'[d] = clerk[d]
  BY <1>3, <1>4, NoJobTyped
<1>7. runs' \in [FeeRuns -> FeeRunType]
  BY <1>2, <1>4, <1>5
<1>8. FeeTypeOK'
  BY <1>3, <1>6, <1>7 DEF FeeInv, FeeTypeOK
<1>9. \A q \in FeeRuns : /\ Status(q) = "deleted" <=> Status(q)' = "deleted"
                         /\ Status(q) # "none" => Status(q)' # "none"
  BY <1>2, <1>4, <1>5 DEF Status
<1>10. \A d \in Clerks : CountsRight(d)'
  <2>1. CountsRight(c)'
    BY <1>6, NoJobTyped, NothingCounted
  <2>2. ASSUME NEW d \in Clerks, d # c PROVE CountsRight(d)'
    BY <1>3, <1>6, <2>2, CountsStand DEF FeeInv
  <2> QED
    BY <2>1, <2>2
<1> QED
  BY <1>3, <1>8, <1>9, <1>10, NobodyBilled

\* A run that is deleted takes its own notes along, and no other's.
LEMMA DeleteRunStep ==
    ASSUME FeeInv, NEW c \in Clerks, NEW r \in FeeRuns, DeleteRun(c, r) PROVE FeeInv'
<1>1. PICK x : x = [status |-> "deleted", billed |-> 0, total |-> 0]
  OBVIOUS
<1>2. /\ runs' = [runs EXCEPT ![r] = x] /\ feeInvoices' = {i \in feeInvoices : i.run # r}
      /\ clerk' = [clerk EXCEPT ![c] = NoJob] /\ UNCHANGED <<account, bill, ready, edits, clerkCrashes>>
  BY <1>1 DEF DeleteRun
<1>3. clerk \in [Clerks -> ClerkType] /\ runs \in [FeeRuns -> FeeRunType]
  BY DEF FeeInv, FeeTypeOK
<1>4. x \in FeeRunType /\ x.status = "deleted"
  BY <1>1 DEF FeeRunType
<1>5. clerk' \in [Clerks -> ClerkType] /\ clerk'[c] = NoJob /\ \A d \in Clerks : d # c => clerk'[d] = clerk[d]
  BY <1>2, <1>3, NoJobTyped
<1>6. runs' \in [FeeRuns -> FeeRunType] /\ Status(r)' = "deleted" /\ \A q \in FeeRuns : q # r => Status(q)' = Status(q)
  BY <1>2, <1>3, <1>4 DEF Status
<1>7. FeeTypeOK'
  BY <1>2, <1>5, <1>6 DEF FeeInv, FeeTypeOK
<1>8. \A d \in Clerks : CountsRight(d)'
  <2>1. CountsRight(c)'
    BY <1>5, NoJobTyped, NothingCounted
  <2>2. ASSUME NEW d \in Clerks, d # c PROVE CountsRight(d)'
    BY <1>2, <1>5, <2>2, CountsStand DEF FeeInv
  <2> QED
    BY <2>1, <2>2
<1>9. \A s \in Students : \A n \in DOMAIN account[s] : account[s][n].run \in FeeRuns
  BY BillsTyped DEF FeeInv
<1>10. ASSUME NEW s \in Students, NEW n \in DOMAIN account[s] PROVE BillSound(s, n)'
  <2>1. BillSound(s, n) /\ account'[s][n] = account[s][n] /\ account[s][n].run \in FeeRuns
    BY <1>2, <1>9 DEF FeeInv
  <2> QED
    BY <1>2, <1>6, <2>1 DEF BillSound
<1>11. BilledAgainOnlyAfterDelete'
  BY <1>2, <1>6, <1>9 DEF FeeInv, BilledAgainOnlyAfterDelete, Status
<1>12. \A i \in feeInvoices' : account'[i.student] # <<>>
  BY <1>2 DEF FeeInv
<1> QED
  BY <1>2, <1>7, <1>8, <1>10, <1>11, <1>12 DEF FeeInv

\* A student is billed: nobody has noted a bill of theirs, so whatever run billed them
\* before is deleted; and the request counts one more, of those it was to bill.
LEMMA BillStep ==
    ASSUME FeeInv, NEW c \in Clerks, NEW r \in FeeRuns, NEW s \in Students, BillStudent(c, r, s), BillsStudent(s, r)
    PROVE  FeeInv'
<1>1. PICK inv : inv = Invoices(bill[s], Schedule[r])
  OBVIOUS
<1>2. PICK b : b = [run |-> r, net |-> Net(bill[s]), invoices |-> inv]
  OBVIOUS
<1>3. PICK notes : notes = {[run |-> r, student |-> s, k |-> k, amount |-> inv[k]] : k \in DOMAIN inv}
  OBVIOUS
<1>4. /\ account' = [account EXCEPT ![s] = Append(@, b)] /\ feeInvoices' = feeInvoices \cup notes
      /\ UNCHANGED <<runs, bill, ready, edits, clerkCrashes>>
  BY <1>1, <1>2, <1>3 DEF BillStudent
<1>5. /\ inv \in Seq(Int) /\ DOMAIN inv = DOMAIN Schedule[r] /\ SumSeq(inv) = Net(bill[s]) /\ Net(bill[s]) \in Int
      /\ 1 \in DOMAIN Schedule[r] /\ DOMAIN Schedule[r] \subseteq Nat \ {0}
  <2>1. bill[s] \in Bills /\ Schedule[r] \in Seq(Nat) /\ Schedule[r] # <<>>
    BY FeeAssumption DEF FeeInv, FeeTypeOK
  <2>2. 1 \in DOMAIN Schedule[r] /\ DOMAIN Schedule[r] \subseteq Nat \ {0}
    BY <2>1
  <2> QED
    BY <1>1, <2>1, <2>2, InvoicesAddUp
<1>6. b \in BilledType /\ b.run = r /\ SumSeq(b.invoices) = b.net
  BY <1>2, <1>5 DEF BilledType
<1>7. notes \subseteq NoteType /\ (\A i \in notes : i.student = s) /\ \E i \in notes : i.run = r /\ i.student = s /\ i.k = 1
  <2>1. \A k \in DOMAIN inv : k \in Nat \ {0} /\ inv[k] \in Int
    BY <1>5
  <2>2. notes \subseteq NoteType
    BY <1>3, <2>1 DEF NoteType
  <2>3. \E i \in notes : i.run = r /\ i.student = s /\ i.k = 1
    <3>1. 1 \in DOMAIN inv
      BY <1>5
    <3>2. [run |-> r, student |-> s, k |-> 1, amount |-> inv[1]] \in notes
      BY <1>3, <3>1
    <3> QED
      BY <3>2
  <2> QED
    BY <1>3, <2>2, <2>3
<1>8. PICK n : n = Len(account[s])
  OBVIOUS
<1>9. /\ account \in [Students -> Seq(BilledType)] /\ account[s] \in Seq(BilledType) /\ n \in Nat /\ DOMAIN account[s] = 1 .. n
      /\ \A m \in 1 .. n : account[s][m] \in BilledType /\ account[s][m].run \in FeeRuns
  BY <1>8, BillsTyped DEF FeeInv, FeeTypeOK
<1>10. /\ account' \in [Students -> Seq(BilledType)] /\ DOMAIN account'[s] = 1 .. n + 1 /\ account'[s][n + 1] = b
       /\ \A m \in 1 .. n : account'[s][m] = account[s][m]
       /\ \A t \in Students : t # s => account'[t] = account[t]
  <2>1. PICK q : q = Append(account[s], b)
    OBVIOUS
  <2>2. q \in Seq(BilledType) /\ DOMAIN q = 1 .. n + 1 /\ q[n + 1] = b /\ \A m \in 1 .. n : q[m] = account[s][m]
    BY <1>6, <1>8, <1>9, <2>1
  <2>3. account' = [account EXCEPT ![s] = q]
    BY <1>4, <2>1
  <2> QED
    BY <1>9, <2>2, <2>3
<1>11. \A t \in Students : account[t] # <<>> => account'[t] # <<>>
  <2>1. account'[s] # <<>>
    BY <1>9, <1>10
  <2> QED
    BY <1>10, <2>1
<1>12. account'[s] # <<>>
  BY <1>9, <1>10
<1>13. Status(r) \in {"Open", "Posted"} /\ Status(r)' = Status(r) /\ \A q \in FeeRuns : Status(q)' = Status(q)
  BY <1>4 DEF BillsStudent, Status
<1>14. \A m \in 1 .. n : Status(account[s][m].run) = "deleted"
  <2> SUFFICES ASSUME NEW m \in 1 .. n, Status(account[s][m].run) # "deleted" PROVE FALSE
    OBVIOUS
  <2>1. BillSound(s, m)
    BY <1>9 DEF FeeInv
  <2>2. PICK i \in feeInvoices : i.student = s /\ i.k = 1
    BY <2>1 DEF BillSound
  <2> QED
    BY <1>5, <2>2 DEF BillsStudent, Clash
<1>15. ASSUME NEW t \in Students, NEW m \in DOMAIN account'[t] PROVE BillSound(t, m)'
  <2>1. CASE t = s /\ m = n + 1
    <3>1. account'[t][m] = b
      BY <1>10, <2>1
    <3>2. \E i \in feeInvoices' : i.run = r /\ i.student = s /\ i.k = 1
      BY <1>4, <1>7
    <3> QED
      BY <1>6, <1>13, <2>1, <3>1, <3>2 DEF BillSound
  <2>2. CASE ~ (t = s /\ m = n + 1)
    <3>1. m \in DOMAIN account[t] /\ account'[t][m] = account[t][m] /\ account[t][m].run \in FeeRuns
      <4>1. CASE t = s
        BY <1>9, <1>10, <2>2, <4>1
      <4>2. CASE t # s
        BY <1>10, <4>2, BillsTyped DEF FeeInv
      <4> QED
        BY <4>1, <4>2
    <3>2. BillSound(t, m)
      BY <3>1 DEF FeeInv
    <3>3. feeInvoices \subseteq feeInvoices'
      BY <1>4
    <3> QED
      BY <1>13, <3>1, <3>2, <3>3 DEF BillSound
  <2> QED
    BY <2>1, <2>2
<1>16. BilledAgainOnlyAfterDelete'
  <2> SUFFICES ASSUME NEW t \in Students, NEW l \in DOMAIN account'[t], NEW m \in DOMAIN account'[t], l < m
               PROVE  runs'[account'[t][l].run].status = "deleted"
    BY DEF BilledAgainOnlyAfterDelete
  <2>1. CASE t = s
    <3>1. l \in 1 .. n /\ account'[s][l] = account[s][l]
      BY <1>9, <1>10, <2>1
    <3> QED
      BY <1>4, <1>14, <2>1, <3>1 DEF Status
  <2>2. CASE t # s
    BY <1>4, <1>10, <2>2 DEF FeeInv, BilledAgainOnlyAfterDelete
  <2> QED
    BY <2>1, <2>2
<1>17. \A i \in feeInvoices' : account'[i.student] # <<>>
  <2>1. \A i \in feeInvoices : account[i.student] # <<>> /\ i.student \in Students
    BY DEF FeeInv, FeeTypeOK, NoteType
  <2> QED
    BY <1>4, <1>7, <1>11, <1>12, <2>1
<1>18. PICK x : x = [clerk[c] EXCEPT !.todo = @ \ {s}, !.posted = @ + 1, !.total = @ + clerk[c].amount[s]]
  OBVIOUS
<1>19. clerk \in [Clerks -> ClerkType] /\ clerk[c] \in ClerkType /\ clerk[c].at = "bill" /\ s \in clerk[c].todo
  BY DEF FeeInv, FeeTypeOK, BillStudent
<1>20. clerk' = [clerk EXCEPT ![c] = x]
  BY <1>18, <1>19 DEF BillStudent
<1>21. /\ x \in ClerkType /\ x.at = "bill" /\ x.lines = clerk[c].lines /\ x.due = clerk[c].due
       /\ x.todo = clerk[c].todo \ {s} /\ x.posted = clerk[c].posted + 1 /\ clerk[c].posted \in Nat
  <2>1. PICK y : y = clerk[c].amount[s]
    OBVIOUS
  <2>2. y \in Int
    BY <1>19, <2>1 DEF ClerkType
  <2>3. x = [clerk[c] EXCEPT !.todo = @ \ {s}, !.posted = @ + 1, !.total = @ + y]
    BY <1>18, <2>1
  <2>4. PICK z : z = clerk[c]
    OBVIOUS
  <2>5. /\ z \in ClerkType /\ z.at = "bill" /\ z.todo \in SUBSET Students
        /\ z.posted \in Nat /\ z.total \in Int /\ z.total + y \in Int
    BY <1>19, <2>2, <2>4 DEF ClerkType
  <2>6. PICK todo, posted, total : todo = z.todo \ {s} /\ posted = z.posted + 1 /\ total = z.total + y
    OBVIOUS
  <2>7. todo \in SUBSET Students /\ posted \in Nat /\ total \in Int
    BY <2>5, <2>6
  <2>8. x = [z EXCEPT !.todo = todo, !.posted = posted, !.total = total]
    BY <2>3, <2>4, <2>6
  <2>9. /\ x \in ClerkType /\ x.at = "bill" /\ x.lines = z.lines /\ x.due = z.due
        /\ x.todo = todo /\ x.posted = posted
    BY <2>5, <2>7, <2>8 DEF ClerkType
  <2> QED
    BY <2>4, <2>5, <2>6, <2>9
<1>22. clerk' \in [Clerks -> ClerkType] /\ clerk'[c] = x /\ \A d \in Clerks : d # c => clerk'[d] = clerk[d]
  BY <1>19, <1>20, <1>21
<1>23. clerk[c].lines \subseteq Students /\ IsFiniteSet(clerk[c].lines)
  BY <1>19, FeeAssumption, FS_Subset DEF ClerkType
<1>24. CountsRight(c)'
  <2>1. PICK due \in SUBSET clerk[c].lines : \E done \in SUBSET due :
          /\ Cardinality(due) = clerk[c].due /\ Cardinality(done) = clerk[c].posted
          /\ done \cap clerk[c].todo = {} /\ clerk[c].todo \subseteq due
          /\ \A t \in clerk[c].lines \ due : account[t] # <<>>
          /\ \A t \in done : account[t] # <<>>
    BY <1>19 DEF FeeInv, CountsRight
  <2>2. PICK done \in SUBSET due :
          /\ Cardinality(due) = clerk[c].due /\ Cardinality(done) = clerk[c].posted
          /\ done \cap clerk[c].todo = {} /\ clerk[c].todo \subseteq due
          /\ \A t \in clerk[c].lines \ due : account[t] # <<>>
          /\ \A t \in done : account[t] # <<>>
    BY <2>1
  <2>3. IsFiniteSet(done) /\ s \notin done
    <3>1. IsFiniteSet(due)
      BY <1>23, FS_Subset
    <3> QED
      BY <1>19, <2>2, <3>1, FS_Subset
  <2>4. Cardinality(done \cup {s}) = Cardinality(done) + 1
    BY <2>3, FS_AddElement
  <2>5. /\ done \cup {s} \in SUBSET due /\ Cardinality(due) = x.due /\ Cardinality(done \cup {s}) = x.posted
        /\ (done \cup {s}) \cap x.todo = {} /\ x.todo \subseteq due
        /\ \A t \in x.lines \ due : account'[t] # <<>>
        /\ \A t \in done \cup {s} : account'[t] # <<>>
    <3>1. done \cup {s} \in SUBSET due
      BY <1>19, <2>2
    <3>2. Cardinality(due) = x.due /\ Cardinality(done \cup {s}) = x.posted
      BY <1>21, <2>2, <2>4
    <3>3. (done \cup {s}) \cap x.todo = {} /\ x.todo \subseteq due
      BY <1>21, <2>2
    <3>4. \A t \in x.lines \ due : account'[t] # <<>>
      BY <1>11, <1>21, <1>23, <2>2
    <3>5. \A t \in done \cup {s} : account'[t] # <<>>
      BY <1>11, <1>12, <1>23, <2>2
    <3> QED
      BY <3>1, <3>2, <3>3, <3>4, <3>5
  <2>6. \E e \in SUBSET x.lines : \E f \in SUBSET e :
          /\ Cardinality(e) = x.due /\ Cardinality(f) = x.posted
          /\ f \cap x.todo = {} /\ x.todo \subseteq e
          /\ \A t \in x.lines \ e : account'[t] # <<>>
          /\ \A t \in f : account'[t] # <<>>
    BY <1>21, <2>5
  <2> QED
    BY <1>22, <2>6 DEF CountsRight
<1>25. ASSUME NEW d \in Clerks PROVE CountsRight(d)'
  <2>1. CASE d # c
    <3>1. clerk'[d] = clerk[d] /\ clerk[d].lines \subseteq Students
      BY <1>19, <1>22, <2>1 DEF ClerkType
    <3> QED
      BY <1>11, <3>1, CountsStand DEF FeeInv
  <2> QED
    BY <1>24, <2>1
<1>26. FeeTypeOK'
  BY <1>4, <1>7, <1>10, <1>22 DEF FeeInv, FeeTypeOK
<1> QED
  BY <1>15, <1>16, <1>17, <1>25, <1>26 DEF FeeInv

\* A student the transaction leaves alone is only taken off the request's list.
LEMMA SkipBillStep ==
    ASSUME FeeInv, NEW c \in Clerks, NEW r \in FeeRuns, NEW s \in Students, BillStudent(c, r, s), ~ BillsStudent(s, r)
    PROVE  FeeInv'
<1>1. PICK x : x = [clerk[c] EXCEPT !.todo = @ \ {s}]
  OBVIOUS
<1>2. clerk \in [Clerks -> ClerkType] /\ clerk[c] \in ClerkType /\ clerk[c].at = "bill"
  BY DEF FeeInv, FeeTypeOK, BillStudent
<1>3. clerk' = [clerk EXCEPT ![c] = x] /\ clerk'[c] = x /\ UNCHANGED <<runs, feeInvoices, account, bill, ready, edits, clerkCrashes>>
  BY <1>1, <1>2 DEF BillStudent
<1>4. /\ x \in ClerkType /\ x.at = "bill" /\ x.lines = clerk[c].lines /\ x.due = clerk[c].due
      /\ x.todo = clerk[c].todo \ {s} /\ x.posted = clerk[c].posted
  BY <1>1, <1>2 DEF ClerkType
<1>5. CountsRight(c)'
  <2>1. PICK due \in SUBSET clerk[c].lines : \E done \in SUBSET due :
          /\ Cardinality(due) = clerk[c].due /\ Cardinality(done) = clerk[c].posted
          /\ done \cap clerk[c].todo = {} /\ clerk[c].todo \subseteq due
          /\ \A t \in clerk[c].lines \ due : account[t] # <<>>
          /\ \A t \in done : account[t] # <<>>
    BY <1>2 DEF FeeInv, CountsRight
  <2>2. PICK done \in SUBSET due :
          /\ Cardinality(due) = clerk[c].due /\ Cardinality(done) = clerk[c].posted
          /\ done \cap clerk[c].todo = {} /\ clerk[c].todo \subseteq due
          /\ \A t \in clerk[c].lines \ due : account[t] # <<>>
          /\ \A t \in done : account[t] # <<>>
    BY <2>1
  <2>3. /\ due \in SUBSET x.lines /\ Cardinality(due) = x.due /\ Cardinality(done) = x.posted
        /\ done \cap x.todo = {} /\ x.todo \subseteq due
        /\ \A t \in x.lines \ due : account'[t] # <<>>
        /\ \A t \in done : account'[t] # <<>>
    BY <1>3, <1>4, <2>1, <2>2
  <2>4. \E e \in SUBSET x.lines : \E f \in SUBSET e :
          /\ Cardinality(e) = x.due /\ Cardinality(f) = x.posted
          /\ f \cap x.todo = {} /\ x.todo \subseteq e
          /\ \A t \in x.lines \ e : account'[t] # <<>>
          /\ \A t \in f : account'[t] # <<>>
    BY <2>3
  <2> QED
    BY <1>3, <2>4 DEF CountsRight
<1>6. bill' \in [Students -> Bills] /\ ready' \in [Students -> BOOLEAN] /\ edits' \in 0 .. MaxEdits /\ clerkCrashes' \in 0 .. MaxClerkCrashes
  BY <1>3 DEF FeeInv, FeeTypeOK
<1> QED
  BY <1>3, <1>4, <1>5, <1>6, RequestMoves

LEMMA FeeStepInv == FeeInv /\ [FeeNext]_feeVars => FeeInv'
<1> SUFFICES ASSUME FeeInv, [FeeNext]_feeVars PROVE FeeInv'
  OBVIOUS
<1>1. CASE UNCHANGED feeVars
  <2>1. UNCHANGED <<runs, feeInvoices, account, bill, ready, clerk, edits, clerkCrashes>>
    BY <1>1 DEF feeVars
  <2>2. FeeTypeOK' /\ \A q \in FeeRuns : Status(q)' = Status(q)
    BY <2>1 DEF FeeInv, FeeTypeOK, Status
  <2>3. \A c \in Clerks : CountsRight(c)'
    BY <2>1, CountsStand DEF FeeInv
  <2> QED
    BY <2>1, <2>2, <2>3, NobodyBilled
<1>2. ASSUME NEW c \in Clerks, NEW r \in FeeRuns, NEW s \in Students, BillStudent(c, r, s) PROVE FeeInv'
  BY <1>2, BillStep, SkipBillStep
<1>3. CASE FeeNext
  BY <1>2, <1>3, CreateRunStep, ReadRunStep, PreviewStep, FinishRunStep, DeleteRunStep, AccountStep, ClerkCrashStep DEF FeeNext
<1> QED
  BY <1>1, <1>3

LEMMA FeeInvAlways == FeeSpec => []FeeInv
BY FeeInitInv, FeeStepInv, PTL DEF FeeSpec

\* postFeeInvoiceRun (lib/fees/invoices.ts): whatever runs overlap, are posted again or die
\* half way and whatever bills change meanwhile, a student is billed for the term again only
\* when the run of the bill before was deleted, and the instalments of every bill come to
\* its net though each line and the discount are rounded per instalment.
THEOREM FeesSoundAlways == FeeSpec => []FeesSound
<1>1. FeeInv => FeesSound
  BY DEF FeeInv, FeesSound, InstalmentsAddUp, BillSound
<1> QED
  BY <1>1, FeeInvAlways, PTL

\* A run becomes Posted only when everybody its last preview listed has been billed, by it
\* or by another run (postFeeInvoiceRun compares what it billed with what it was to bill).
THEOREM PostedMeansBilledAlways == FeeSpec => PostedMeansBilled
<1> DEFINE Shown == \A r \in FeeRuns : runs[r].status # "Posted" /\ runs'[r].status = "Posted" =>
                        \E c \in Clerks : OnRun(c, r) /\ \A s \in clerk[c].lines : account'[s] # <<>>
<1>1. FeeInv /\ [FeeNext]_feeVars => [Shown]_feeVars
  <2> SUFFICES ASSUME FeeInv, [FeeNext]_feeVars, NEW r \in FeeRuns, runs[r].status # "Posted", runs'[r].status = "Posted"
               PROVE  \E c \in Clerks : OnRun(c, r) /\ \A s \in clerk[c].lines : account'[s] # <<>>
    OBVIOUS
  <2>1. runs \in [FeeRuns -> FeeRunType] /\ runs' # runs
    BY DEF FeeInv, FeeTypeOK
  <2>2. PICK c \in Clerks, q \in FeeRuns : FinishRun(c, q)
    <3>1. ASSUME NEW q \in FeeRuns, CreateRun(q) PROVE FALSE
      BY <2>1, <3>1 DEF CreateRun
    <3>2. ASSUME NEW c \in Clerks, NEW q \in FeeRuns, DeleteRun(c, q) PROVE FALSE
      BY <2>1, <3>2 DEF DeleteRun
    <3>3. /\ runs' = runs => FALSE
          /\ UNCHANGED feeVars => runs' = runs
          /\ \A c, q : PostRead(c, q) \/ PreviewRun(c, q) \/ DeleteRead(c, q) => runs' = runs
          /\ \A c, q, s : BillStudent(c, q, s) => runs' = runs
          /\ \A s : Mend(s) \/ ChangeBill(s) => runs' = runs
          /\ \A c : ClerkCrash(c) => runs' = runs
      BY <2>1, Zenon DEF feeVars, PostRead, PreviewRun, DeleteRead, BillStudent, Mend, ChangeBill, ClerkCrash
    <3> QED
      BY <3>1, <3>2, <3>3 DEF FeeNext
  <2>3. q = r /\ StatusAfter(c) = "Posted"
    BY <2>1, <2>2 DEF FinishRun
  <2>4. /\ clerk[c].at = "bill" /\ clerk[c].todo = {} /\ ~ (clerk[c].due > clerk[c].posted) /\ account' = account /\ OnRun(c, r)
    BY <2>2, <2>3 DEF FinishRun, StatusAfter
  <2>5. clerk[c] \in ClerkType
    BY DEF FeeInv, FeeTypeOK
  <2>6. PICK due \in SUBSET clerk[c].lines : \E done \in SUBSET due :
          /\ Cardinality(due) = clerk[c].due /\ Cardinality(done) = clerk[c].posted
          /\ \A t \in clerk[c].lines \ due : account[t] # <<>>
          /\ \A t \in done : account[t] # <<>>
    BY <2>4 DEF FeeInv, CountsRight
  <2>7. PICK done \in SUBSET due :
          /\ Cardinality(due) = clerk[c].due /\ Cardinality(done) = clerk[c].posted
          /\ \A t \in clerk[c].lines \ due : account[t] # <<>>
          /\ \A t \in done : account[t] # <<>>
    BY <2>6
  <2>8. done = due
    <3>1. IsFiniteSet(due)
      BY <2>5, FeeAssumption, FS_Subset DEF ClerkType
    <3>2. Cardinality(done) <= Cardinality(due)
      BY <3>1, FS_Subset
    <3>3. clerk[c].due \in Nat /\ clerk[c].posted \in Nat
      BY <2>5 DEF ClerkType
    <3>4. Cardinality(done) = Cardinality(due)
      BY <2>4, <2>7, <3>2, <3>3
    <3> QED
      BY <3>1, <3>4, FS_Subset
  <2> QED
    BY <2>4, <2>7, <2>8
<1> QED
  BY <1>1, FeeInvAlways, PTL DEF FeeSpec, PostedMeansBilled

-----------------------------------------------------------------------------
(* Leave: days granted, taken and given back.                               *)

LeaveTaken == DaysOf(apps, Approved(apps)) - DaysOf(recalls, Approved(recalls))
\* The recalls of an application that are not deleted.
Standing(n) == {r \in DOMAIN recalls : recalls[r].app = n /\ recalls[r].status # "Deleted"}

RecallsFit == \A n \in DOMAIN apps : DaysOf(recalls, Standing(n)) <= apps[n].days
OneCurrent == \E c \in DOMAIN balance : current = {c}

\* What is left in the current calendar was granted and not taken, is what a closing that
\* read it carries on, and is enough for the one application that waits.
LeaveKept ==
    /\ \A c \in current :
          /\ balance[c] >= 0 /\ LeaveTaken + balance[c] <= granted
          /\ \A k \in LeaveDesks : leaveDesk[k].op = "carry" /\ leaveDesk[k].cal = c
                                      => leaveDesk[k].days = balance[c]
    /\ \A n, m \in Unposted : n = m
    /\ \A n \in Unposted : apps[n].cal \in current => apps[n].days <= balance[apps[n].cal]

LeaveInv ==
    /\ LeaveTypeOK
    /\ "recalls" \notin leaveMarks => RecallsFit
    /\ "twice" \notin leaveMarks => OneCurrent
    /\ leaveMarks = {} => LeaveKept

LEMMA LeaveInitInv == LeaveInit => LeaveInv
<1> SUFFICES ASSUME LeaveInit PROVE LeaveInv
  OBVIOUS
<1>1. balance = <<Standard>> /\ DOMAIN balance = {1} /\ balance[1] = Standard /\ Standard \in Nat
  BY LeaveAssumption DEF LeaveInit
<1>2. Away \in DeskType /\ Away.op = "idle"
  BY DEF Away, DeskType
<1>3. LeaveTypeOK
  BY <1>1, <1>2 DEF LeaveInit, LeaveTypeOK
<1>4. Approved(apps) = {} /\ Approved(recalls) = {} /\ Unposted = {}
  BY DEF LeaveInit, Approved, Unposted
<1>5. DaysOf(apps, {}) = 0 /\ DaysOf(recalls, {}) = 0
  BY SumOfNothing DEF DaysOf, SumOver
<1>6. LeaveTaken = 0 /\ granted = Standard /\ current = {1}
  <2>1. LeaveTaken = 0
    BY <1>4, <1>5 DEF LeaveTaken
  <2> QED
    BY <2>1 DEF LeaveInit
<1>7. \A k \in LeaveDesks : leaveDesk[k].op = "idle"
  BY <1>2 DEF LeaveInit
<1>8. LeaveKept
  BY <1>1, <1>4, <1>6, <1>7 DEF LeaveKept
<1> QED
  BY <1>1, <1>3, <1>8 DEF LeaveInit, LeaveInv, RecallsFit, OneCurrent

\* Days are added up row by row.
LEMMA DaysKept ==
    ASSUME NEW p, NEW q, NEW S, IsFiniteSet(S), S \subseteq DOMAIN p, S \subseteq DOMAIN q,
           \A i \in S : p[i].days \in Int /\ q[i].days = p[i].days
    PROVE  DaysOf(q, S) = DaysOf(p, S) /\ DaysOf(p, S) \in Int
<1> DEFINE f == [i \in DOMAIN p |-> p[i].days]
           g == [i \in DOMAIN q |-> q[i].days]
<1>1. \A i \in S : f[i] = g[i] /\ f[i] \in Int
  OBVIOUS
<1>2. SumOver(f, S) = SumOver(g, S) /\ SumOver(f, S) \in Int
  <2> HIDE DEF f, g
  <2> QED
    BY <1>1, SumSame, SumIsInt
<1> QED
  BY <1>2 DEF DaysOf, SumOver

LEMMA DaysMore ==
    ASSUME NEW p, NEW S, IsFiniteSet(S), S \subseteq DOMAIN p, NEW x \in DOMAIN p, x \notin S,
           \A i \in S \cup {x} : p[i].days \in Int
    PROVE  DaysOf(p, S \cup {x}) = DaysOf(p, S) + p[x].days
<1> DEFINE f == [i \in DOMAIN p |-> p[i].days]
<1>1. \A i \in S \cup {x} : f[i] = p[i].days /\ f[i] \in Int
  OBVIOUS
<1>2. SumOver(f, S \cup {x}) = SumOver(f, S) + f[x]
  <2> HIDE DEF f
  <2> QED
    BY <1>1, SumWith
<1> QED
  BY <1>1, <1>2 DEF DaysOf, SumOver

LEMMA DaysFewer ==
    ASSUME NEW p, NEW S, NEW T, IsFiniteSet(T), S \subseteq T, T \subseteq DOMAIN p,
           \A i \in T : p[i].days \in Nat
    PROVE  DaysOf(p, S) <= DaysOf(p, T)
<1> DEFINE f == [i \in DOMAIN p |-> p[i].days]
           z == [i \in DOMAIN p |-> 0]
<1>1. \A i \in T : f[i] \in Int /\ z[i] = 0 /\ z[i] <= f[i]
  OBVIOUS
<1>2. IsFiniteSet(S) /\ IsFiniteSet(T \ S) /\ S \cup (T \ S) = T /\ S \cap (T \ S) = {}
  BY FS_Subset
<1> HIDE DEF f, z
<1>3. SumOver(f, T) = SumOver(f, S) + SumOver(f, T \ S)
  BY <1>1, <1>2, SumOfUnion
<1>4. SumOver(z, T \ S) = 0 /\ SumOver(z, T \ S) <= SumOver(f, T \ S)
  BY <1>1, <1>2, SumOfZeros, SumAtMost
<1>5. SumOver(f, S) \in Int /\ SumOver(f, T \ S) \in Int
  BY <1>1, <1>2, SumIsInt
<1>6. SumOver(f, S) <= SumOver(f, T)
  BY <1>3, <1>4, <1>5
<1> QED
  BY <1>6 DEF DaysOf, SumOver, f

\* Any of the rows, applications or recalls.
LEMMA RowsFinite ==
    ASSUME LeaveTypeOK
    PROVE  /\ \A S \in SUBSET DOMAIN apps : IsFiniteSet(S) /\ DaysOf(apps, S) \in Int
           /\ \A S \in SUBSET DOMAIN recalls : IsFiniteSet(S) /\ DaysOf(recalls, S) \in Int
           /\ \A n \in DOMAIN apps : apps[n] \in AppType /\ apps[n].days \in Nat
           /\ \A r \in DOMAIN recalls : recalls[r] \in RecallType /\ recalls[r].days \in Nat
<1>1. /\ DOMAIN apps = 1 .. Len(apps) /\ Len(apps) \in Nat
      /\ DOMAIN recalls = 1 .. Len(recalls) /\ Len(recalls) \in Nat
      /\ \A n \in DOMAIN apps : apps[n] \in AppType
      /\ \A r \in DOMAIN recalls : recalls[r] \in RecallType
  BY DEF LeaveTypeOK
<1>2. /\ \A n \in DOMAIN apps : apps[n].days \in Nat
      /\ \A r \in DOMAIN recalls : recalls[r].days \in Nat
  BY <1>1 DEF AppType, RecallType
<1>3. IsFiniteSet(DOMAIN apps) /\ IsFiniteSet(DOMAIN recalls)
  BY <1>1, FS_Interval
<1>4. ASSUME NEW S \in SUBSET DOMAIN apps PROVE IsFiniteSet(S) /\ DaysOf(apps, S) \in Int
  <2>1. IsFiniteSet(S)
    BY <1>3, FS_Subset
  <2> QED
    BY <1>2, <2>1, DaysKept
<1>5. ASSUME NEW S \in SUBSET DOMAIN recalls PROVE IsFiniteSet(S) /\ DaysOf(recalls, S) \in Int
  <2>1. IsFiniteSet(S)
    BY <1>3, FS_Subset
  <2> QED
    BY <1>2, <2>1, DaysKept
<1> QED
  BY <1>1, <1>2, <1>4, <1>5

\* A request reads something.
LEMMA LeaveDeskStep ==
    ASSUME LeaveInv, NEW k \in LeaveDesks, NEW d \in DeskType,
           d.op # "idle" => d.cal \in DOMAIN balance, d.op = "apply" => d.days \in Nat,
           d.op = "carry" => d.days = balance[d.cal],
           leaveDesk' = [leaveDesk EXCEPT ![k] = d],
           UNCHANGED <<balance, current, apps, recalls, granted, leaveMarks>>
    PROVE  LeaveInv'
<1>1. leaveDesk \in [LeaveDesks -> DeskType]
  BY DEF LeaveInv, LeaveTypeOK
<1>2. leaveDesk' \in [LeaveDesks -> DeskType] /\ leaveDesk'[k] = d
      /\ \A j \in LeaveDesks : j # k => leaveDesk'[j] = leaveDesk[j]
  BY <1>1
<1>3. LeaveTypeOK'
  BY <1>2 DEF LeaveInv, LeaveTypeOK
<1>4. /\ LeaveTaken' = LeaveTaken /\ Unposted' = Unposted /\ RecallsFit' = RecallsFit
      /\ OneCurrent' = OneCurrent
  BY DEF LeaveTaken, Unposted, RecallsFit, OneCurrent, Standing, DaysOf, Approved
<1>5. LeaveKept => LeaveKept'
  BY <1>2, <1>4 DEF LeaveKept
<1> QED
  BY <1>3, <1>4, <1>5 DEF LeaveInv

LEMMA LeaveReads ==
    ASSUME LeaveInv, NEW k \in LeaveDesks,
           \/ \E days \in DaysApplied : AskLeave(k, days)
           \/ \E op \in {"accrue", "close"} : ReadCalendar(k, op)
           \/ ReadBalance(k)
    PROVE  LeaveInv'
<1>0. LeaveTypeOK /\ leaveDesk \in [LeaveDesks -> DeskType] /\ leaveDesk[k] \in DeskType
  BY DEF LeaveInv, LeaveTypeOK
<1>1. CASE \E days \in DaysApplied : AskLeave(k, days)
  <2>1. PICK days \in DaysApplied, c \in current :
          /\ leaveDesk' = [leaveDesk EXCEPT ![k] = [op |-> "apply", cal |-> c, days |-> days]]
          /\ UNCHANGED <<balance, current, apps, recalls, granted, leaveMarks>>
    BY <1>1 DEF AskLeave
  <2>2. c \in DOMAIN balance /\ c \in Nat /\ days \in Nat
    BY <1>0, LeaveAssumption DEF LeaveTypeOK
  <2>3. PICK d : d = [op |-> "apply", cal |-> c, days |-> days]
    OBVIOUS
  <2>4. d \in DeskType /\ d.cal = c /\ d.op = "apply" /\ d.days = days
    BY <2>2, <2>3 DEF DeskType
  <2> QED
    BY <2>1, <2>2, <2>3, <2>4, LeaveDeskStep
<1>2. CASE \E op \in {"accrue", "close"} : ReadCalendar(k, op)
  <2>1. PICK op \in {"accrue", "close"}, c \in current :
          /\ leaveDesk' = [leaveDesk EXCEPT ![k] = [op |-> op, cal |-> c, days |-> 0]]
          /\ UNCHANGED <<balance, current, apps, recalls, granted, leaveMarks>>
    BY <1>2 DEF ReadCalendar
  <2>2. c \in DOMAIN balance /\ c \in Nat
    BY <1>0 DEF LeaveTypeOK
  <2>3. PICK d : d = [op |-> op, cal |-> c, days |-> 0]
    OBVIOUS
  <2>4. d \in DeskType /\ d.cal = c /\ d.op = op
    BY <2>2, <2>3 DEF DeskType
  <2> QED
    BY <2>1, <2>2, <2>3, <2>4, LeaveDeskStep
<1>3. CASE ReadBalance(k)
  <2>1. PICK c, b : c = leaveDesk[k].cal /\ b = balance[c]
    OBVIOUS
  <2>2. PICK d : d = [op |-> "carry", cal |-> c, days |-> b]
    OBVIOUS
  <2>3. leaveDesk[k].op = "close" /\ c \in DOMAIN balance /\ c \in Nat /\ b \in Int
    BY <1>0, <1>3, <2>1 DEF ReadBalance, LeaveTypeOK
  <2>4. leaveDesk' = [leaveDesk EXCEPT ![k] = d]
    BY <1>0, <1>3, <2>1, <2>2 DEF ReadBalance
  <2>5. d \in DeskType /\ d.cal = c /\ d.op = "carry" /\ d.days = balance[c]
    BY <2>1, <2>2, <2>3 DEF DeskType
  <2>6. UNCHANGED <<balance, current, apps, recalls, granted, leaveMarks>>
    BY <1>3 DEF ReadBalance
  <2> QED
    BY <2>3, <2>4, <2>5, <2>6, LeaveDeskStep
<1> QED
  BY <1>1, <1>2, <1>3

\* An application or a recall changes its status and nothing else.
LEMMA StatusSet ==
    ASSUME NEW T, NEW q, NEW q1, NEW n \in DOMAIN q, NEW st \in LeaveStatuses,
           \/ T = AppType \/ T = RecallType,
           q \in Seq(T), q1 = [q EXCEPT ![n].status = st]
    PROVE  /\ q1 \in Seq(T) /\ DOMAIN q1 = DOMAIN q
           /\ T = AppType => \A m \in DOMAIN q : q1[m].cal = q[m].cal
           /\ T = RecallType => \A m \in DOMAIN q : q1[m].app = q[m].app
           /\ \A m \in DOMAIN q : q1[m].days = q[m].days
           /\ q1[n].status = st /\ \A m \in DOMAIN q : m # n => q1[m].status = q[m].status
<1>1. q[n] \in T
  OBVIOUS
<1>2. PICK x : x = [q[n] EXCEPT !.status = st]
  OBVIOUS
<1>3. /\ x \in T /\ x.status = st /\ x.days = q[n].days
      /\ T = AppType => x.cal = q[n].cal
      /\ T = RecallType => x.app = q[n].app
  <2>1. CASE T = AppType /\ T # RecallType
    BY <1>1, <1>2, <2>1 DEF AppType
  <2>2. CASE T = RecallType /\ T # AppType
    BY <1>1, <1>2, <2>2 DEF RecallType
  <2>3. CASE T = AppType /\ T = RecallType
    <3>1. q[n] \in AppType /\ q[n] \in RecallType
      BY <1>1, <2>3
    <3> QED
      BY <1>1, <1>2, <2>3, <3>1 DEF AppType, RecallType
  <2> QED
    BY <2>1, <2>2, <2>3
<1>4. q1 = [q EXCEPT ![n] = x]
  BY <1>2
<1>5. q1 \in Seq(T) /\ DOMAIN q1 = DOMAIN q /\ q1[n] = x /\ \A m \in DOMAIN q : m # n => q1[m] = q[m]
  BY <1>3, <1>4
<1> QED
  BY <1>3, <1>5

\* The marks stay.
LEMMA FewerMarks ==
    ASSUME LeaveTypeOK, leaveMarks \subseteq leaveMarks'
    PROVE  /\ "recalls" \notin leaveMarks' => "recalls" \notin leaveMarks
           /\ "twice" \notin leaveMarks' => "twice" \notin leaveMarks
           /\ leaveMarks' = {} => leaveMarks = {}
OBVIOUS

LEMMA CreateAppStep ==
    ASSUME LeaveInv, NEW k \in LeaveDesks, CreateApp(k)
    PROVE  LeaveInv'
<1>1. PICK c, days, x : /\ c = leaveDesk[k].cal /\ days = leaveDesk[k].days
                        /\ x = [cal |-> c, days |-> days, status |-> "Open"]
  OBVIOUS
<1>2. /\ LeaveTypeOK /\ leaveDesk \in [LeaveDesks -> DeskType] /\ apps \in Seq(AppType)
      /\ leaveDesk[k].op = "apply" /\ c \in DOMAIN balance /\ c \in Nat /\ days \in Nat
  BY <1>1 DEF LeaveInv, LeaveTypeOK, CreateApp
<1>3. /\ apps' = Append(apps, x)
      /\ leaveMarks' = leaveMarks \cup (IF Unposted # {} \/ days > balance[c] THEN {"both"} ELSE {})
      /\ leaveDesk' = [leaveDesk EXCEPT ![k] = Away]
      /\ UNCHANGED <<balance, current, recalls, granted>>
  BY <1>1 DEF CreateApp
<1>4. PICK m : m = Len(apps) + 1
  OBVIOUS
<1>5. x \in AppType /\ x.cal = c /\ x.days = days /\ x.status = "Open"
  BY <1>1, <1>2 DEF AppType, LeaveStatuses
<1>6. /\ apps' \in Seq(AppType) /\ DOMAIN apps' = DOMAIN apps \cup {m} /\ m \notin DOMAIN apps
      /\ apps'[m] = x /\ \A n \in DOMAIN apps : apps'[n] = apps[n]
  BY <1>2, <1>3, <1>4, <1>5
<1>7. Away \in DeskType /\ Away.op = "idle"
  BY DEF Away, DeskType
<1>8. leaveDesk' \in [LeaveDesks -> DeskType] /\ leaveDesk'[k].op = "idle"
      /\ \A j \in LeaveDesks : j # k => leaveDesk'[j] = leaveDesk[j]
  BY <1>2, <1>3, <1>7
<1>9. leaveMarks \subseteq leaveMarks' /\ leaveMarks' \subseteq leaveMarks \cup {"both"}
  BY <1>3
<1>10. LeaveTypeOK'
  BY <1>2, <1>3, <1>5, <1>6, <1>8, <1>9 DEF LeaveTypeOK
<1>11. Approved(apps') = Approved(apps)
  BY <1>5, <1>6 DEF Approved
<1>12. DaysOf(apps', Approved(apps)) = DaysOf(apps, Approved(apps))
  <2>1. Approved(apps) \subseteq DOMAIN apps
    BY DEF Approved
  <2>2. \A n \in Approved(apps) : apps[n].days \in Int /\ apps'[n].days = apps[n].days
    BY <1>2, <1>6, <2>1, RowsFinite
  <2> QED
    BY <1>2, <1>6, <2>1, <2>2, RowsFinite, DaysKept
<1>13. LeaveTaken' = LeaveTaken
  BY <1>3, <1>11, <1>12 DEF LeaveTaken
<1>14. ASSUME "recalls" \notin leaveMarks' PROVE RecallsFit'
  <2>1. "recalls" \notin leaveMarks /\ recalls' = recalls
    BY <1>3, <1>9, <1>14
  <2>2. Standing(m) = {}
    BY <1>2, <1>6 DEF LeaveTypeOK, Standing
  <2>3. ASSUME NEW n \in DOMAIN apps' PROVE DaysOf(recalls, Standing(n)) <= apps'[n].days
    <3>1. CASE n = m
      <4>1. DaysOf(recalls, {}) = 0
        BY SumOfNothing DEF DaysOf, SumOver
      <4>2. apps'[n] = x /\ x.days \in Nat
        BY <1>2, <1>5, <1>6, <3>1
      <4>3. Standing(n) = {}
        BY <2>2, <3>1
      <4> QED
        BY <4>1, <4>2, <4>3
    <3>2. CASE n # m
      BY <1>6, <2>1, <3>2 DEF LeaveInv, RecallsFit
    <3> QED
      BY <3>1, <3>2
  <2> QED
    BY <2>1, <2>3 DEF RecallsFit, Standing
<1>15. ASSUME "twice" \notin leaveMarks' PROVE OneCurrent'
  BY <1>3, <1>9, <1>15 DEF LeaveInv, OneCurrent
<1>16. ASSUME leaveMarks' = {} PROVE LeaveKept'
  <2>1. LeaveKept /\ Unposted = {} /\ ~ (days > balance[c])
    BY <1>3, <1>9, <1>16 DEF LeaveInv
  <2>2. Unposted' = {m}
    BY <1>5, <1>6, <2>1 DEF Unposted
  <2>3. days <= balance[c]
    BY <1>2, <2>1 DEF LeaveTypeOK
  <2> QED
    BY <1>3, <1>5, <1>6, <1>8, <1>13, <2>1, <2>2, <2>3 DEF LeaveKept
<1> QED
  BY <1>10, <1>14, <1>15, <1>16 DEF LeaveInv

\* What neither application nor recall nor calendar touches holds on.
LEMMA MoveAppStep ==
    ASSUME LeaveInv, NEW n \in DOMAIN apps, MoveApp(n)
    PROVE  LeaveInv'
<1>1. PICK st \in LeaveStatuses :
        /\ apps' = [apps EXCEPT ![n].status = st] /\ apps[n].status \in {"Open", "Pending"}
        /\ st \in {"Open", "Pending", "Deleted"}
        /\ UNCHANGED <<balance, current, recalls, granted, leaveDesk, leaveMarks>>
  BY DEF MoveApp, LeaveStatuses
<1>2. LeaveTypeOK /\ apps \in Seq(AppType)
  BY DEF LeaveInv, LeaveTypeOK
<1>3. /\ apps' \in Seq(AppType) /\ DOMAIN apps' = DOMAIN apps
      /\ \A m \in DOMAIN apps : apps'[m].cal = apps[m].cal /\ apps'[m].days = apps[m].days
      /\ apps'[n].status = st /\ \A m \in DOMAIN apps : m # n => apps'[m].status = apps[m].status
  BY <1>1, <1>2, StatusSet
<1>4. LeaveTypeOK'
  BY <1>1, <1>2, <1>3 DEF LeaveTypeOK
<1>5. Approved(apps') = Approved(apps) /\ Unposted' \subseteq Unposted
  BY <1>1, <1>3 DEF Approved, Unposted
<1>6. DaysOf(apps', Approved(apps)) = DaysOf(apps, Approved(apps))
  <2>1. Approved(apps) \subseteq DOMAIN apps
    BY DEF Approved
  <2>2. \A m \in Approved(apps) : apps[m].days \in Int /\ apps'[m].days = apps[m].days
    BY <1>2, <1>3, <2>1, RowsFinite
  <2> QED
    BY <1>2, <1>3, <2>1, <2>2, RowsFinite, DaysKept
<1>7. LeaveTaken' = LeaveTaken
  BY <1>1, <1>5, <1>6 DEF LeaveTaken
<1>8. RecallsFit => RecallsFit'
  BY <1>1, <1>3 DEF RecallsFit, Standing
<1>9. LeaveKept => LeaveKept'
  <2>1. \A m \in Unposted : m \in DOMAIN apps
    BY DEF Unposted
  <2> QED
    BY <1>1, <1>3, <1>5, <1>7, <2>1 DEF LeaveKept
<1> QED
  BY <1>1, <1>4, <1>8, <1>9 DEF LeaveInv, OneCurrent

LEMMA OrZero == \A c, days : days \in Int => (IF c THEN days ELSE 0) \in Int
OBVIOUS

\* An entry in the ledger.
LEMMA EntryMoves ==
    ASSUME LeaveTypeOK, NEW c \in DOMAIN balance, NEW days \in Int,
           balance' = [balance EXCEPT ![c] = @ + days]
    PROVE  /\ balance' \in Seq(Int) /\ DOMAIN balance' = DOMAIN balance
           /\ balance'[c] = balance[c] + days /\ balance[c] \in Int
           /\ \A d \in DOMAIN balance : d # c => balance'[d] = balance[d]
<1>1. balance \in Seq(Int) /\ balance[c] \in Int /\ balance[c] + days \in Int
  BY DEF LeaveTypeOK
<1> QED
  BY <1>1

LEMMA ApproveAppStep ==
    ASSUME LeaveInv, NEW n \in DOMAIN apps, ApproveApp(n)
    PROVE  LeaveInv'
<1>1. PICK c, days, less : c = apps[n].cal /\ days = apps[n].days /\ less = -days
  OBVIOUS
<1>2. /\ LeaveTypeOK /\ apps \in Seq(AppType) /\ c \in DOMAIN balance /\ days \in Nat /\ n \in Unposted
      /\ granted \in Nat
  BY <1>1, RowsFinite DEF LeaveInv, LeaveTypeOK, ApproveApp, Unposted
<1>3. /\ apps[n].status = "Pending" /\ apps' = [apps EXCEPT ![n].status = "Approved"]
      /\ balance' = [balance EXCEPT ![c] = @ + less]
      /\ leaveMarks' = leaveMarks \cup (IF c \notin current \/ Carrying(c) THEN {"late"} ELSE {})
      /\ UNCHANGED <<current, recalls, granted, leaveDesk>>
  BY <1>1 DEF ApproveApp, Entry
<1>4. /\ balance' \in Seq(Int) /\ DOMAIN balance' = DOMAIN balance
      /\ balance'[c] = balance[c] - days /\ balance[c] \in Int
      /\ \A d \in DOMAIN balance : d # c => balance'[d] = balance[d]
  <2>1. less \in Int /\ \A b \in Int : b + less = b - days
    BY <1>1, <1>2
  <2> QED
    BY <1>2, <1>3, <2>1, EntryMoves
<1>5. /\ apps' \in Seq(AppType) /\ DOMAIN apps' = DOMAIN apps
      /\ \A m \in DOMAIN apps : apps'[m].cal = apps[m].cal /\ apps'[m].days = apps[m].days
      /\ apps'[n].status = "Approved" /\ \A m \in DOMAIN apps : m # n => apps'[m].status = apps[m].status
  <2>1. "Approved" \in LeaveStatuses
    BY DEF LeaveStatuses
  <2> QED
    BY <1>2, <1>3, <2>1, StatusSet
<1>6. leaveMarks \subseteq leaveMarks' /\ leaveMarks' \subseteq leaveMarks \cup {"late"}
  BY <1>3
<1>7. LeaveTypeOK'
  BY <1>2, <1>3, <1>4, <1>5, <1>6 DEF LeaveTypeOK
<1>8. /\ Approved(apps') = Approved(apps) \cup {n} /\ n \notin Approved(apps)
      /\ Unposted' = Unposted \ {n} /\ Approved(apps) \subseteq DOMAIN apps
  BY <1>3, <1>5 DEF Approved, Unposted
<1>9. DaysOf(apps', Approved(apps')) = DaysOf(apps, Approved(apps)) + days
  <2>1. Approved(apps') \in SUBSET DOMAIN apps /\ IsFiniteSet(Approved(apps)) /\ IsFiniteSet(Approved(apps'))
    BY <1>2, <1>8, RowsFinite
  <2>2. \A m \in Approved(apps') : apps[m].days \in Int /\ apps'[m].days = apps[m].days
    BY <1>2, <1>5, <2>1, RowsFinite
  <2>3. DaysOf(apps', Approved(apps')) = DaysOf(apps, Approved(apps'))
    BY <1>5, <2>1, <2>2, DaysKept
  <2>4. DaysOf(apps, Approved(apps) \cup {n}) = DaysOf(apps, Approved(apps)) + days
    BY <1>1, <1>8, <2>1, <2>2, DaysMore
  <2> QED
    BY <1>8, <2>3, <2>4
<1>10. LeaveTaken' = LeaveTaken + days /\ LeaveTaken \in Int
  <2>1. DaysOf(apps, Approved(apps)) \in Int /\ DaysOf(recalls, Approved(recalls)) \in Int
    BY <1>2, RowsFinite DEF Approved
  <2>2. DaysOf(recalls, Approved(recalls))' = DaysOf(recalls, Approved(recalls))
    BY <1>3
  <2> QED
    BY <1>2, <1>9, <2>1, <2>2 DEF LeaveTaken
<1>11. RecallsFit => RecallsFit'
  BY <1>3, <1>5 DEF RecallsFit, Standing
<1>12. ASSUME leaveMarks' = {} PROVE LeaveKept'
  <2>1. LeaveKept /\ c \in current /\ ~ Carrying(c)
    BY <1>3, <1>6, <1>12 DEF LeaveInv
  <2>2. days <= balance[c]
    BY <1>1, <1>2, <2>1 DEF LeaveKept
  <2>3. Unposted' = {}
    BY <1>2, <1>8, <2>1 DEF LeaveKept
  <2>4. ASSUME NEW d \in current
        PROVE  /\ balance'[d] >= 0 /\ LeaveTaken' + balance'[d] <= granted
               /\ \A k \in LeaveDesks : leaveDesk[k].op = "carry" /\ leaveDesk[k].cal = d
                                      => leaveDesk[k].days = balance'[d]
    <3>1. d \in DOMAIN balance /\ current = {c}
      BY <1>2, <1>6, <1>12, <2>1 DEF LeaveInv, OneCurrent, LeaveTypeOK
    <3>2. d = c
      BY <3>1
    <3>3. LeaveTaken + balance[c] <= granted /\ balance[c] >= 0
      BY <2>1 DEF LeaveKept
    <3>4. balance'[c] >= 0 /\ LeaveTaken' + balance'[c] <= granted
      <4>1. PICK t, b, g : t = LeaveTaken /\ b = balance[c] /\ g = granted
        OBVIOUS
      <4>2. /\ t \in Int /\ b \in Int /\ g \in Int /\ days \in Int /\ days <= b
            /\ t + b <= g /\ b >= 0 /\ LeaveTaken' = t + days /\ balance'[c] = b - days
        BY <1>2, <1>4, <1>10, <2>2, <3>3, <4>1
      <4> QED
        BY <4>1, <4>2
    <3> QED
      BY <2>1, <3>2, <3>4 DEF Carrying
  <2> QED
    BY <1>3, <2>3, <2>4 DEF LeaveKept
<1> QED
  BY <1>3, <1>6, <1>7, <1>11, <1>12 DEF LeaveInv, OneCurrent

LEMMA CreateRecallStep ==
    ASSUME LeaveInv, NEW n \in DOMAIN apps, NEW days \in DaysApplied, CreateRecall(n, days)
    PROVE  LeaveInv'
<1>1. PICK x, m : x = [app |-> n, days |-> days, status |-> "Open"] /\ m = Len(recalls) + 1
  OBVIOUS
<1>2. /\ LeaveTypeOK /\ recalls \in Seq(RecallType) /\ days \in Nat /\ n \in Nat
      /\ apps[n].days \in Nat /\ days <= Remaining(n)
  BY RowsFinite, LeaveAssumption DEF LeaveInv, LeaveTypeOK, CreateRecall
<1>3. /\ recalls' = Append(recalls, x)
      /\ leaveMarks' = leaveMarks \cup
           (IF \E r \in DOMAIN recalls : recalls[r].app = n /\ recalls[r].status = "Open" THEN {"recalls"} ELSE {})
      /\ UNCHANGED <<balance, current, apps, granted, leaveDesk>>
  BY <1>1 DEF CreateRecall
<1>4. x \in RecallType /\ x.app = n /\ x.days = days /\ x.status = "Open"
  BY <1>1, <1>2 DEF RecallType, LeaveStatuses
<1>5. /\ recalls' \in Seq(RecallType) /\ DOMAIN recalls' = DOMAIN recalls \cup {m} /\ m \notin DOMAIN recalls
      /\ recalls'[m] = x /\ \A r \in DOMAIN recalls : recalls'[r] = recalls[r]
  BY <1>1, <1>2, <1>3, <1>4
<1>6. leaveMarks \subseteq leaveMarks' /\ leaveMarks' \subseteq leaveMarks \cup {"recalls"}
  BY <1>3
<1>7. LeaveTypeOK'
  BY <1>2, <1>3, <1>4, <1>5, <1>6 DEF LeaveTypeOK
<1>8. ASSUME NEW S \in SUBSET DOMAIN recalls
      PROVE  IsFiniteSet(S) /\ DaysOf(recalls', S) = DaysOf(recalls, S) /\ DaysOf(recalls, S) \in Int
  <2>1. IsFiniteSet(S) /\ DaysOf(recalls, S) \in Int /\ S \subseteq DOMAIN recalls'
    BY <1>2, <1>5, RowsFinite
  <2>2. \A r \in S : recalls[r].days \in Int /\ recalls'[r].days = recalls[r].days
    BY <1>2, <1>5, RowsFinite
  <2> QED
    BY <2>1, <2>2, DaysKept
<1>9. Approved(recalls') = Approved(recalls) /\ Approved(recalls) \subseteq DOMAIN recalls
  BY <1>4, <1>5 DEF Approved
<1>10. LeaveTaken' = LeaveTaken
  BY <1>3, <1>8, <1>9 DEF LeaveTaken
<1>11. ASSUME "recalls" \notin leaveMarks' PROVE RecallsFit'
  <2>1. /\ RecallsFit
        /\ \A r \in DOMAIN recalls : recalls[r].app = n => recalls[r].status # "Open"
    BY <1>3, <1>6, <1>11 DEF LeaveInv
  <2>2. Standing(n) = {r \in DOMAIN recalls : recalls[r].app = n /\ recalls[r].status \in {"Pending", "Approved"}}
    <3>1. \A r \in DOMAIN recalls : recalls[r].status \in LeaveStatuses
      <4>1. \A r \in DOMAIN recalls : recalls[r] \in RecallType
        BY <1>2, RowsFinite
      <4> QED
        BY <4>1 DEF RecallType
    <3> QED
      BY <2>1, <3>1 DEF Standing, LeaveStatuses
  <2>3. Standing(n) \subseteq DOMAIN recalls /\ DaysOf(recalls, Standing(n)) + days <= apps[n].days
    <3>1. Remaining(n) = apps[n].days - DaysOf(recalls, Standing(n))
      BY <2>2 DEF Remaining
    <3>2. Standing(n) \subseteq DOMAIN recalls
      BY DEF Standing
    <3>3. DaysOf(recalls, Standing(n)) \in Int
      BY <1>8, <3>2
    <3> QED
      BY <1>2, <3>1, <3>2, <3>3
  <2>4. Standing(n)' = Standing(n) \cup {m}
    BY <1>4, <1>5 DEF Standing
  <2>5. DaysOf(recalls', Standing(n) \cup {m}) = DaysOf(recalls', Standing(n)) + days
    <3>1. \A r \in Standing(n) \cup {m} : recalls'[r].days \in Int
      BY <1>2, <1>4, <1>5, <2>3, RowsFinite
    <3>2. IsFiniteSet(Standing(n)) /\ m \notin Standing(n) /\ m \in DOMAIN recalls'
          /\ Standing(n) \subseteq DOMAIN recalls' /\ recalls'[m].days = days
      BY <1>4, <1>5, <1>8, <2>3
    <3> QED
      BY <3>1, <3>2, DaysMore
  <2>6. ASSUME NEW a \in DOMAIN apps, a # n
        PROVE  Standing(a)' = Standing(a) /\ Standing(a) \subseteq DOMAIN recalls
    BY <1>4, <1>5, <2>6 DEF Standing
  <2>7. ASSUME NEW a \in DOMAIN apps PROVE DaysOf(recalls, Standing(a))' <= apps[a].days
    <3>1. CASE a = n
      BY <1>8, <2>3, <2>4, <2>5, <3>1
    <3>2. CASE a # n
      BY <1>8, <2>1, <2>6, <3>2 DEF RecallsFit
    <3> QED
      BY <3>1, <3>2
  <2> QED
    BY <1>3, <2>7 DEF RecallsFit
<1>12. LeaveKept => LeaveKept'
  BY <1>3, <1>10 DEF LeaveKept, Unposted
<1> QED
  BY <1>3, <1>6, <1>7, <1>11, <1>12 DEF LeaveInv, OneCurrent

\* A recall changes its status; not back from deleted.
LEMMA RecallMoves ==
    ASSUME LeaveTypeOK, NEW r \in DOMAIN recalls, NEW st \in LeaveStatuses,
           recalls[r].status \in {"Open", "Pending"},
           recalls' = [recalls EXCEPT ![r].status = st], UNCHANGED apps
    PROVE  /\ recalls' \in Seq(RecallType) /\ DOMAIN recalls' = DOMAIN recalls
           /\ \A s \in DOMAIN recalls : recalls'[s].app = recalls[s].app /\ recalls'[s].days = recalls[s].days
           /\ Approved(recalls') = IF st = "Approved" THEN Approved(recalls) \cup {r} ELSE Approved(recalls)
           /\ r \notin Approved(recalls) /\ Approved(recalls) \subseteq DOMAIN recalls
           /\ \A S \in SUBSET DOMAIN recalls :
                 IsFiniteSet(S) /\ DaysOf(recalls', S) = DaysOf(recalls, S) /\ DaysOf(recalls, S) \in Int
           /\ RecallsFit => RecallsFit'
<1>1. recalls \in Seq(RecallType)
  BY DEF LeaveTypeOK
<1>2. /\ recalls' \in Seq(RecallType) /\ DOMAIN recalls' = DOMAIN recalls
      /\ \A s \in DOMAIN recalls : recalls'[s].app = recalls[s].app /\ recalls'[s].days = recalls[s].days
      /\ recalls'[r].status = st /\ \A s \in DOMAIN recalls : s # r => recalls'[s].status = recalls[s].status
  BY <1>1, StatusSet
<1>3. /\ Approved(recalls') = IF st = "Approved" THEN Approved(recalls) \cup {r} ELSE Approved(recalls)
      /\ r \notin Approved(recalls) /\ Approved(recalls) \subseteq DOMAIN recalls
  BY <1>2 DEF Approved
<1>4. ASSUME NEW S \in SUBSET DOMAIN recalls
      PROVE  IsFiniteSet(S) /\ DaysOf(recalls', S) = DaysOf(recalls, S) /\ DaysOf(recalls, S) \in Int
  <2>1. IsFiniteSet(S) /\ DaysOf(recalls, S) \in Int /\ S \subseteq DOMAIN recalls'
    BY <1>2, RowsFinite
  <2>2. \A s \in S : recalls[s].days \in Int /\ recalls'[s].days = recalls[s].days
    BY <1>2, RowsFinite
  <2> QED
    BY <2>1, <2>2, DaysKept
<1>5. ASSUME RecallsFit, NEW n \in DOMAIN apps
      PROVE  DaysOf(recalls', Standing(n)') <= apps[n].days
  <2>1. Standing(n)' \subseteq Standing(n) /\ Standing(n) \subseteq DOMAIN recalls
    BY <1>2 DEF Standing
  <2>2. DaysOf(recalls, Standing(n)') <= DaysOf(recalls, Standing(n))
    <3>1. IsFiniteSet(Standing(n)) /\ \A s \in Standing(n) : recalls[s].days \in Nat
      BY <1>4, <2>1, RowsFinite
    <3> QED
      BY <2>1, <3>1, DaysFewer
  <2>3. DaysOf(recalls, Standing(n)) <= apps[n].days /\ apps[n].days \in Nat
    BY <1>5, RowsFinite DEF RecallsFit
  <2>4. /\ DaysOf(recalls', Standing(n)') = DaysOf(recalls, Standing(n)')
        /\ DaysOf(recalls, Standing(n)') \in Int /\ DaysOf(recalls, Standing(n)) \in Int
    BY <1>4, <2>1
  <2> QED
    BY <2>2, <2>3, <2>4
<1> QED
  BY <1>2, <1>3, <1>4, <1>5 DEF RecallsFit

LEMMA MoveRecallStep ==
    ASSUME LeaveInv, NEW r \in DOMAIN recalls, MoveRecall(r)
    PROVE  LeaveInv'
<1>1. PICK st \in LeaveStatuses :
        /\ recalls' = [recalls EXCEPT ![r].status = st] /\ recalls[r].status \in {"Open", "Pending"}
        /\ st # "Approved"
        /\ UNCHANGED <<balance, current, apps, granted, leaveDesk, leaveMarks>>
  BY DEF MoveRecall, LeaveStatuses
<1>2. LeaveTypeOK
  BY DEF LeaveInv
<1>3. /\ recalls' \in Seq(RecallType) /\ DOMAIN recalls' = DOMAIN recalls
      /\ \A s \in DOMAIN recalls : recalls'[s].app = recalls[s].app
      /\ Approved(recalls') = Approved(recalls)
      /\ DaysOf(recalls', Approved(recalls)) = DaysOf(recalls, Approved(recalls))
      /\ RecallsFit => RecallsFit'
  BY <1>1, <1>2, RecallMoves
<1>4. LeaveTypeOK'
  BY <1>1, <1>2, <1>3 DEF LeaveTypeOK
<1>5. LeaveTaken' = LeaveTaken
  BY <1>1, <1>3 DEF LeaveTaken
<1>6. LeaveKept => LeaveKept'
  BY <1>1, <1>5 DEF LeaveKept, Unposted
<1> QED
  BY <1>1, <1>3, <1>4, <1>6 DEF LeaveInv, OneCurrent

\* Days come into the ledger: the balance rises by what was given back or granted.
LEMMA DaysComeIn ==
    ASSUME LeaveInv, LeaveKept, NEW c \in current, NEW days \in Nat,
           balance' = [balance EXCEPT ![c] = @ + days], "twice" \notin leaveMarks,
           ~ Carrying(c), LeaveTaken' \in Int,
           LeaveTaken' + days - granted' <= LeaveTaken - granted, granted' \in Int,
           UNCHANGED <<current, apps>>,
           \A j \in LeaveDesks : leaveDesk'[j].op = "carry" => leaveDesk'[j] = leaveDesk[j]
    PROVE  LeaveKept'
<1>1. /\ LeaveTypeOK /\ balance \in Seq(Int) /\ c \in DOMAIN balance /\ current = {c}
      /\ granted \in Nat /\ days \in Int
  BY DEF LeaveInv, LeaveTypeOK, OneCurrent
<1>2. balance'[c] = balance[c] + days /\ balance[c] \in Int
  BY <1>1, EntryMoves
<1>3. LeaveTaken \in Int
  <2>1. DaysOf(apps, Approved(apps)) \in Int /\ DaysOf(recalls, Approved(recalls)) \in Int
    BY <1>1, RowsFinite DEF Approved
  <2> QED
    BY <2>1 DEF LeaveTaken
<1>4. PICK t, b, g, t1, g1 : t = LeaveTaken /\ b = balance[c] /\ g = granted /\ t1 = LeaveTaken' /\ g1 = granted'
  OBVIOUS
<1>5. b >= 0 /\ t + b <= g
  BY <1>4 DEF LeaveKept
<1>6. balance'[c] >= 0 /\ LeaveTaken' + balance'[c] <= granted'
  <2>1. t \in Int /\ b \in Int /\ g \in Int /\ t1 \in Int /\ g1 \in Int /\ days \in Nat /\ t1 + days - g1 <= t - g
    BY <1>1, <1>2, <1>3, <1>4
  <2>2. b + days >= 0 /\ t1 + (b + days) <= g1
    BY <1>5, <2>1
  <2> QED
    BY <1>2, <1>4, <2>2
<1>7. \A j \in LeaveDesks : leaveDesk'[j].op = "carry" => leaveDesk'[j].cal # c
  BY DEF Carrying
<1>8. \A n \in Unposted : apps[n].cal = c => apps[n].days <= balance'[c]
  <2> SUFFICES ASSUME NEW n \in Unposted, apps[n].cal = c PROVE apps[n].days <= balance'[c]
    OBVIOUS
  <2>1. apps[n].days \in Nat
    BY <1>1, RowsFinite DEF Unposted
  <2>2. apps[n].days <= balance[c]
    BY DEF LeaveKept
  <2> QED
    BY <1>1, <1>2, <2>1, <2>2
<1> QED
  BY <1>1, <1>6, <1>7, <1>8 DEF LeaveKept, Unposted

LEMMA ApproveRecallStep ==
    ASSUME LeaveInv, NEW r \in DOMAIN recalls, ApproveRecall(r)
    PROVE  LeaveInv'
<1>1. PICK c, days : c = apps[recalls[r].app].cal /\ days = recalls[r].days
  OBVIOUS
<1>2. LeaveTypeOK /\ c \in DOMAIN balance /\ days \in Nat /\ granted \in Nat
  <2>1. LeaveTypeOK /\ recalls[r].app \in DOMAIN apps /\ granted \in Nat
    BY DEF LeaveInv, LeaveTypeOK
  <2> QED
    BY <1>1, <2>1, RowsFinite DEF LeaveTypeOK
<1>3. /\ recalls[r].status = "Pending" /\ recalls' = [recalls EXCEPT ![r].status = "Approved"]
      /\ balance' = [balance EXCEPT ![c] = @ + days]
      /\ leaveMarks' = leaveMarks \cup (IF c \notin current \/ Carrying(c) THEN {"late"} ELSE {})
      /\ UNCHANGED <<current, apps, granted, leaveDesk>>
  BY <1>1 DEF ApproveRecall, Entry
<1>4. /\ recalls' \in Seq(RecallType) /\ DOMAIN recalls' = DOMAIN recalls
      /\ \A s \in DOMAIN recalls : recalls'[s].app = recalls[s].app
      /\ Approved(recalls') = Approved(recalls) \cup {r} /\ r \notin Approved(recalls)
      /\ Approved(recalls) \subseteq DOMAIN recalls
      /\ \A S \in SUBSET DOMAIN recalls :
            IsFiniteSet(S) /\ DaysOf(recalls', S) = DaysOf(recalls, S) /\ DaysOf(recalls, S) \in Int
      /\ RecallsFit => RecallsFit'
  <2>1. "Approved" \in LeaveStatuses
    BY DEF LeaveStatuses
  <2> QED
    BY <1>2, <1>3, <2>1, RecallMoves
<1>5. leaveMarks \subseteq leaveMarks' /\ leaveMarks' \subseteq leaveMarks \cup {"late"}
  BY <1>3
<1>6. balance' \in Seq(Int) /\ DOMAIN balance' = DOMAIN balance
  <2>1. days \in Int /\ balance' = [balance EXCEPT ![c] = @ + days]
    BY <1>2, <1>3
  <2> QED
    BY <1>2, <2>1, EntryMoves
<1>7. LeaveTypeOK'
  BY <1>2, <1>3, <1>4, <1>5, <1>6 DEF LeaveTypeOK
<1>8. LeaveTaken' = LeaveTaken - days /\ LeaveTaken \in Int
  <2>1. DaysOf(apps, Approved(apps)) \in Int /\ DaysOf(recalls, Approved(recalls)) \in Int
    BY <1>2, RowsFinite DEF Approved
  <2>2. DaysOf(recalls', Approved(recalls')) = DaysOf(recalls, Approved(recalls) \cup {r})
    BY <1>4
  <2>3. DaysOf(recalls, Approved(recalls) \cup {r}) = DaysOf(recalls, Approved(recalls)) + days
    <3>1. \A s \in Approved(recalls) \cup {r} : recalls[s].days \in Int
      BY <1>2, <1>4, RowsFinite
    <3> QED
      BY <1>1, <1>4, <3>1, DaysMore
  <2> QED
    BY <1>2, <1>3, <2>1, <2>2, <2>3 DEF LeaveTaken
<1>9. ASSUME leaveMarks' = {} PROVE LeaveKept'
  <2>1. LeaveKept /\ c \in current /\ ~ Carrying(c) /\ "twice" \notin leaveMarks
    BY <1>3, <1>5, <1>9 DEF LeaveInv
  <2>2. LeaveTaken' \in Int /\ LeaveTaken' + days - granted' <= LeaveTaken - granted /\ granted' \in Int
    BY <1>2, <1>3, <1>8
  <2> QED
    BY <1>2, <1>3, <2>1, <2>2, DaysComeIn
<1> QED
  BY <1>3, <1>4, <1>5, <1>7, <1>9 DEF LeaveInv, OneCurrent

LEMMA AdjustmentStep ==
    ASSUME LeaveInv, NEW days \in {-1, 1}, ApproveAdjustment(days)
    PROVE  LeaveInv'
<1>1. PICK c \in current :
        /\ balance' = [balance EXCEPT ![c] = @ + days]
        /\ leaveMarks' = leaveMarks \cup (IF days < 0 THEN {"down"} ELSE {})
                                    \cup (IF Carrying(c) THEN {"late"} ELSE {})
        /\ granted' = IF days > 0 THEN granted + days ELSE granted
        /\ UNCHANGED <<current, apps, recalls, leaveDesk>>
  BY DEF ApproveAdjustment
<1>2. LeaveTypeOK /\ c \in DOMAIN balance /\ days \in Int /\ granted \in Nat
  BY DEF LeaveInv, LeaveTypeOK
<1>3. balance' \in Seq(Int) /\ DOMAIN balance' = DOMAIN balance
  BY <1>1, <1>2, EntryMoves
<1>4. leaveMarks \subseteq leaveMarks' /\ leaveMarks' \subseteq leaveMarks \cup {"down", "late"} /\ granted' \in Nat
  BY <1>1, <1>2
<1>5. LeaveTypeOK'
  BY <1>1, <1>2, <1>3, <1>4 DEF LeaveTypeOK
<1>6. LeaveTaken' = LeaveTaken /\ LeaveTaken \in Int
  <2>1. DaysOf(apps, Approved(apps)) \in Int /\ DaysOf(recalls, Approved(recalls)) \in Int
    BY <1>2, RowsFinite DEF Approved
  <2> QED
    BY <1>1, <2>1 DEF LeaveTaken
<1>7. ASSUME leaveMarks' = {} PROVE LeaveKept'
  <2>1. LeaveKept /\ ~ Carrying(c) /\ "twice" \notin leaveMarks /\ days = 1 /\ days \in Nat
    BY <1>1, <1>4, <1>7 DEF LeaveInv
  <2>2. granted' = granted + days
    BY <1>1, <2>1
  <2>3. LeaveTaken' \in Int /\ LeaveTaken' + days - granted' <= LeaveTaken - granted /\ granted' \in Int
    BY <1>2, <1>6, <2>1, <2>2
  <2> QED
    BY <1>1, <2>1, <2>3, DaysComeIn
<1> QED
  BY <1>1, <1>4, <1>5, <1>7 DEF LeaveInv, OneCurrent, RecallsFit, Standing

LEMMA AccrueStep ==
    ASSUME LeaveInv, NEW k \in LeaveDesks, Accrue(k)
    PROVE  LeaveInv'
<1>1. PICK c, one : c = leaveDesk[k].cal /\ one = 1
  OBVIOUS
<1>2. /\ LeaveTypeOK /\ leaveDesk \in [LeaveDesks -> DeskType] /\ c \in DOMAIN balance /\ granted \in Nat
      /\ one \in Int
  BY <1>1 DEF LeaveInv, LeaveTypeOK, Accrue
<1>3. /\ balance' = [balance EXCEPT ![c] = @ + one]
      /\ leaveMarks' = leaveMarks \cup (IF c \notin current \/ Carrying(c) THEN {"late"} ELSE {})
      /\ granted' = granted + 1 /\ leaveDesk' = [leaveDesk EXCEPT ![k] = Away]
      /\ UNCHANGED <<current, apps, recalls>>
  BY <1>1 DEF Accrue, Entry
<1>4. balance' \in Seq(Int) /\ DOMAIN balance' = DOMAIN balance
  <2>1. balance' = [balance EXCEPT ![c] = @ + one]
    BY <1>3
  <2> QED
    BY <1>2, <2>1, EntryMoves
<1>5. leaveMarks \subseteq leaveMarks' /\ leaveMarks' \subseteq leaveMarks \cup {"late"}
  BY <1>3
<1>6. leaveDesk' \in [LeaveDesks -> DeskType] /\ leaveDesk'[k].op = "idle"
      /\ \A j \in LeaveDesks : j # k => leaveDesk'[j] = leaveDesk[j]
  <2>1. Away \in DeskType /\ Away.op = "idle"
    BY DEF Away, DeskType
  <2> QED
    BY <1>2, <1>3, <2>1
<1>7. LeaveTypeOK'
  BY <1>2, <1>3, <1>4, <1>5, <1>6 DEF LeaveTypeOK
<1>8. LeaveTaken' = LeaveTaken /\ LeaveTaken \in Int
  <2>1. DaysOf(apps, Approved(apps)) \in Int /\ DaysOf(recalls, Approved(recalls)) \in Int
    BY <1>2, RowsFinite DEF Approved
  <2> QED
    BY <1>3, <2>1 DEF LeaveTaken
<1>9. ASSUME leaveMarks' = {} PROVE LeaveKept'
  <2>1. LeaveKept /\ c \in current /\ ~ Carrying(c) /\ "twice" \notin leaveMarks
    BY <1>3, <1>5, <1>9 DEF LeaveInv
  <2>2. LeaveTaken' \in Int /\ LeaveTaken' + one - granted' <= LeaveTaken - granted /\ granted' \in Int /\ one \in Nat
    BY <1>1, <1>2, <1>3, <1>8
  <2>3. \A j \in LeaveDesks : leaveDesk'[j].op = "carry" => leaveDesk'[j] = leaveDesk[j]
    BY <1>6
  <2> QED
    BY <1>3, <2>1, <2>2, <2>3, DaysComeIn
<1> QED
  BY <1>3, <1>5, <1>7, <1>9 DEF LeaveInv, OneCurrent, RecallsFit, Standing

LEMMA CloseStep ==
    ASSUME LeaveInv, NEW k \in LeaveDesks, CloseCalendar(k)
    PROVE  LeaveInv'
<1>1. PICK c, b, n : c = leaveDesk[k].cal /\ b = Carry(leaveDesk[k].days) + Standard /\ n = Len(balance) + 1
  OBVIOUS
<1>2. /\ LeaveTypeOK /\ leaveDesk \in [LeaveDesks -> DeskType] /\ c \in DOMAIN balance /\ granted \in Nat
      /\ leaveDesk[k].op = "carry" /\ leaveDesk[k].days \in Int /\ balance \in Seq(Int)
      /\ current \subseteq DOMAIN balance /\ Standard \in Nat /\ MaxCarry \in Nat
  BY <1>1, LeaveAssumption DEF LeaveInv, LeaveTypeOK, CloseCalendar, DeskType
<1>3. /\ balance' = Append([balance EXCEPT ![c] = 0], b)
      /\ current' = (current \ {c}) \cup {n}
      /\ leaveMarks' = leaveMarks \cup (IF c \notin current THEN {"twice"} ELSE {})
      /\ granted' = granted + Standard /\ leaveDesk' = [leaveDesk EXCEPT ![k] = Away]
      /\ UNCHANGED <<apps, recalls>>
  BY <1>1 DEF CloseCalendar
<1>4. b \in Nat /\ (leaveDesk[k].days >= 0 => b <= leaveDesk[k].days + Standard)
  <2>1. PICK d : d = leaveDesk[k].days /\ d \in Int
    BY <1>2
  <2>2. b = (IF d < 0 THEN 0 ELSE IF d > MaxCarry THEN MaxCarry ELSE d) + Standard
    BY <1>1, <2>1 DEF Carry
  <2>3. b \in Nat /\ (d >= 0 => b <= d + Standard)
    BY <1>2, <2>1, <2>2
  <2> QED
    BY <2>1, <2>3
<1>5. /\ balance' \in Seq(Int) /\ DOMAIN balance' = DOMAIN balance \cup {n} /\ n \notin DOMAIN balance
      /\ balance'[n] = b
  <2>1. PICK q : q = [balance EXCEPT ![c] = 0]
    OBVIOUS
  <2>2. q \in Seq(Int) /\ DOMAIN q = DOMAIN balance /\ Len(q) = Len(balance)
    BY <1>2, <2>1
  <2>3. balance' = Append(q, b) /\ n = Len(q) + 1
    BY <1>1, <1>3, <2>1, <2>2
  <2> QED
    BY <1>4, <2>2, <2>3
<1>6. leaveMarks \subseteq leaveMarks' /\ leaveMarks' \subseteq leaveMarks \cup {"twice"} /\ granted' \in Nat
  BY <1>2, <1>3
<1>7. leaveDesk' \in [LeaveDesks -> DeskType] /\ leaveDesk'[k].op = "idle"
      /\ \A j \in LeaveDesks : j # k => leaveDesk'[j] = leaveDesk[j]
  <2>1. Away \in DeskType /\ Away.op = "idle"
    BY DEF Away, DeskType
  <2> QED
    BY <1>2, <1>3, <2>1
<1>8. LeaveTypeOK'
  BY <1>2, <1>3, <1>5, <1>6, <1>7 DEF LeaveTypeOK
<1>9. LeaveTaken' = LeaveTaken /\ LeaveTaken \in Int
  <2>1. DaysOf(apps, Approved(apps)) \in Int /\ DaysOf(recalls, Approved(recalls)) \in Int
    BY <1>2, RowsFinite DEF Approved
  <2> QED
    BY <1>3, <2>1 DEF LeaveTaken
<1>10. ASSUME "twice" \notin leaveMarks' PROVE current = {c} /\ current' = {n}
  BY <1>3, <1>6, <1>10 DEF LeaveInv, OneCurrent
<1>11. OneCurrent' \/ "twice" \in leaveMarks'
  BY <1>5, <1>10 DEF OneCurrent
<1>12. ASSUME leaveMarks' = {} PROVE LeaveKept'
  <2>1. LeaveKept /\ current = {c} /\ current' = {n}
    BY <1>6, <1>10, <1>12 DEF LeaveInv
  <2>2. leaveDesk[k].days = balance[c] /\ balance[c] >= 0 /\ LeaveTaken + balance[c] <= granted
    BY <1>1, <1>2, <2>1 DEF LeaveKept
  <2>3. LeaveTaken' + b <= granted'
    BY <1>2, <1>3, <1>4, <1>9, <2>2
  <2>4. \A j \in LeaveDesks : leaveDesk'[j].op # "idle" => leaveDesk'[j].cal # n
    BY <1>5, <1>7, <1>2 DEF LeaveTypeOK
  <2>5. \A a \in Unposted : apps[a].cal # n
    BY <1>5, <1>2 DEF LeaveTypeOK, Unposted
  <2>6. Unposted' = Unposted
    BY <1>3 DEF Unposted
  <2> QED
    BY <1>3, <1>4, <1>5, <2>1, <2>3, <2>4, <2>5, <2>6 DEF LeaveKept
<1> QED
  BY <1>3, <1>6, <1>8, <1>11, <1>12 DEF LeaveInv, RecallsFit, Standing

LEMMA LeaveStep == LeaveInv /\ [LeaveNext]_leaveVars => LeaveInv'
<1> SUFFICES ASSUME LeaveInv, [LeaveNext]_leaveVars PROVE LeaveInv'
  OBVIOUS
<1>1. CASE LeaveNext
  BY <1>1, LeaveReads, CreateAppStep, MoveAppStep, ApproveAppStep, CreateRecallStep, MoveRecallStep,
     ApproveRecallStep, AdjustmentStep, AccrueStep, CloseStep DEF LeaveNext
<1>2. CASE UNCHANGED leaveVars
  <2>1. UNCHANGED <<balance, current, apps, recalls, granted, leaveDesk, leaveMarks>>
    BY <1>2 DEF leaveVars
  <2>2. LeaveTypeOK' = LeaveTypeOK /\ RecallsFit' = RecallsFit /\ OneCurrent' = OneCurrent /\ LeaveKept' = LeaveKept
    BY <2>1 DEF LeaveTypeOK, RecallsFit, OneCurrent, LeaveKept, Standing, Unposted, LeaveTaken
  <2> QED
    BY <2>1, <2>2 DEF LeaveInv
<1> QED
  BY <1>1, <1>2

LEMMA LeaveInvHolds == LeaveInv => LeaveHolds
<1> SUFFICES ASSUME LeaveInv PROVE LeaveHolds
  OBVIOUS
<1>1. LeaveTypeOK /\ granted \in Nat /\ balance \in Seq(Int) /\ current \subseteq DOMAIN balance
  BY DEF LeaveInv, LeaveTypeOK
<1>2. ASSUME leaveMarks = {}
      PROVE  LeaveTaken <= granted /\ \A c \in current : balance[c] >= 0
  <2>1. LeaveKept /\ OneCurrent
    BY <1>2 DEF LeaveInv
  <2>2. PICK c \in DOMAIN balance : current = {c}
    BY <2>1 DEF OneCurrent
  <2>3. balance[c] >= 0 /\ LeaveTaken + balance[c] <= granted /\ balance[c] \in Int
    BY <1>1, <2>1, <2>2 DEF LeaveKept
  <2>4. DaysOf(apps, Approved(apps)) \in Int /\ DaysOf(recalls, Approved(recalls)) \in Int
    BY <1>1, RowsFinite DEF Approved
  <2>5. LeaveTaken \in Int
    BY <2>4 DEF LeaveTaken
  <2> QED
    BY <1>1, <2>2, <2>3, <2>5
<1>3. ASSUME "recalls" \notin leaveMarks, NEW n \in DOMAIN apps PROVE Recalled(n) <= apps[n].days
  <2>1. PICK S : S = {r \in Approved(recalls) : recalls[r].app = n}
    OBVIOUS
  <2>2. S \subseteq Standing(n) /\ Standing(n) \subseteq DOMAIN recalls
    BY <2>1 DEF Standing, Approved
  <2>3. IsFiniteSet(Standing(n)) /\ \A r \in Standing(n) : recalls[r].days \in Nat
    BY <1>1, <2>2, RowsFinite
  <2>4. DaysOf(recalls, S) <= DaysOf(recalls, Standing(n))
    BY <2>2, <2>3, DaysFewer
  <2>5. DaysOf(recalls, Standing(n)) <= apps[n].days
    BY <1>3 DEF LeaveInv, RecallsFit
  <2>6. DaysOf(recalls, S) \in Int /\ DaysOf(recalls, Standing(n)) \in Int /\ apps[n].days \in Nat
    BY <1>1, <2>2, RowsFinite
  <2> QED
    BY <2>1, <2>4, <2>5, <2>6 DEF Recalled
<1>4. ASSUME "twice" \notin leaveMarks PROVE Cardinality(current) = 1
  BY <1>4, FS_Singleton DEF LeaveInv, OneCurrent
<1> QED
  BY <1>2, <1>3, <1>4 DEF LeaveHolds, LeaveTaken

\* Whatever the days and the requests in between, and unless the marks say otherwise: no
\* more leave is taken than was granted and the current balance is not negative, no
\* application gives back more than it took, and one calendar is current
\* (lib/leaveManagement.ts).
THEOREM LeaveHoldsAlways == LeaveSpec => []LeaveHolds
<1>1. LeaveSpec => []LeaveInv
  BY LeaveInitInv, LeaveStep, PTL DEF LeaveSpec
<1> QED
  BY <1>1, LeaveInvHolds, PTL

-----------------------------------------------------------------------------
(* Students: enrolments, places, fee accounts and admissions.               *)

\* A request that closes an application has made the student; one that writes a placement
\* knows the enrolment it read as the active one, or that there was none.
OfficesSound ==
    \A k \in Offices :
       /\ office[k].op = "close" => office[k].s \in Admitted
       /\ office[k].op = "write" =>
             IF office[k].y = 0 THEN office[k].old = NotEnrolled
             ELSE office[k].y \in Years /\ office[k].old.status = "ACTIVE"

Enrolment(st) == [status |-> "ACTIVE", stream |-> st]

PupilSound(s) ==
    /\ Unmarked({"moved", "left"}) =>
          /\ \A y, z \in ActiveYears(s) : y = z
          /\ pupils[s].status = "LEFT" => ActiveYears(s) = {}
    /\ Unmarked({"moved", "left", "back"}) /\ pupils[s].status # "LEFT" =>
          enrolled[s][YearOf[pupils[s].stream]] = Enrolment(pupils[s].stream)
    /\ Unmarked({"sync"}) => (pupils[s].blocked <=> pupils[s].status # "ACTIVE")

RoomKept == Unmarked({"full", "back"}) => \A st \in Streams : Cardinality(Roll(st)) <= Capacity[st]
OneAdmitted == Unmarked({"twice"}) => \A s, t \in Admitted : s = t
FileSays == application.status = "ADMITTED" => application.pupil \in Admitted
FileFollows ==
    Unmarked({"file", "crash"}) /\ Admitted # {} =>
       application.status = "ADMITTED" \/ \E k \in Offices : Doing(k, "close")

StudentInv ==
    /\ StudentTypeOK /\ OfficesSound
    /\ \A s \in DOMAIN pupils : PupilSound(s)
    /\ RoomKept /\ OneAdmitted /\ FileSays /\ FileFollows

LEMMA NoRequestTyped ==
    /\ NoRequest \in OfficeType /\ NotEnrolled \in EnrolmentType /\ SomeStream \in Streams
    /\ NoRequest.op = "idle" /\ NotEnrolled.status = "none"
<1>1. SomeStream \in Streams
  BY StudentAssumption DEF SomeStream
<1>2. NotEnrolled \in EnrolmentType /\ NotEnrolled.status = "none"
  BY <1>1 DEF NotEnrolled, EnrolmentType
<1> QED
  BY <1>1, <1>2 DEF NoRequest, OfficeType, Standings

LEMMA YearsAre == \A st \in Streams : YearOf[st] \in Years /\ YearOf[st] # 0 /\ Capacity[st] \in Nat
BY StudentAssumption DEF Years

LEMMA StudentInitInv == StudentInit => StudentInv
<1> SUFFICES ASSUME StudentInit PROVE StudentInv
  OBVIOUS
<1>1. /\ pupils = <<>> /\ enrolled = <<>> /\ studentMarks = {} /\ application.status = "OPEN"
      /\ application \in [status : {"OPEN", "DECLINED", "ADMITTED"}, pupil : Nat]
      /\ \A k \in Offices : office[k] = NoRequest
  BY DEF StudentInit
<1>2. DOMAIN pupils = {}
  BY <1>1
<1>3. office \in [Offices -> OfficeType] /\ \A k \in Offices : office[k].op = "idle"
  BY <1>1, NoRequestTyped DEF StudentInit
<1>4. StudentTypeOK
  BY <1>1, <1>3 DEF StudentTypeOK
<1>5. Admitted = {} /\ \A st \in Streams : Roll(st) = {}
  BY <1>2 DEF Admitted, Roll
<1>6. RoomKept
  <2>1. \A st \in Streams : Cardinality(Roll(st)) = 0 /\ Capacity[st] \in Nat
    BY <1>5, YearsAre, FS_EmptySet
  <2> QED
    BY <2>1 DEF RoomKept
<1> QED
  BY <1>1, <1>2, <1>3, <1>4, <1>5, <1>6 DEF StudentInv, OfficesSound, OneAdmitted, FileSays, FileFollows

\* Marks stay, and whoever was sound stays so while nothing about the student changes.
LEMMA MarksGrow ==
    ASSUME studentMarks \subseteq studentMarks', NEW names, Unmarked(names)'
    PROVE  Unmarked(names)
BY DEF Unmarked

LEMMA PupilStands ==
    ASSUME studentMarks \subseteq studentMarks', NEW s, PupilSound(s),
           pupils'[s] = pupils[s], enrolled'[s] = enrolled[s]
    PROVE  PupilSound(s)'
<1>1. \A names : Unmarked(names)' => Unmarked(names)
  BY MarksGrow
<1>2. ActiveYears(s)' = ActiveYears(s)
  BY DEF ActiveYears
<1> QED
  BY <1>1, <1>2 DEF PupilSound

LEMMA RollFinite ==
    ASSUME StudentTypeOK
    PROVE  IsFiniteSet(DOMAIN pupils) /\ \A st : IsFiniteSet(Roll(st)) /\ Cardinality(Roll(st)) \in Nat
<1>1. DOMAIN pupils = 1 .. Len(pupils) /\ Len(pupils) \in Nat
  BY DEF StudentTypeOK
<1>2. IsFiniteSet(DOMAIN pupils)
  BY <1>1, FS_Interval
<1>3. \A st : Roll(st) \subseteq DOMAIN pupils
  BY DEF Roll
<1> QED
  BY <1>2, <1>3, FS_Subset, FS_CardinalityType

\* A request reads something, or dies.
LEMMA OfficeMoves ==
    ASSUME StudentInv, NEW k \in Offices, NEW d \in OfficeType,
           d.op \in {"close", "place", "write", "sync"} => d.s \in DOMAIN pupils,
           d.op # "close",
           d.op = "write" => IF d.y = 0 THEN d.old = NotEnrolled
                             ELSE d.y \in Years /\ d.old.status = "ACTIVE",
           office' = [office EXCEPT ![k] = d],
           UNCHANGED <<pupils, enrolled, application>>,
           studentMarks \subseteq studentMarks', studentMarks' \subseteq studentMarks \cup {"crash"},
           office[k].op = "close" => "crash" \in studentMarks'
    PROVE  StudentInv'
<1>1. office \in [Offices -> OfficeType] /\ StudentTypeOK
  BY DEF StudentInv, StudentTypeOK
<1>2. office' \in [Offices -> OfficeType] /\ office'[k] = d /\ \A j \in Offices : j # k => office'[j] = office[j]
  BY <1>1
<1>3. StudentTypeOK'
  BY <1>1, <1>2 DEF StudentTypeOK
<1>4. Admitted' = Admitted /\ \A st : Roll(st)' = Roll(st)
  BY DEF Admitted, Roll
<1>5. OfficesSound'
  BY <1>2, <1>4 DEF StudentInv, OfficesSound
<1>6. \A names : Unmarked(names)' => Unmarked(names)
  BY MarksGrow
<1>7. \A s \in DOMAIN pupils' : PupilSound(s)'
  BY PupilStands DEF StudentInv
<1>8. RoomKept' /\ OneAdmitted' /\ FileSays'
  BY <1>4, <1>6 DEF StudentInv, RoomKept, OneAdmitted, FileSays
<1>9. FileFollows'
  <2> SUFFICES ASSUME Unmarked({"file", "crash"})', Admitted # {}, application.status # "ADMITTED"
               PROVE  \E j \in Offices : office'[j].op = "close"
    BY <1>4 DEF FileFollows, Doing
  <2>1. PICK j \in Offices : office[j].op = "close"
    BY <1>6 DEF StudentInv, FileFollows, Doing
  <2>2. "crash" \notin studentMarks'
    BY DEF Unmarked
  <2> QED
    BY <1>2, <2>1, <2>2
<1> QED
  BY <1>3, <1>5, <1>7, <1>8, <1>9 DEF StudentInv

LEMMA OfficeTyped ==
    ASSUME StudentInv, NEW k \in Offices
    PROVE  /\ StudentTypeOK /\ office \in [Offices -> OfficeType] /\ office[k] \in OfficeType
           /\ pupils \in Seq(PupilType)
BY DEF StudentInv, StudentTypeOK

LEMMA AskAdmitStep ==
    ASSUME StudentInv, NEW k \in Offices, NEW from \in {0, 1}, NEW st \in Streams, AskAdmit(k, from, st)
    PROVE  StudentInv'
<1>1. PICK d : d = [NoRequest EXCEPT !.op = "admit", !.from = from, !.st = st]
  OBVIOUS
<1>2. d \in OfficeType /\ d.op = "admit"
  BY <1>1, NoRequestTyped DEF OfficeType
<1>3. office' = [office EXCEPT ![k] = d] /\ office[k].op = "idle"
      /\ UNCHANGED <<pupils, enrolled, application, studentMarks>>
  BY <1>1 DEF AskAdmit, Doing
<1> QED
  BY <1>2, <1>3, OfficeMoves

LEMMA AskFileStep ==
    ASSUME StudentInv, NEW k \in Offices, AskFile(k)
    PROVE  StudentInv'
<1>1. PICK d : d = [NoRequest EXCEPT !.op = "file"]
  OBVIOUS
<1>2. d \in OfficeType /\ d.op = "file"
  BY <1>1, NoRequestTyped DEF OfficeType
<1>3. office' = [office EXCEPT ![k] = d] /\ office[k].op = "idle"
      /\ UNCHANGED <<pupils, enrolled, application, studentMarks>>
  BY <1>1 DEF AskFile, Doing
<1> QED
  BY <1>2, <1>3, OfficeMoves

LEMMA AskSyncStep ==
    ASSUME StudentInv, NEW k \in Offices, NEW s \in DOMAIN pupils, AskSync(k, s)
    PROVE  StudentInv'
<1>1. PICK r : r = pupils[s].status
  OBVIOUS
<1>2. PICK d : d = [NoRequest EXCEPT !.op = "sync", !.s = s, !.status = r]
  OBVIOUS
<1>3. r \in Standings /\ s \in Nat
  <2>1. pupils[s] \in PupilType /\ s \in Nat
    BY OfficeTyped
  <2> QED
    BY <1>1, <2>1 DEF PupilType
<1>4. d \in OfficeType /\ d.op = "sync" /\ d.s = s
  BY <1>2, <1>3, NoRequestTyped DEF OfficeType
<1>5. office' = [office EXCEPT ![k] = d] /\ office[k].op = "idle"
      /\ UNCHANGED <<pupils, enrolled, application, studentMarks>>
  BY <1>1, <1>2 DEF AskSync, Doing
<1> QED
  BY <1>4, <1>5, OfficeMoves

LEMMA AskPlaceStep ==
    ASSUME StudentInv, NEW k \in Offices, NEW s \in DOMAIN pupils, NEW st \in Streams, AskPlace(k, s, st)
    PROVE  StudentInv'
<1>1. PICK d : d = [NoRequest EXCEPT !.op = "place", !.s = s, !.st = st]
  OBVIOUS
<1>2. s \in Nat
  BY OfficeTyped
<1>3. d \in OfficeType /\ d.op = "place" /\ d.s = s
  BY <1>1, <1>2, NoRequestTyped DEF OfficeType
<1>4. office' = [office EXCEPT ![k] = d] /\ office[k].op = "idle"
      /\ UNCHANGED <<pupils, enrolled, application, studentMarks>>
  BY <1>1 DEF AskPlace, Doing
<1> QED
  BY <1>3, <1>4, OfficeMoves

LEMMA ReadEnrolmentStep ==
    ASSUME StudentInv, NEW k \in Offices, ReadEnrolment(k)
    PROVE  StudentInv'
<1>1. PICK s, o : s = office[k].s /\ o = office[k]
  OBVIOUS
<1>2. o.op = "place" /\ s \in DOMAIN pupils /\ o \in OfficeType /\ o.s = s
  BY <1>1, OfficeTyped DEF ReadEnrolment, Doing, StudentTypeOK
<1>3. PICK y \in (IF ActiveYears(s) = {} THEN {0} ELSE ActiveYears(s)) :
        office' = [office EXCEPT ![k] = WithEnrolment(o, y)]
  BY <1>1 DEF ReadEnrolment
<1>4. PICK old : old = IF y = 0 THEN NotEnrolled ELSE enrolled[s][y]
  OBVIOUS
<1>5. enrolled[s] \in [Years -> EnrolmentType]
  BY <1>2, OfficeTyped DEF StudentTypeOK
<1>6. y \in Years \cup {0} /\ (y # 0 => y \in ActiveYears(s))
  BY <1>3 DEF ActiveYears
<1>7. old \in EnrolmentType /\ IF y = 0 THEN old = NotEnrolled ELSE y \in Years /\ old.status = "ACTIVE"
  BY <1>4, <1>5, <1>6, NoRequestTyped DEF ActiveYears
<1>8. PICK d : d = [o EXCEPT !.op = "write", !.y = y, !.old = old]
  OBVIOUS
<1>9. d \in OfficeType /\ d.op = "write" /\ d.y = y /\ d.old = old /\ d.s = s
  BY <1>2, <1>6, <1>7, <1>8 DEF OfficeType
<1>10. WithEnrolment(o, y) = d
  BY <1>2, <1>4, <1>8 DEF WithEnrolment
<1>11. office' = [office EXCEPT ![k] = d]
  BY <1>3, <1>10
<1>12. UNCHANGED <<pupils, enrolled, application, studentMarks>> /\ office[k].op = "place"
  BY <1>1, <1>2 DEF ReadEnrolment
<1> QED
  BY <1>2, <1>7, <1>9, <1>11, <1>12, OfficeMoves

LEMMA OfficeCrashStep ==
    ASSUME StudentInv, NEW k \in Offices, OfficeCrash(k)
    PROVE  StudentInv'
<1>1. office' = [office EXCEPT ![k] = NoRequest] /\ studentMarks' = studentMarks \cup {"crash"}
      /\ UNCHANGED <<pupils, enrolled, application>>
  BY DEF OfficeCrash
<1> QED
  BY <1>1, NoRequestTyped, OfficeMoves

LEMMA RoomForOne ==
    ASSUME NEW R, IsFiniteSet(R), NEW s, NEW R1 \in SUBSET (R \cup {s}), NEW n \in Nat,
           Cardinality(R \ {s}) < n
    PROVE  Cardinality(R1) <= n
<1>1. IsFiniteSet(R \ {s}) /\ Cardinality(R \ {s}) \in Nat
  BY FS_Subset, FS_CardinalityType
<1>2. PICK Q : Q = (R \ {s}) \cup {s}
  OBVIOUS
<1>3. IsFiniteSet(Q) /\ Cardinality(Q) = Cardinality(R \ {s}) + 1
  BY <1>1, <1>2, FS_AddElement
<1>4. R1 \subseteq Q
  BY <1>2
<1>5. Cardinality(R1) <= Cardinality(Q) /\ Cardinality(R1) \in Nat
  BY <1>3, <1>4, FS_Subset, FS_CardinalityType
<1> QED
  BY <1>1, <1>3, <1>5

LEMMA SmallerRoll ==
    ASSUME NEW R, IsFiniteSet(R), NEW R1 \in SUBSET R, NEW n \in Nat, Cardinality(R) <= n
    PROVE  Cardinality(R1) <= n
<1>1. Cardinality(R1) <= Cardinality(R) /\ Cardinality(R1) \in Nat /\ Cardinality(R) \in Nat
  BY FS_Subset, FS_CardinalityType
<1> QED
  BY <1>1

LEMMA CloseApplicationStep ==
    ASSUME StudentInv, NEW k \in Offices, CloseApplication(k)
    PROVE  StudentInv'
<1>1. PICK s : s = office[k].s
  OBVIOUS
<1>2. /\ office[k].op = "close" /\ application' = [status |-> "ADMITTED", pupil |-> s]
      /\ office' = [office EXCEPT ![k] = NoRequest]
      /\ UNCHANGED <<pupils, enrolled, studentMarks>>
  BY <1>1 DEF CloseApplication, Doing
<1>3. StudentTypeOK /\ office \in [Offices -> OfficeType] /\ s \in Admitted
  BY <1>1, <1>2 DEF StudentInv, StudentTypeOK, OfficesSound
<1>4. s \in Nat
  BY <1>3 DEF Admitted, StudentTypeOK
<1>5. office' \in [Offices -> OfficeType] /\ office'[k] = NoRequest
      /\ \A j \in Offices : j # k => office'[j] = office[j]
  BY <1>2, <1>3, NoRequestTyped
<1>6. /\ application' \in [status : {"OPEN", "DECLINED", "ADMITTED"}, pupil : Nat]
      /\ application'.status = "ADMITTED" /\ application'.pupil = s
  BY <1>2, <1>4
<1>7. StudentTypeOK'
  BY <1>2, <1>3, <1>5, <1>6, NoRequestTyped DEF StudentTypeOK
<1>8. Admitted' = Admitted /\ (\A st : Roll(st)' = Roll(st)) /\ \A names : Unmarked(names)' = Unmarked(names)
  BY <1>2 DEF Admitted, Roll, Unmarked
<1>9. OfficesSound'
  BY <1>5, <1>8, NoRequestTyped DEF StudentInv, OfficesSound
<1>10. \A p \in DOMAIN pupils' : PupilSound(p)'
  BY <1>2, PupilStands DEF StudentInv
<1>11. RoomKept' /\ OneAdmitted' /\ FileSays' /\ FileFollows'
  BY <1>3, <1>6, <1>8 DEF StudentInv, RoomKept, OneAdmitted, FileSays, FileFollows
<1> QED
  BY <1>7, <1>9, <1>10, <1>11 DEF StudentInv

LEMMA WriteFileStep ==
    ASSUME StudentInv, NEW k \in Offices, NEW status \in {"OPEN", "DECLINED"}, WriteFile(k, status)
    PROVE  StudentInv'
<1>1. /\ office[k].op = "file" /\ application' = [application EXCEPT !.status = status]
      /\ studentMarks' = studentMarks \cup (IF application.status = "ADMITTED" THEN {"file"} ELSE {})
      /\ office' = [office EXCEPT ![k] = NoRequest] /\ UNCHANGED <<pupils, enrolled>>
  BY DEF WriteFile, Doing, Mark
<1>2. /\ StudentTypeOK /\ office \in [Offices -> OfficeType]
      /\ application \in [status : {"OPEN", "DECLINED", "ADMITTED"}, pupil : Nat]
  BY DEF StudentInv, StudentTypeOK
<1>3. office' \in [Offices -> OfficeType] /\ office'[k] = NoRequest
      /\ \A j \in Offices : j # k => office'[j] = office[j]
  BY <1>1, <1>2, NoRequestTyped
<1>4. /\ application' \in [status : {"OPEN", "DECLINED", "ADMITTED"}, pupil : Nat]
      /\ application'.status # "ADMITTED"
  BY <1>1, <1>2
<1>5. studentMarks \subseteq studentMarks' /\ studentMarks' \subseteq studentMarks \cup {"file"}
  BY <1>1
<1>6. StudentTypeOK'
  BY <1>1, <1>2, <1>3, <1>4, <1>5, NoRequestTyped DEF StudentTypeOK
<1>7. Admitted' = Admitted /\ (\A st : Roll(st)' = Roll(st)) /\ \A names : Unmarked(names)' => Unmarked(names)
  BY <1>1, <1>5, MarksGrow DEF Admitted, Roll
<1>8. OfficesSound'
  BY <1>3, <1>7, NoRequestTyped DEF StudentInv, OfficesSound
<1>9. \A p \in DOMAIN pupils' : PupilSound(p)'
  BY <1>1, <1>5, PupilStands DEF StudentInv
<1>10. RoomKept' /\ OneAdmitted' /\ FileSays'
  BY <1>4, <1>7 DEF StudentInv, RoomKept, OneAdmitted, FileSays
<1>11. FileFollows'
  <2> SUFFICES ASSUME Unmarked({"file", "crash"})', Admitted # {}
               PROVE  \E j \in Offices : office'[j].op = "close"
    BY <1>7 DEF FileFollows, Doing
  <2>1. "file" \notin studentMarks' /\ application.status # "ADMITTED"
    BY <1>1 DEF Unmarked
  <2>2. PICK j \in Offices : office[j].op = "close"
    BY <1>7, <2>1 DEF StudentInv, FileFollows, Doing
  <2> QED
    BY <1>1, <1>3, <2>2
<1> QED
  BY <1>6, <1>8, <1>9, <1>10, <1>11 DEF StudentInv

LEMMA SyncStep ==
    ASSUME StudentInv, NEW k \in Offices, SyncFeeCustomer(k)
    PROVE  StudentInv'
<1>1. PICK s, b, x : /\ s = office[k].s /\ b = (office[k].status # "ACTIVE")
                     /\ x = [pupils[s] EXCEPT !.blocked = b]
  OBVIOUS
<1>2. /\ office[k].op = "sync" /\ pupils' = [pupils EXCEPT ![s] = x]
      /\ studentMarks' = studentMarks \cup (IF pupils[s].status # office[k].status THEN {"sync"} ELSE {})
      /\ office' = [office EXCEPT ![k] = NoRequest] /\ UNCHANGED <<enrolled, application>>
  BY <1>1 DEF SyncFeeCustomer, Doing, Mark
<1>3. /\ StudentTypeOK /\ office \in [Offices -> OfficeType] /\ pupils \in Seq(PupilType)
      /\ s \in DOMAIN pupils /\ pupils[s] \in PupilType
  BY <1>1, <1>2 DEF StudentInv, StudentTypeOK
<1>4. /\ x \in PupilType /\ x.blocked = b /\ x.status = pupils[s].status
      /\ x.stream = pupils[s].stream /\ x.from = pupils[s].from
  BY <1>1, <1>3 DEF PupilType
<1>5. /\ pupils' \in Seq(PupilType) /\ DOMAIN pupils' = DOMAIN pupils /\ Len(pupils') = Len(pupils)
      /\ pupils'[s] = x /\ \A p \in DOMAIN pupils : p # s => pupils'[p] = pupils[p]
  BY <1>2, <1>3, <1>4
<1>6. office' \in [Offices -> OfficeType] /\ office'[k] = NoRequest
      /\ \A j \in Offices : j # k => office'[j] = office[j]
  BY <1>2, <1>3, NoRequestTyped
<1>7. studentMarks \subseteq studentMarks' /\ studentMarks' \subseteq studentMarks \cup {"sync"}
  BY <1>2
<1>8. StudentTypeOK'
  BY <1>2, <1>3, <1>5, <1>6, <1>7, NoRequestTyped DEF StudentTypeOK
<1>9. Admitted' = Admitted /\ (\A st : Roll(st)' = Roll(st)) /\ \A names : Unmarked(names)' => Unmarked(names)
  BY <1>4, <1>5, <1>7, MarksGrow DEF Admitted, Roll
<1>10. OfficesSound'
  BY <1>6, <1>9, NoRequestTyped DEF StudentInv, OfficesSound
<1>11. ASSUME NEW p \in DOMAIN pupils' PROVE PupilSound(p)'
  <2>1. PupilSound(p)
    BY <1>5 DEF StudentInv
  <2>2. CASE p # s
    BY <1>2, <1>5, <1>7, <2>1, <2>2, PupilStands
  <2>3. CASE p = s
    <3>1. ActiveYears(s)' = ActiveYears(s) /\ enrolled'[s] = enrolled[s]
      BY <1>2 DEF ActiveYears
    <3>2. Unmarked({"sync"})' => pupils[s].status = office[k].status
      BY <1>2 DEF Unmarked
    <3>3. Unmarked({"sync"})' => (x.blocked <=> x.status # "ACTIVE")
      BY <1>1, <1>4, <3>2
    <3> QED
      BY <1>4, <1>5, <1>9, <2>1, <2>3, <3>1, <3>3 DEF PupilSound
  <2> QED
    BY <2>2, <2>3
<1>12. RoomKept' /\ OneAdmitted' /\ FileSays'
  BY <1>2, <1>9 DEF StudentInv, RoomKept, OneAdmitted, FileSays
<1>13. FileFollows'
  <2>1. \A j \in Offices : office[j].op = "close" => office'[j].op = "close"
    BY <1>2, <1>6
  <2> QED
    BY <1>2, <1>9, <2>1 DEF StudentInv, FileFollows, Doing
<1> QED
  BY <1>8, <1>10, <1>11, <1>12, <1>13 DEF StudentInv

LEMMA AdmitStep ==
    ASSUME StudentInv, NEW k \in Offices, Admit(k)
    PROVE  StudentInv'
<1>1. PICK from, st, n, x, row : /\ from = office[k].from /\ st = office[k].st /\ n = Len(pupils) + 1
        /\ x = [status |-> "ACTIVE", stream |-> st, blocked |-> FALSE, from |-> from]
        /\ row = [y \in Years |-> IF y = YearOf[st] THEN Enrolment(st) ELSE NotEnrolled]
  OBVIOUS
<1>2. PICK d : d = IF from = 1 THEN [NoRequest EXCEPT !.op = "close", !.s = n] ELSE NoRequest
  OBVIOUS
<1>3. /\ office[k].op = "admit" /\ pupils' = Append(pupils, x) /\ enrolled' = Append(enrolled, row)
      /\ studentMarks' = studentMarks \cup (IF ~Room(st, {}) THEN {"full"} ELSE {})
           \cup (IF from = 1 /\ Admitted # {} THEN {"twice"} ELSE {})
      /\ office' = [office EXCEPT ![k] = d] /\ UNCHANGED application
  BY <1>1, <1>2 DEF Admit, Doing, Mark, Admitted, Enrolment
<1>4. /\ StudentTypeOK /\ office \in [Offices -> OfficeType] /\ office[k] \in OfficeType
      /\ pupils \in Seq(PupilType) /\ enrolled \in Seq([Years -> EnrolmentType]) /\ Len(enrolled) = Len(pupils)
  BY DEF StudentInv, StudentTypeOK
<1>5. from \in {0, 1} /\ st \in Streams
  BY <1>1, <1>4 DEF OfficeType
<1>6. /\ x \in PupilType /\ x.status = "ACTIVE" /\ x.stream = st /\ x.blocked = FALSE /\ x.from = from
      /\ Enrolment(st) \in EnrolmentType /\ Enrolment(st).status = "ACTIVE"
  BY <1>1, <1>5 DEF PupilType, Standings, Enrolment, EnrolmentType
<1>7. /\ row \in [Years -> EnrolmentType] /\ row[YearOf[st]] = Enrolment(st)
      /\ \A y \in Years : row[y].status = "ACTIVE" => y = YearOf[st]
  BY <1>1, <1>5, <1>6, NoRequestTyped, YearsAre
<1>8. /\ pupils' \in Seq(PupilType) /\ DOMAIN pupils' = DOMAIN pupils \cup {n} /\ n \notin DOMAIN pupils
      /\ n \in Nat /\ pupils'[n] = x /\ \A p \in DOMAIN pupils : pupils'[p] = pupils[p]
  BY <1>1, <1>3, <1>4, <1>6
<1>9. /\ enrolled' \in Seq([Years -> EnrolmentType]) /\ Len(enrolled') = Len(pupils')
      /\ enrolled'[n] = row /\ \A p \in DOMAIN pupils : enrolled'[p] = enrolled[p]
  BY <1>1, <1>3, <1>4, <1>7
<1>10. /\ d \in OfficeType /\ d.op \in {"idle", "close"} /\ (d.op = "close" => from = 1 /\ d.s = n)
       /\ (from = 1 => d.op = "close")
  BY <1>2, <1>8, NoRequestTyped DEF OfficeType
<1>11. office' \in [Offices -> OfficeType] /\ office'[k] = d /\ \A j \in Offices : j # k => office'[j] = office[j]
  BY <1>3, <1>4, <1>10
<1>12. studentMarks \subseteq studentMarks' /\ studentMarks' \subseteq studentMarks \cup {"full", "twice"}
  BY <1>3
<1>13. StudentTypeOK'
  BY <1>3, <1>4, <1>8, <1>9, <1>10, <1>11, <1>12 DEF StudentTypeOK
<1>14. /\ Admitted' = (IF from = 1 THEN Admitted \cup {n} ELSE Admitted)
       /\ \A c : Roll(c)' = IF c = st THEN Roll(st) \cup {n} ELSE Roll(c)
       /\ n \notin Roll(st)
  BY <1>6, <1>8 DEF Admitted, Roll
<1>15. OfficesSound'
  BY <1>10, <1>11, <1>14 DEF StudentInv, OfficesSound
<1>16. \A names : Unmarked(names)' => Unmarked(names)
  BY <1>12, MarksGrow
<1>17. ASSUME NEW p \in DOMAIN pupils' PROVE PupilSound(p)'
  <2>1. CASE p \in DOMAIN pupils
    BY <1>8, <1>9, <1>12, <2>1, PupilStands DEF StudentInv
  <2>2. CASE p = n
    <3>1. pupils'[n] = x /\ enrolled'[n] = row /\ \A y \in ActiveYears(n)' : y = YearOf[st]
      BY <1>7, <1>8, <1>9 DEF ActiveYears
    <3> QED
      BY <1>6, <1>7, <2>2, <3>1 DEF PupilSound
  <2> QED
    BY <1>8, <2>1, <2>2
<1>18. RoomKept'
  <2> SUFFICES ASSUME Unmarked({"full", "back"})', NEW c \in Streams
               PROVE  Cardinality(Roll(c)') <= Capacity[c]
    BY DEF RoomKept
  <2>1. Room(st, {}) /\ Cardinality(Roll(c)) <= Capacity[c]
    <3>1. Room(st, {})
      BY <1>3 DEF Unmarked
    <3> QED
      BY <1>16, <3>1 DEF StudentInv, RoomKept
  <2>2. CASE c = st
    <3>1. Roll(st) \ {} = Roll(st) \ {n}
      BY <1>14
    <3>2. Cardinality(Roll(st) \ {n}) < Capacity[st]
      BY <2>1, <3>1 DEF Room
    <3>3. Roll(c)' \in SUBSET (Roll(st) \cup {n}) /\ IsFiniteSet(Roll(st)) /\ Capacity[st] \in Nat
      BY <1>4, <1>5, <1>14, <2>2, RollFinite, YearsAre
    <3> QED
      BY <2>2, <3>2, <3>3, RoomForOne
  <2>3. CASE c # st
    BY <1>14, <2>1, <2>3
  <2> QED
    BY <2>2, <2>3
<1>19. OneAdmitted'
  <2> SUFFICES ASSUME Unmarked({"twice"})' PROVE \A a, b \in Admitted' : a = b
    BY DEF OneAdmitted
  <2>1. from = 1 => Admitted = {}
    BY <1>3 DEF Unmarked
  <2>2. \A a, b \in Admitted : a = b
    BY <1>16 DEF StudentInv, OneAdmitted
  <2> QED
    BY <1>14, <2>1, <2>2
<1>20. FileSays'
  BY <1>3, <1>14 DEF StudentInv, FileSays
<1>21. FileFollows'
  <2> SUFFICES ASSUME Unmarked({"file", "crash"})', Admitted' # {}, application.status # "ADMITTED"
               PROVE  \E j \in Offices : office'[j].op = "close"
    BY <1>3 DEF FileFollows, Doing
  <2>1. CASE from = 1
    BY <1>10, <1>11, <2>1
  <2>2. CASE from # 1
    <3>1. PICK j \in Offices : office[j].op = "close"
      BY <1>14, <1>16, <2>2 DEF StudentInv, FileFollows, Doing
    <3> QED
      BY <1>3, <1>11, <3>1
  <2> QED
    BY <2>1, <2>2
<1> QED
  BY <1>13, <1>15, <1>17, <1>18, <1>19, <1>20, <1>21 DEF StudentInv

\* A placement leaves the enrolment in the class the only active one, if the one that was
\* read was.
LEMMA PlacedIs ==
    ASSUME NEW e \in [Years -> EnrolmentType], NEW y \in Years \cup {0}, NEW st \in Streams, NEW old
    PROVE  /\ Placed(e, y, old, st) \in [Years -> EnrolmentType]
           /\ (y = YearOf[st] => e[y].status = "ACTIVE") => Placed(e, y, old, st)[YearOf[st]] = Enrolment(st)
           /\ \A i \in Years : i # YearOf[st] /\ Placed(e, y, old, st)[i].status = "ACTIVE"
                 => i # y /\ e[i].status = "ACTIVE"
<1>1. YearOf[st] \in Years /\ YearOf[st] # 0
  BY YearsAre
<1>2. Enrolment(st) \in EnrolmentType
  BY DEF Enrolment, EnrolmentType
<1>3. CASE y = YearOf[st]
  <2>1. PICK x : x = [e[y] EXCEPT !.stream = st]
    OBVIOUS
  <2>2. x \in EnrolmentType /\ (e[y].status = "ACTIVE" => x = Enrolment(st))
    BY <1>1, <1>3, <2>1 DEF EnrolmentType, Enrolment
  <2>3. Placed(e, y, old, st) = [e EXCEPT ![y] = x]
    BY <1>3, <2>1 DEF Placed
  <2> QED
    BY <1>1, <1>3, <2>2, <2>3
<1>4. CASE y # YearOf[st]
  <2>1. PICK r : r = IF GradeOf[old] = GradeOf[st] THEN "REPEATED" ELSE "PROMOTED"
    OBVIOUS
  <2>2. r \in {"REPEATED", "PROMOTED"}
    BY <2>1
  <2>3. PICK x : x = [e[y] EXCEPT !.status = r]
    OBVIOUS
  <2>4. y \in Years => x \in EnrolmentType /\ x.status = r
    BY <2>2, <2>3 DEF EnrolmentType
  <2>5. PICK q : q = [i \in Years |-> IF i = YearOf[st] THEN Enrolment(st) ELSE IF i = y THEN x ELSE e[i]]
    OBVIOUS
  <2>6. Placed(e, y, old, st) = q
    <3>1. Placed(e, y, old, st) =
             [i \in Years |-> IF i = YearOf[st] THEN Enrolment(st)
                              ELSE IF i = y THEN [e[i] EXCEPT !.status = r] ELSE e[i]]
      BY <1>4, <2>1 DEF Placed, Enrolment
    <3> QED
      BY <2>3, <2>5, <3>1
  <2>7. /\ q \in [Years -> EnrolmentType] /\ q[YearOf[st]] = Enrolment(st)
        /\ \A i \in Years : i # YearOf[st] => q[i] = IF i = y THEN x ELSE e[i]
    BY <1>1, <1>2, <2>4, <2>5
  <2>8. y \in Years => x.status # "ACTIVE"
    BY <2>2, <2>4
  <2> QED
    BY <1>4, <2>6, <2>7, <2>8
<1> QED
  BY <1>3, <1>4

LEMMA WritePlaceStep ==
    ASSUME StudentInv, NEW k \in Offices, WritePlace(k)
    PROVE  StudentInv'
<1>1. PICK s, st, y, old, row, x :
        /\ s = office[k].s /\ st = office[k].st /\ y = office[k].y /\ old = office[k].old
        /\ row = Placed(enrolled[s], y, old.stream, st)
        /\ x = [pupils[s] EXCEPT !.stream = st]
  OBVIOUS
<1>2. /\ office[k].op = "write" /\ enrolled' = [enrolled EXCEPT ![s] = row] /\ pupils' = [pupils EXCEPT ![s] = x]
      /\ studentMarks' = studentMarks \cup (IF ~Room(st, {s}) THEN {"full"} ELSE {})
           \cup (IF pupils[s].status # "ACTIVE" THEN {"left"} ELSE {})
           \cup (IF (IF y = 0 THEN ActiveYears(s) # {} ELSE enrolled[s][y] # old) THEN {"moved"} ELSE {})
      /\ office' = [office EXCEPT ![k] = NoRequest] /\ UNCHANGED application
  BY <1>1 DEF WritePlace, Doing, Mark
<1>3. /\ StudentTypeOK /\ office \in [Offices -> OfficeType] /\ office[k] \in OfficeType
      /\ pupils \in Seq(PupilType) /\ enrolled \in Seq([Years -> EnrolmentType]) /\ Len(enrolled) = Len(pupils)
      /\ s \in DOMAIN pupils
  BY <1>1, <1>2 DEF StudentInv, StudentTypeOK
<1>4. st \in Streams /\ y \in Years \cup {0} /\ IF y = 0 THEN old = NotEnrolled ELSE y \in Years /\ old.status = "ACTIVE"
  <2>1. office[k] \in OfficeType /\ office[k].op = "write"
    BY <1>2, <1>3
  <2>2. st \in Streams /\ y \in Years \cup {0}
    BY <1>1, <2>1 DEF OfficeType
  <2>3. IF office[k].y = 0 THEN office[k].old = NotEnrolled
        ELSE office[k].y \in Years /\ office[k].old.status = "ACTIVE"
    BY <2>1 DEF StudentInv, OfficesSound
  <2> QED
    BY <1>1, <2>2, <2>3
<1>5. enrolled[s] \in [Years -> EnrolmentType] /\ pupils[s] \in PupilType /\ s \in DOMAIN enrolled
  BY <1>3
<1>6. /\ x \in PupilType /\ x.stream = st /\ x.status = pupils[s].status
      /\ x.blocked = pupils[s].blocked /\ x.from = pupils[s].from
  BY <1>1, <1>4, <1>5 DEF PupilType
<1>7. /\ row \in [Years -> EnrolmentType]
      /\ (y = YearOf[st] => enrolled[s][y].status = "ACTIVE") => row[YearOf[st]] = Enrolment(st)
      /\ \A i \in Years : i # YearOf[st] /\ row[i].status = "ACTIVE" => i # y /\ enrolled[s][i].status = "ACTIVE"
  BY <1>1, <1>4, <1>5, PlacedIs
<1>8. /\ pupils' \in Seq(PupilType) /\ DOMAIN pupils' = DOMAIN pupils /\ Len(pupils') = Len(pupils)
      /\ pupils'[s] = x /\ \A p \in DOMAIN pupils : p # s => pupils'[p] = pupils[p]
  BY <1>2, <1>3, <1>6
<1>9. /\ enrolled' \in Seq([Years -> EnrolmentType]) /\ Len(enrolled') = Len(enrolled)
      /\ enrolled'[s] = row /\ \A p \in DOMAIN pupils : p # s => enrolled'[p] = enrolled[p]
  BY <1>2, <1>3, <1>5, <1>7
<1>10. office' \in [Offices -> OfficeType] /\ office'[k] = NoRequest
       /\ \A j \in Offices : j # k => office'[j] = office[j]
  BY <1>2, <1>3, NoRequestTyped
<1>11. studentMarks \subseteq studentMarks' /\ studentMarks' \subseteq studentMarks \cup {"full", "left", "moved"}
  BY <1>2
<1>12. StudentTypeOK'
  BY <1>2, <1>3, <1>8, <1>9, <1>10, <1>11, NoRequestTyped DEF StudentTypeOK
<1>13. Admitted' = Admitted
  BY <1>6, <1>8 DEF Admitted
<1>14. \A names : Unmarked(names)' => Unmarked(names)
  BY <1>11, MarksGrow
<1>15. OfficesSound'
  BY <1>10, <1>13, NoRequestTyped DEF StudentInv, OfficesSound
<1>16. PupilSound(s)'
  <2>1. PupilSound(s)
    BY <1>3 DEF StudentInv
  <2>2. Unmarked({"sync"})' => (pupils'[s].blocked <=> pupils'[s].status # "ACTIVE")
    BY <1>6, <1>8, <1>14, <2>1 DEF PupilSound
  <2>3. ASSUME Unmarked({"moved", "left"})'
        PROVE  /\ \A i \in ActiveYears(s)' : i = YearOf[st]
               /\ pupils'[s].status # "LEFT"
               /\ row[YearOf[st]] = Enrolment(st)
    <3>1. /\ pupils[s].status = "ACTIVE"
          /\ IF y = 0 THEN ActiveYears(s) = {} ELSE enrolled[s][y] = old
      BY <1>2, <2>3 DEF Unmarked
    <3>2. \A i, j \in ActiveYears(s) : i = j
      BY <1>14, <2>1, <2>3 DEF PupilSound
    <3>3. ActiveYears(s) \subseteq {y}
      BY <1>4, <3>1, <3>2 DEF ActiveYears
    <3>4. \A i \in ActiveYears(s)' : i = YearOf[st]
      BY <1>7, <1>9, <3>3 DEF ActiveYears
    <3>5. y = YearOf[st] => enrolled[s][y].status = "ACTIVE"
      BY <1>4, <3>1, YearsAre
    <3> QED
      BY <1>6, <1>7, <1>8, <3>1, <3>4, <3>5
  <2>4. Unmarked({"moved", "left", "back"})' => Unmarked({"moved", "left"})'
    BY DEF Unmarked
  <2>5. pupils'[s].stream = st /\ enrolled'[s] = row
    BY <1>6, <1>8, <1>9
  <2> QED
    BY <2>2, <2>3, <2>4, <2>5 DEF PupilSound
<1>17. ASSUME NEW p \in DOMAIN pupils' PROVE PupilSound(p)'
  <2>1. CASE p # s
    BY <1>8, <1>9, <1>11, <2>1, PupilStands DEF StudentInv
  <2> QED
    BY <1>16, <2>1
<1>18. RoomKept'
  <2> SUFFICES ASSUME Unmarked({"full", "back"})', NEW c \in Streams
               PROVE  Cardinality(Roll(c)') <= Capacity[c]
    BY DEF RoomKept
  <2>1. Room(st, {s})
    BY <1>2 DEF Unmarked
  <2>2. Cardinality(Roll(c)) <= Capacity[c] /\ IsFiniteSet(Roll(c)) /\ Capacity[c] \in Nat
    BY <1>3, <1>14, RollFinite, YearsAre DEF StudentInv, RoomKept
  <2>3. CASE c = st
    <3>1. Roll(c)' \in SUBSET (Roll(c) \cup {s})
      BY <1>8 DEF Roll
    <3>2. Cardinality(Roll(c) \ {s}) < Capacity[c]
      BY <2>1, <2>3 DEF Room
    <3> QED
      BY <2>2, <3>1, <3>2, RoomForOne
  <2>4. CASE c # st
    <3>1. Roll(c)' \in SUBSET Roll(c)
      BY <1>6, <1>8, <2>4 DEF Roll
    <3> QED
      BY <2>2, <3>1, SmallerRoll
  <2> QED
    BY <2>3, <2>4
<1>19. OneAdmitted' /\ FileSays'
  BY <1>2, <1>13, <1>14 DEF StudentInv, OneAdmitted, FileSays
<1>20. FileFollows'
  <2>1. \A j \in Offices : office[j].op = "close" => office'[j].op = "close"
    BY <1>2, <1>10
  <2> QED
    BY <1>2, <1>13, <1>14, <2>1 DEF StudentInv, FileFollows, Doing
<1> QED
  BY <1>12, <1>15, <1>17, <1>18, <1>19, <1>20 DEF StudentInv

\* The enrolments of who leaves.
EndedRow(e) == [y \in Years |-> IF e[y].status = "ACTIVE" THEN [e[y] EXCEPT !.status = "LEFT"] ELSE e[y]]

LEMMA EndedIs ==
    ASSUME NEW e \in [Years -> EnrolmentType]
    PROVE  EndedRow(e) \in [Years -> EnrolmentType] /\ \A y \in Years : EndedRow(e)[y].status # "ACTIVE"
<1>1. ASSUME NEW y \in Years PROVE EndedRow(e)[y] \in EnrolmentType /\ EndedRow(e)[y].status # "ACTIVE"
  <2>1. PICK z : z = [e[y] EXCEPT !.status = "LEFT"]
    OBVIOUS
  <2>2. e[y] \in EnrolmentType /\ z \in EnrolmentType /\ z.status = "LEFT"
    BY <2>1 DEF EnrolmentType
  <2>3. EndedRow(e)[y] = IF e[y].status = "ACTIVE" THEN z ELSE e[y]
    BY <2>1 DEF EndedRow
  <2> QED
    BY <2>2, <2>3
<1>2. EndedRow(e) = [y \in Years |-> EndedRow(e)[y]]
  BY DEF EndedRow
<1> QED
  BY <1>1, <1>2

LEMMA StatusStep ==
    ASSUME StudentInv, NEW s \in DOMAIN pupils, NEW status \in Standings, SetStudentStatus(s, status)
    PROVE  StudentInv'
<1>0. PICK b : b = (status # "ACTIVE")
  BY Zenon
<1>1. PICK x, row, e :
        /\ x = [pupils[s] EXCEPT !.status = status, !.blocked = b]
        /\ e = enrolled[s] /\ row = EndedRow(e)
  OBVIOUS
<1>2. /\ pupils' = [pupils EXCEPT ![s] = x]
      /\ enrolled' = IF status # "LEFT" THEN enrolled ELSE [enrolled EXCEPT ![s] = row]
      /\ studentMarks' = studentMarks \cup
           (IF status # "LEFT" /\ pupils[s].status # "ACTIVE" /\ status # pupils[s].status THEN {"back"} ELSE {})
      /\ UNCHANGED <<application, office>>
  <2>1. /\ pupils' = [pupils EXCEPT ![s].status = status, ![s].blocked = status # "ACTIVE"]
        /\ enrolled' = IF status # "LEFT" THEN enrolled ELSE [enrolled EXCEPT ![s] = EndedRow(enrolled[s])]
        /\ studentMarks' = studentMarks \cup
             (IF status # "LEFT" /\ pupils[s].status # "ACTIVE" /\ status # pupils[s].status THEN {"back"} ELSE {})
        /\ UNCHANGED <<application, office>>
    BY DEF SetStudentStatus, Mark, EndedRow
  <2>2. pupils \in Seq(PupilType) /\ pupils[s] \in PupilType
    BY DEF StudentInv, StudentTypeOK
  <2>3. pupils' = [pupils EXCEPT ![s] = x]
    BY <1>0, <1>1, <2>1, <2>2
  <2> QED
    BY <1>1, <2>1, <2>3
<1>3. /\ StudentTypeOK /\ pupils \in Seq(PupilType) /\ enrolled \in Seq([Years -> EnrolmentType])
      /\ Len(enrolled) = Len(pupils) /\ pupils[s] \in PupilType /\ e \in [Years -> EnrolmentType] /\ s \in DOMAIN enrolled
  BY <1>1 DEF StudentInv, StudentTypeOK
<1>4. x \in PupilType /\ x.status = status /\ x.stream = pupils[s].stream /\ x.from = pupils[s].from /\ x.blocked = b
  BY <1>0, <1>1, <1>3 DEF PupilType
<1>5. row \in [Years -> EnrolmentType] /\ \A y \in Years : row[y].status # "ACTIVE"
  BY <1>1, <1>3, EndedIs
<1>6. /\ pupils' \in Seq(PupilType) /\ DOMAIN pupils' = DOMAIN pupils /\ Len(pupils') = Len(pupils)
      /\ pupils'[s] = x /\ \A p \in DOMAIN pupils : p # s => pupils'[p] = pupils[p]
  BY <1>2, <1>3, <1>4
<1>7. /\ enrolled' \in Seq([Years -> EnrolmentType]) /\ Len(enrolled') = Len(enrolled)
      /\ enrolled'[s] = (IF status # "LEFT" THEN enrolled[s] ELSE row)
      /\ \A p \in DOMAIN pupils : p # s => enrolled'[p] = enrolled[p]
  <2>1. CASE status # "LEFT"
    BY <1>2, <1>3, <2>1
  <2>2. CASE status = "LEFT"
    <3>1. enrolled' = [enrolled EXCEPT ![s] = row]
      BY <1>2, <2>2
    <3>2. DOMAIN enrolled = DOMAIN pupils
      BY <1>3
    <3> QED
      BY <1>3, <1>5, <2>2, <3>1, <3>2
  <2> QED
    BY <2>1, <2>2
<1>8. studentMarks \subseteq studentMarks' /\ studentMarks' \subseteq studentMarks \cup {"back"}
  BY <1>2
<1>9. StudentTypeOK'
  BY <1>2, <1>3, <1>6, <1>7, <1>8 DEF StudentTypeOK
<1>10. Admitted' = Admitted
  BY <1>4, <1>6 DEF Admitted
<1>11. \A names : Unmarked(names)' => Unmarked(names)
  BY <1>8, MarksGrow
<1>12. OfficesSound'
  BY <1>2, <1>10 DEF StudentInv, OfficesSound
<1>13. PupilSound(s)'
  <2>1. PupilSound(s)
    BY DEF StudentInv
  <2>2. pupils'[s].blocked <=> pupils'[s].status # "ACTIVE"
    BY <1>0, <1>4, <1>6
  <2>3. CASE status = "LEFT"
    <3>1. ActiveYears(s)' = {}
      BY <1>5, <1>7, <2>3 DEF ActiveYears
    <3> QED
      BY <1>4, <1>6, <2>2, <2>3, <3>1 DEF PupilSound
  <2>4. CASE status # "LEFT"
    <3>1. ActiveYears(s)' = ActiveYears(s) /\ enrolled'[s] = enrolled[s]
      BY <1>7, <2>4 DEF ActiveYears
    <3>2. Unmarked({"moved", "left", "back"})' => pupils[s].status # "LEFT"
      BY <1>2, <2>4 DEF Unmarked
    <3> QED
      BY <1>4, <1>6, <1>11, <2>1, <2>2, <2>4, <3>1, <3>2 DEF PupilSound
  <2> QED
    BY <2>3, <2>4
<1>14. ASSUME NEW p \in DOMAIN pupils' PROVE PupilSound(p)'
  <2>1. CASE p # s
    BY <1>6, <1>7, <1>8, <2>1, PupilStands DEF StudentInv
  <2> QED
    BY <1>13, <2>1
<1>15. RoomKept'
  <2> SUFFICES ASSUME Unmarked({"full", "back"})', NEW c \in Streams
               PROVE  Cardinality(Roll(c)') <= Capacity[c]
    BY DEF RoomKept
  <2>1. status = "ACTIVE" => pupils[s].status = "ACTIVE"
    BY <1>2 DEF Unmarked
  <2>2. Cardinality(Roll(c)) <= Capacity[c] /\ IsFiniteSet(Roll(c)) /\ Capacity[c] \in Nat
    BY <1>3, <1>11, RollFinite, YearsAre DEF StudentInv, RoomKept
  <2>3. Roll(c)' \in SUBSET Roll(c)
    BY <1>4, <1>6, <2>1 DEF Roll
  <2> QED
    BY <2>2, <2>3, SmallerRoll
<1>16. OneAdmitted' /\ FileSays' /\ FileFollows'
  BY <1>2, <1>10, <1>11 DEF StudentInv, OneAdmitted, FileSays, FileFollows, Doing
<1> QED
  BY <1>9, <1>12, <1>14, <1>15, <1>16 DEF StudentInv

LEMMA StudentStep == StudentInv /\ [StudentNext]_studentVars => StudentInv'
<1> SUFFICES ASSUME StudentInv, [StudentNext]_studentVars PROVE StudentInv'
  OBVIOUS
<1>1. CASE StudentNext
  BY <1>1, AskAdmitStep, AdmitStep, CloseApplicationStep, OfficeCrashStep, AskFileStep, WriteFileStep,
     AskPlaceStep, AskSyncStep, ReadEnrolmentStep, WritePlaceStep, SyncStep, StatusStep DEF StudentNext
<1>2. CASE UNCHANGED studentVars
  <2>1. UNCHANGED <<pupils, enrolled, application, office, studentMarks>>
    BY <1>2 DEF studentVars
  <2>2. /\ StudentTypeOK' = StudentTypeOK /\ OfficesSound' = OfficesSound /\ RoomKept' = RoomKept
        /\ OneAdmitted' = OneAdmitted /\ FileSays' = FileSays /\ FileFollows' = FileFollows
    BY <2>1 DEF StudentTypeOK, OfficesSound, RoomKept, OneAdmitted, FileSays, FileFollows, Admitted, Roll,
       Unmarked, Doing
  <2>3. \A s \in DOMAIN pupils' : PupilSound(s)'
    BY <2>1, PupilStands DEF StudentInv
  <2> QED
    BY <2>2, <2>3 DEF StudentInv
<1> QED
  BY <1>1, <1>2

LEMMA AtMostOne ==
    ASSUME NEW S, \A x, y \in S : x = y
    PROVE  Cardinality(S) <= 1
<1>1. CASE S = {}
  BY <1>1, FS_EmptySet
<1>2. ASSUME NEW x \in S PROVE Cardinality(S) <= 1
  <2>1. S = {x}
    OBVIOUS
  <2> QED
    BY <2>1, FS_Singleton
<1> QED
  BY <1>1, <1>2

LEMMA StudentInvSound == StudentInv => StudentsSound
<1> SUFFICES ASSUME StudentInv PROVE StudentsSound
  OBVIOUS
<1>1. ASSUME NEW s \in DOMAIN pupils
      PROVE  /\ Unmarked({"moved", "left"}) =>
                   /\ Cardinality(ActiveYears(s)) <= 1
                   /\ pupils[s].status = "LEFT" => ActiveYears(s) = {}
             /\ Unmarked({"moved", "left", "back"}) /\ pupils[s].status # "LEFT" =>
                   enrolled[s][YearOf[pupils[s].stream]] = Enrolment(pupils[s].stream)
             /\ Unmarked({"sync"}) => (pupils[s].blocked <=> pupils[s].status # "ACTIVE")
  <2>1. PupilSound(s)
    BY DEF StudentInv
  <2> QED
    BY <2>1, AtMostOne DEF PupilSound
<1>2. Unmarked({"twice"}) => Cardinality(Admitted) <= 1
  BY AtMostOne DEF StudentInv, OneAdmitted
<1> QED
  BY <1>1, <1>2 DEF StudentsSound, StudentInv, RoomKept, FileSays, FileFollows, Enrolment

\* Whatever the classes, the pupils and the requests in between, and unless the marks say
\* otherwise: one active enrolment in the class of the card, the fee account blocked for
\* who is not active, no class over its capacity, one student to an application
\* (lib/students.ts, lib/admissions.ts).
THEOREM StudentsSoundAlways == StudentSpec => []StudentsSound
<1>1. StudentSpec => []StudentInv
  BY StudentInitInv, StudentStep, PTL DEF StudentSpec
<1> QED
  BY <1>1, StudentInvSound, PTL

-----------------------------------------------------------------------------
(* Exits: requests, dues and clearances of employees who leave.             *)

\* One exit in progress at a time.
OneInProgress == Spared({"both"}) => \A a, b \in InProgress : a = b

\* What the requests under way have read: a calculation between its two statements has
\* deleted the lines and knows the present dates, unless another joined it; a clearance is
\* of an approved exit, and one that saw the last section finds all the others cleared.
CalculationSound(n) ==
    /\ \A a, b \in Calculating(n) : a = b
    /\ \A k \in Calculating(n) : At(k, "insert") => exits[n].auto = <<>> /\ exitDesk[k].date = exits[n].dates
    /\ Calculating(n) = {} => exits[n].auto \in {<<>>, PenaltyOf(exits[n].dates)}
ClearingSound(k) ==
    At(k, "clear") =>
       /\ exits[exitDesk[k].n].status = "Approved"
       /\ exitDesk[k].last => exits[exitDesk[k].n].done \cup exitDesk[k].sections = Sections
VisitsSound ==
    /\ Spared({"together"}) => \A n \in DOMAIN exits : CalculationSound(n)
    /\ \A k \in ExitDesks : ClearingSound(k)

ClearedSound ==
    /\ \A n \in DOMAIN exits :
          /\ exits[n].cleared => exits[n].status = "Approved" /\ exits[n].done = Sections
          /\ Spared({"skew"}) /\ exits[n].done = Sections => exits[n].cleared
    /\ employee = "PENDING_FINAL_PAYMENT" <=> \E n \in DOMAIN exits : exits[n].cleared

DuesHandedOver ==
    Spared({"late", "again", "nowhere"}) =>
       \A n \in DOMAIN exits : IF exits[n].cleared THEN GotDues(n) ELSE LinesOf(n) = {}

OneOfAKind ==
    \A i, j \in DOMAIN payLines :
       i # j => payLines[i].period # payLines[j].period \/ payLines[i].due.type # payLines[j].due.type

ExitInv ==
    /\ ExitTypeOK /\ OneInProgress /\ VisitsSound /\ ClearedSound /\ DuesHandedOver /\ OneOfAKind

-----------------------------------------------------------------------------
\* What a step does to one exit and to one request.
OthersKept(n) ==
    /\ n \in DOMAIN exits /\ DOMAIN exits' = DOMAIN exits
    /\ exits'[n] \in ExitType
    /\ \A m \in DOMAIN exits : m # n => exits'[m] = exits[m]
VisitIs(k, v) ==
    /\ exitDesk' = [exitDesk EXCEPT ![k] = v] /\ v \in VisitType
    /\ v.op \notin {"idle", "create"} => v.n \in DOMAIN exits
DuesKept(n) == exits'[n].auto = exits[n].auto /\ exits'[n].manual = exits[n].manual
ClearanceKept(n) == exits'[n].done = exits[n].done /\ exits'[n].cleared = exits[n].cleared

LEMMA NoVisitTyped ==
    /\ NoVisit \in VisitType /\ NoVisit.op = "idle"
    /\ \A op \in {"create", "dates", "line", "recompute", "insert", "clear"}, n \in Nat :
          On(op, n) \in VisitType /\ On(op, n).op = op /\ On(op, n).n = n
<1>1. NoVisit \in VisitType /\ NoVisit.op = "idle"
  BY ExitAssumption DEF NoVisit, VisitType
<1>2. ASSUME NEW op \in {"create", "dates", "line", "recompute", "insert", "clear"}, NEW n \in Nat
      PROVE  On(op, n) \in VisitType /\ On(op, n).op = op /\ On(op, n).n = n
  <2>1. On(op, n) = [NoVisit EXCEPT !.op = op, !.n = n]
    BY DEF On
  <2> QED
    BY <1>1, <2>1 DEF VisitType
<1> QED
  BY <1>1, <1>2

LEMMA DuesTyped ==
    \A d \in ExitDates : PenaltyOf(d) \in Seq(DueType) /\ (PenaltyOf(d) = <<>> \/ Len(PenaltyOf(d)) = 1)
<1> SUFFICES ASSUME NEW d \in ExitDates
             PROVE  PenaltyOf(d) \in Seq(DueType) /\ (PenaltyOf(d) = <<>> \/ Len(PenaltyOf(d)) = 1)
  OBVIOUS
<1>1. DueOn[d] \in Nat
  BY ExitAssumption
<1>2. [type |-> "NOTICE_PENALTY", amount |-> DueOn[d]] \in DueType
  BY <1>1 DEF DueType
<1> QED
  BY <1>2 DEF PenaltyOf

LEMMA ExitsTyped ==
    ASSUME ExitTypeOK
    PROVE  /\ DOMAIN exits = 1 .. Len(exits) /\ Len(exits) \in Nat
           /\ \A n \in DOMAIN exits : /\ exits[n] \in ExitType
                                      /\ exits[n].auto \in Seq(DueType) /\ exits[n].manual \in Seq(DueType)
                                      /\ exits[n].done \subseteq Sections /\ exits[n].dates \in ExitDates
           /\ \A k \in ExitDesks : exitDesk[k] \in VisitType
           /\ DOMAIN payLines = 1 .. Len(payLines) /\ Len(payLines) \in Nat
           /\ \A i \in DOMAIN payLines : payLines[i] \in LineType /\ payLines[i].exit \in DOMAIN exits
<1>1. exits \in Seq(ExitType) /\ payLines \in Seq(LineType) /\ exitDesk \in [ExitDesks -> VisitType]
  BY DEF ExitTypeOK
<1>2. DOMAIN exits = 1 .. Len(exits) /\ Len(exits) \in Nat /\ \A n \in DOMAIN exits : exits[n] \in ExitType
  BY <1>1
<1>3. DOMAIN payLines = 1 .. Len(payLines) /\ Len(payLines) \in Nat /\ \A i \in DOMAIN payLines : payLines[i] \in LineType
  BY <1>1
<1>4. \A n \in DOMAIN exits : /\ exits[n].auto \in Seq(DueType) /\ exits[n].manual \in Seq(DueType)
                              /\ exits[n].done \subseteq Sections /\ exits[n].dates \in ExitDates
  BY <1>2 DEF ExitType
<1>5. \A i \in DOMAIN payLines : payLines[i].exit \in DOMAIN exits
  BY DEF ExitTypeOK
<1> QED
  BY <1>1, <1>2, <1>3, <1>4, <1>5

\* A due line less is still a list of due lines; of a list of at most one, none is left.
LEMMA RemoveAtTyped ==
    ASSUME NEW s \in Seq(DueType), NEW i \in DOMAIN s
    PROVE  RemoveAt(s, i) \in Seq(DueType) /\ (Len(s) = 1 => RemoveAt(s, i) = <<>>)
<1>1. DOMAIN s = 1 .. Len(s) /\ Len(s) \in Nat /\ i \in 1 .. Len(s)
  OBVIOUS
<1>2. SubSeq(s, 1, i-1) \in Seq(DueType)
  BY <1>1, SubSeqProperties
<1>3. SubSeq(s, i+1, Len(s)) \in Seq(DueType)
  BY <1>1, SubSeqProperties
<1>4. RemoveAt(s, i) \in Seq(DueType)
  BY <1>2, <1>3, ConcatProperties DEF RemoveAt
<1>5. ASSUME Len(s) = 1 PROVE RemoveAt(s, i) = <<>>
  <2>1. i = 1 /\ 1 \in Int /\ 0 \in Int /\ 2 \in Int /\ 0 < 1 /\ 1 < 2
    BY <1>1, <1>5
  <2>2. SubSeq(s, 1, 0) = <<>> /\ SubSeq(s, 2, 1) = <<>>
    BY <2>1, SubSeqEmpty
  <2>3. i - 1 = 0 /\ i + 1 = 2
    BY <2>1
  <2>4. RemoveAt(s, i) = <<>> \o <<>>
    BY <2>2, <2>3, <1>5 DEF RemoveAt
  <2> QED
    BY <2>4, <1>2, ConcatEmptySeq, EmptySeq
<1> QED
  BY <1>4, <1>5

\* One exit changed.
LEMMA ExitChanged ==
    ASSUME ExitTypeOK, NEW n \in DOMAIN exits, NEW e \in ExitType, exits' = [exits EXCEPT ![n] = e]
    PROVE  exits' \in Seq(ExitType) /\ OthersKept(n) /\ exits'[n] = e
<1>1. exits \in Seq(ExitType) /\ DOMAIN exits = 1 .. Len(exits) /\ Len(exits) \in Nat /\ n \in 1 .. Len(exits)
  BY ExitsTyped DEF ExitTypeOK
<1>2. exits' \in Seq(ExitType) /\ Len(exits') = Len(exits) /\ \A m \in 1 .. Len(exits) : exits'[m] = IF m = n THEN e ELSE exits[m]
  BY <1>1, ExceptSeq
<1>3. DOMAIN exits' = DOMAIN exits
  BY <1>1, <1>2
<1> QED
  BY <1>1, <1>2, <1>3 DEF OthersKept

LEMMA VisitChanged ==
    ASSUME ExitTypeOK, NEW k \in ExitDesks, NEW v, VisitIs(k, v), DOMAIN exits \subseteq DOMAIN exits'
    PROVE  /\ exitDesk' \in [ExitDesks -> VisitType] /\ exitDesk'[k] = v
           /\ \A j \in ExitDesks : j # k => exitDesk'[j] = exitDesk[j]
           /\ \A j \in ExitDesks : exitDesk'[j].op \notin {"idle", "create"} => exitDesk'[j].n \in DOMAIN exits'
<1>1. exitDesk \in [ExitDesks -> VisitType]
      /\ \A j \in ExitDesks : exitDesk[j].op \notin {"idle", "create"} => exitDesk[j].n \in DOMAIN exits
  BY DEF ExitTypeOK
<1>2. /\ exitDesk' = [exitDesk EXCEPT ![k] = v] /\ v \in VisitType
      /\ v.op \notin {"idle", "create"} => v.n \in DOMAIN exits
  BY DEF VisitIs
<1>3. exitDesk' \in [ExitDesks -> VisitType] /\ exitDesk'[k] = v
           /\ \A j \in ExitDesks : j # k => exitDesk'[j] = exitDesk[j]
  BY <1>1, <1>2
<1> QED
  BY <1>1, <1>2, <1>3

\* An action that changes an exit, in so many words.
LEMMA CreateExitDoes ==
    ASSUME ExitTypeOK, NEW k \in ExitDesks, NEW d \in ExitDates, CreateExit(k, d)
    PROVE  LET n == Len(exits) + 1
           IN  /\ exits' \in Seq(ExitType) /\ n \notin DOMAIN exits /\ DOMAIN exits' = DOMAIN exits \cup {n}
               /\ \A m \in DOMAIN exits : exits'[m] = exits[m]
               /\ exits'[n].dates = d /\ exits'[n].status = "Open" /\ exits'[n].auto = PenaltyOf(d)
               /\ exits'[n].done = {} /\ exits'[n].cleared = FALSE
<1> DEFINE e == [dates |-> d, status |-> "Open", auto |-> PenaltyOf(d), manual |-> <<>>, done |-> {}, cleared |-> FALSE]
<1>1. e \in ExitType
  BY DuesTyped DEF ExitType
<1>2. exits \in Seq(ExitType) /\ DOMAIN exits = 1 .. Len(exits) /\ Len(exits) \in Nat
  BY ExitsTyped DEF ExitTypeOK
<1>3. exits' = Append(exits, e)
  BY DEF CreateExit
<1>4. e.dates = d /\ e.status = "Open" /\ e.auto = PenaltyOf(d) /\ e.done = {} /\ e.cleared = FALSE
  OBVIOUS
<1> HIDE DEF e
<1>5. /\ exits' \in Seq(ExitType) /\ Len(exits') = Len(exits) + 1 /\ exits'[Len(exits) + 1] = e
      /\ \A m \in 1 .. Len(exits) : exits'[m] = exits[m]
  BY <1>1, <1>2, <1>3, AppendProperties
<1>6. DOMAIN exits' = 1 .. Len(exits) + 1
  BY <1>5, <1>2
<1> QED
  BY <1>2, <1>4, <1>5, <1>6

LEMMA AtWork ==
    ASSUME ExitTypeOK, NEW k \in ExitDesks, exitDesk[k].op \notin {"idle", "create"}
    PROVE  exitDesk[k].n \in DOMAIN exits /\ exitDesk[k].n \in Nat
BY ExitsTyped DEF ExitTypeOK

LEMMA SaveDatesDoes ==
    ASSUME ExitTypeOK, NEW k \in ExitDesks, NEW d \in ExitDates, SaveDates(k, d)
    PROVE  LET n == exitDesk[k].n
           IN  /\ exits' \in Seq(ExitType) /\ OthersKept(n) /\ DuesKept(n) /\ ClearanceKept(n)
               /\ exits'[n].dates = d /\ exits'[n].status = exits[n].status
               /\ VisitIs(k, On("recompute", n))
<1> DEFINE n == exitDesk[k].n
           e == [exits[n] EXCEPT !.dates = d]
<1>1. n \in DOMAIN exits /\ n \in Nat
  BY AtWork DEF SaveDates, At
<1>2. exits' = [exits EXCEPT ![n] = e] /\ exitDesk' = [exitDesk EXCEPT ![k] = On("recompute", n)]
  BY DEF SaveDates
<1>3. exits[n] \in ExitType
  BY <1>1, ExitsTyped
<1>4. /\ e \in ExitType /\ e.dates = d /\ e.status = exits[n].status /\ e.auto = exits[n].auto
      /\ e.manual = exits[n].manual /\ e.done = exits[n].done /\ e.cleared = exits[n].cleared
  BY <1>3 DEF ExitType
<1> HIDE DEF e
<1>5. exits' \in Seq(ExitType) /\ OthersKept(n) /\ exits'[n] = e
  BY <1>1, <1>2, <1>4, ExitChanged
<1>6. VisitIs(k, On("recompute", n))
  BY <1>1, <1>2, NoVisitTyped DEF VisitIs
<1> QED
  BY <1>4, <1>5, <1>6 DEF DuesKept, ClearanceKept

LEMMA ReadDatesDoes ==
    ASSUME ExitTypeOK, NEW k \in ExitDesks, ReadDates(k)
    PROVE  LET n == exitDesk[k].n
               v == [On("insert", n) EXCEPT !.date = exits[n].dates]
           IN  /\ exits' \in Seq(ExitType) /\ OthersKept(n) /\ ClearanceKept(n)
               /\ exits'[n].auto = <<>> /\ exits'[n].dates = exits[n].dates /\ exits'[n].status = exits[n].status
               /\ VisitIs(k, v) /\ v.op = "insert" /\ v.n = n /\ v.date = exits[n].dates
<1> DEFINE n == exitDesk[k].n
           e == [exits[n] EXCEPT !.auto = <<>>]
           v == [On("insert", n) EXCEPT !.date = exits[n].dates]
<1>1. n \in DOMAIN exits /\ n \in Nat
  BY AtWork DEF ReadDates, At
<1>2. exits' = [exits EXCEPT ![n] = e] /\ exitDesk' = [exitDesk EXCEPT ![k] = v]
  BY DEF ReadDates, LinesCleared
<1>3. exits[n] \in ExitType /\ exits[n].dates \in ExitDates
  BY <1>1, ExitsTyped
<1>4. /\ e \in ExitType /\ e.auto = <<>> /\ e.dates = exits[n].dates /\ e.status = exits[n].status
      /\ e.done = exits[n].done /\ e.cleared = exits[n].cleared
  BY <1>3, EmptySeq DEF ExitType
<1>5. v \in VisitType /\ v.op = "insert" /\ v.n = n /\ v.date = exits[n].dates
  <2>1. On("insert", n) \in VisitType /\ On("insert", n).op = "insert" /\ On("insert", n).n = n
    BY <1>1, NoVisitTyped
  <2> QED
    BY <2>1, <1>3 DEF VisitType
<1> HIDE DEF e, v
<1>6. exits' \in Seq(ExitType) /\ OthersKept(n) /\ exits'[n] = e
  BY <1>1, <1>2, <1>4, ExitChanged
<1>7. VisitIs(k, v)
  BY <1>1, <1>2, <1>5 DEF VisitIs
<1> QED
  BY <1>4, <1>5, <1>6, <1>7 DEF ClearanceKept, v

LEMMA InsertDuesDoes ==
    ASSUME ExitTypeOK, NEW k \in ExitDesks, InsertDues(k)
    PROVE  LET n == exitDesk[k].n
           IN  /\ exits' \in Seq(ExitType) /\ OthersKept(n) /\ ClearanceKept(n)
               /\ exits'[n].auto = exits[n].auto \o PenaltyOf(exitDesk[k].date)
               /\ exits'[n].dates = exits[n].dates /\ exits'[n].status = exits[n].status
               /\ VisitIs(k, NoVisit)
<1> DEFINE n == exitDesk[k].n
           a == exits[n].auto \o PenaltyOf(exitDesk[k].date)
           e == [exits[n] EXCEPT !.auto = a]
<1>1. n \in DOMAIN exits
  BY AtWork DEF InsertDues, At
<1>2. exits' = [exits EXCEPT ![n] = e] /\ exitDesk' = [exitDesk EXCEPT ![k] = NoVisit]
  BY DEF InsertDues
<1>3. exits[n] \in ExitType /\ exits[n].auto \in Seq(DueType) /\ exitDesk[k] \in VisitType
  BY <1>1, ExitsTyped
<1>4. PenaltyOf(exitDesk[k].date) \in Seq(DueType)
  BY <1>3, DuesTyped DEF VisitType
<1>5. a \in Seq(DueType)
  BY <1>3, <1>4, ConcatProperties
<1> HIDE DEF a
<1>6. /\ e \in ExitType /\ e.auto = a /\ e.dates = exits[n].dates /\ e.status = exits[n].status
      /\ e.done = exits[n].done /\ e.cleared = exits[n].cleared
  BY <1>3, <1>5 DEF ExitType
<1> HIDE DEF e
<1>7. exits' \in Seq(ExitType) /\ OthersKept(n) /\ exits'[n] = e
  BY <1>1, <1>2, <1>6, ExitChanged
<1>8. VisitIs(k, NoVisit)
  BY <1>2, NoVisitTyped DEF VisitIs
<1> QED
  BY <1>6, <1>7, <1>8 DEF ClearanceKept, a

LEMMA EditDueDoes ==
    ASSUME ExitTypeOK, NEW k \in ExitDesks, EditDue(k)
    PROVE  LET n == exitDesk[k].n
           IN  /\ exits' \in Seq(ExitType) /\ OthersKept(n) /\ ClearanceKept(n)
               /\ \/ exits'[n].auto = exits[n].auto
                  \/ Len(exits[n].auto) # 0 /\ (Len(exits[n].auto) = 1 => exits'[n].auto = <<>>)
               /\ exits'[n].dates = exits[n].dates /\ exits'[n].status = exits[n].status
               /\ VisitIs(k, NoVisit)
<1> DEFINE n == exitDesk[k].n
           WithManual(m) == [exits[n] EXCEPT !.manual = m]
           WithAuto(a) == [exits[n] EXCEPT !.auto = a]
<1>1. n \in DOMAIN exits
  BY AtWork DEF EditDue, At
<1>2. exits[n] \in ExitType /\ exits[n].auto \in Seq(DueType) /\ exits[n].manual \in Seq(DueType)
  BY <1>1, ExitsTyped
<1>3. /\ \/ \E type \in ManualTypes : exits' = [exits EXCEPT ![n] = WithManual(Append(exits[n].manual, [type |-> type, amount |-> 1]))]
         \/ \E i \in DOMAIN exits[n].manual : exits' = [exits EXCEPT ![n] = WithManual(RemoveAt(exits[n].manual, i))]
         \/ \E i \in DOMAIN exits[n].auto : exits' = [exits EXCEPT ![n] = WithAuto(RemoveAt(exits[n].auto, i))]
      /\ exitDesk' = [exitDesk EXCEPT ![k] = NoVisit]
  <2>1. exitDesk' = [exitDesk EXCEPT ![k] = NoVisit]
    BY Zenon DEF EditDue
  <2>2. CASE \E type \in ManualTypes : exits' = [exits EXCEPT ![n].manual = Append(@, [type |-> type, amount |-> 1])]
    <3>1. PICK type \in ManualTypes : exits' = [exits EXCEPT ![n].manual = Append(@, [type |-> type, amount |-> 1])]
      BY <2>2, Zenon
    <3>2. exits' = [exits EXCEPT ![n] = WithManual(Append(exits[n].manual, [type |-> type, amount |-> 1]))]
      BY <3>1
    <3> QED
      BY <2>1, <3>2
  <2>3. CASE \E i \in DOMAIN exits[n].manual : exits' = [exits EXCEPT ![n].manual = RemoveAt(@, i)]
    <3>1. PICK i \in DOMAIN exits[n].manual : exits' = [exits EXCEPT ![n].manual = RemoveAt(@, i)]
      BY <2>3, Zenon
    <3>2. exits' = [exits EXCEPT ![n] = WithManual(RemoveAt(exits[n].manual, i))]
      BY <3>1
    <3> QED
      BY <2>1, <3>2
  <2>4. CASE \E i \in DOMAIN exits[n].auto : exits' = [exits EXCEPT ![n].auto = RemoveAt(@, i)]
    <3>1. PICK i \in DOMAIN exits[n].auto : exits' = [exits EXCEPT ![n].auto = RemoveAt(@, i)]
      BY <2>4, Zenon
    <3>2. exits' = [exits EXCEPT ![n] = WithAuto(RemoveAt(exits[n].auto, i))]
      BY <3>1
    <3> QED
      BY <2>1, <3>2
  <2> QED
    BY <2>2, <2>3, <2>4, Zenon DEF EditDue
<1>4. \/ \E m \in Seq(DueType) : exits' = [exits EXCEPT ![n] = WithManual(m)]
      \/ \E a \in Seq(DueType) : /\ Len(exits[n].auto) # 0 /\ (Len(exits[n].auto) = 1 => a = <<>>)
                                 /\ exits' = [exits EXCEPT ![n] = WithAuto(a)]
  <2> HIDE DEF WithManual, WithAuto, n
  <2>1. CASE \E type \in ManualTypes : exits' = [exits EXCEPT ![n] = WithManual(Append(exits[n].manual, [type |-> type, amount |-> 1]))]
    <3>1. PICK type \in ManualTypes : exits' = [exits EXCEPT ![n] = WithManual(Append(exits[n].manual, [type |-> type, amount |-> 1]))]
      BY <2>1
    <3>2. [type |-> type, amount |-> 1] \in DueType
      BY DEF DueType
    <3>3. Append(exits[n].manual, [type |-> type, amount |-> 1]) \in Seq(DueType)
      BY <1>2, <3>2, AppendProperties
    <3> QED
      BY <3>1, <3>3
  <2>2. CASE \E i \in DOMAIN exits[n].manual : exits' = [exits EXCEPT ![n] = WithManual(RemoveAt(exits[n].manual, i))]
    BY <2>2, <1>2, RemoveAtTyped
  <2>3. CASE \E i \in DOMAIN exits[n].auto : exits' = [exits EXCEPT ![n] = WithAuto(RemoveAt(exits[n].auto, i))]
    <3>1. PICK i \in DOMAIN exits[n].auto : exits' = [exits EXCEPT ![n] = WithAuto(RemoveAt(exits[n].auto, i))]
      BY <2>3
    <3>2. RemoveAt(exits[n].auto, i) \in Seq(DueType) /\ (Len(exits[n].auto) = 1 => RemoveAt(exits[n].auto, i) = <<>>)
      BY <1>2, RemoveAtTyped
    <3>3. Len(exits[n].auto) # 0
      BY <1>2
    <3> QED
      BY <3>1, <3>2, <3>3
  <2> QED
    BY <1>3, <2>1, <2>2, <2>3
<1>5. VisitIs(k, NoVisit)
  BY <1>3, NoVisitTyped DEF VisitIs
<1>6. ASSUME NEW m \in Seq(DueType), exits' = [exits EXCEPT ![n] = WithManual(m)]
      PROVE  /\ exits' \in Seq(ExitType) /\ OthersKept(n) /\ ClearanceKept(n)
             /\ exits'[n].auto = exits[n].auto
             /\ exits'[n].dates = exits[n].dates /\ exits'[n].status = exits[n].status
  <2>1. /\ WithManual(m) \in ExitType /\ WithManual(m).auto = exits[n].auto /\ WithManual(m).dates = exits[n].dates
        /\ WithManual(m).status = exits[n].status /\ WithManual(m).done = exits[n].done
        /\ WithManual(m).cleared = exits[n].cleared
    BY <1>2 DEF ExitType
  <2> HIDE DEF WithManual
  <2>2. exits' \in Seq(ExitType) /\ OthersKept(n) /\ exits'[n] = WithManual(m)
    BY <1>1, <1>6, <2>1, ExitChanged
  <2> QED
    BY <2>1, <2>2 DEF ClearanceKept
<1>7. ASSUME NEW a \in Seq(DueType), exits' = [exits EXCEPT ![n] = WithAuto(a)]
      PROVE  /\ exits' \in Seq(ExitType) /\ OthersKept(n) /\ ClearanceKept(n)
             /\ exits'[n].auto = a
             /\ exits'[n].dates = exits[n].dates /\ exits'[n].status = exits[n].status
  <2>1. /\ WithAuto(a) \in ExitType /\ WithAuto(a).auto = a /\ WithAuto(a).dates = exits[n].dates
        /\ WithAuto(a).status = exits[n].status /\ WithAuto(a).done = exits[n].done
        /\ WithAuto(a).cleared = exits[n].cleared
    BY <1>2 DEF ExitType
  <2> HIDE DEF WithAuto
  <2>2. exits' \in Seq(ExitType) /\ OthersKept(n) /\ exits'[n] = WithAuto(a)
    BY <1>1, <1>7, <2>1, ExitChanged
  <2> QED
    BY <2>1, <2>2 DEF ClearanceKept
<1> QED
  <2> HIDE DEF WithManual, WithAuto, n
  <2> QED
    BY <1>4, <1>5, <1>6, <1>7 DEF n

LEMMA MoveExitDoes ==
    ASSUME ExitTypeOK, NEW n \in DOMAIN exits, MoveExit(n)
    PROVE  /\ exits' \in Seq(ExitType) /\ OthersKept(n) /\ DuesKept(n) /\ ClearanceKept(n)
           /\ exits[n].status # "Approved" /\ exits'[n].dates = exits[n].dates
<1> DEFINE With(st) == [exits[n] EXCEPT !.status = st]
<1>1. exits[n].status # "Approved" /\ \E st \in {"Open", "Pending", "Approved"} : exits' = [exits EXCEPT ![n] = With(st)]
  <2>1. CASE exits[n].status = "Open" /\ exits' = [exits EXCEPT ![n].status = "Pending"]
    <3>1. exits' = [exits EXCEPT ![n] = With("Pending")]
      BY <2>1
    <3> HIDE DEF With
    <3> QED
      BY <2>1, <3>1
  <2>2. CASE exits[n].status = "Pending" /\ \E st \in {"Open", "Approved"} : exits' = [exits EXCEPT ![n].status = st]
    <3>1. PICK st \in {"Open", "Approved"} : exits' = [exits EXCEPT ![n].status = st]
      BY <2>2, Zenon
    <3>2. exits' = [exits EXCEPT ![n] = With(st)]
      BY <3>1
    <3> HIDE DEF With
    <3> QED
      BY <2>2, <3>2
  <2> QED
    BY <2>1, <2>2, Zenon DEF MoveExit
<1>2. PICK st \in {"Open", "Pending", "Approved"} : exits' = [exits EXCEPT ![n] = With(st)]
  <2> HIDE DEF With
  <2> QED
    BY <1>1
<1>3. exits[n] \in ExitType
  BY ExitsTyped
<1>4. /\ With(st) \in ExitType /\ With(st).dates = exits[n].dates /\ With(st).auto = exits[n].auto
      /\ With(st).manual = exits[n].manual /\ With(st).done = exits[n].done /\ With(st).cleared = exits[n].cleared
  BY <1>3 DEF ExitType
<1> HIDE DEF With
<1>5. exits' \in Seq(ExitType) /\ OthersKept(n) /\ exits'[n] = With(st)
  BY <1>2, <1>4, ExitChanged
<1> QED
  BY <1>1, <1>4, <1>5 DEF DuesKept, ClearanceKept

LEMMA ClearSectionDoes ==
    ASSUME ExitTypeOK, NEW k \in ExitDesks, NEW n \in DOMAIN exits, NEW section \in Sections,
           ClearSection(k, n, section)
    PROVE  \E v \in VisitType :
              /\ VisitIs(k, v) /\ v.op = "clear" /\ v.n = n /\ v.sections = {section}
              /\ v.last => exits[n].done \cup {section} = Sections
<1> DEFINE last == (exits[n].done \cup {section} = Sections)
           period == IF payPeriod.open THEN payPeriod.no ELSE 0
           v == [On("clear", n) EXCEPT !.sections = {section}, !.last = last, !.period = period]
<1>1. n \in Nat /\ On("clear", n) \in VisitType /\ On("clear", n).op = "clear" /\ On("clear", n).n = n
  BY ExitsTyped, NoVisitTyped
<1>2. period \in Nat
  BY DEF ExitTypeOK
<1>3. exitDesk' = [exitDesk EXCEPT ![k] = v]
  BY DEF ClearSection
<1>4. last \in BOOLEAN /\ (last => exits[n].done \cup {section} = Sections)
  OBVIOUS
<1> HIDE DEF last, period
<1>5. v \in VisitType /\ v.op = "clear" /\ v.n = n /\ v.sections = {section} /\ v.last = last
  BY <1>1, <1>2, <1>4 DEF VisitType
<1> HIDE DEF v
<1>6. VisitIs(k, v)
  BY <1>3, <1>5 DEF VisitIs
<1> QED
  BY <1>4, <1>5, <1>6

LEMMA CommitSectionDoes ==
    ASSUME ExitTypeOK, NEW k \in ExitDesks, CommitSection(k)
    PROVE  LET n == exitDesk[k].n
           IN  /\ exits' \in Seq(ExitType) /\ OthersKept(n) /\ DuesKept(n)
               /\ exits'[n].done = exits[n].done \cup exitDesk[k].sections /\ exits'[n].cleared = exits[n].cleared
               /\ exits'[n].done \subseteq Sections
               /\ exits'[n].dates = exits[n].dates /\ exits'[n].status = exits[n].status
               /\ VisitIs(k, NoVisit)
<1> DEFINE n == exitDesk[k].n
           d == exits[n].done \cup exitDesk[k].sections
           e == [exits[n] EXCEPT !.done = d]
<1>1. n \in DOMAIN exits
  BY AtWork DEF CommitSection, At
<1>2. exits' = [exits EXCEPT ![n] = e] /\ exitDesk' = [exitDesk EXCEPT ![k] = NoVisit]
  BY DEF CommitSection
<1>3. exits[n] \in ExitType /\ exits[n].done \subseteq Sections /\ exitDesk[k] \in VisitType
  BY <1>1, ExitsTyped
<1>4. d \subseteq Sections
  BY <1>3 DEF VisitType
<1> HIDE DEF d
<1>5. /\ e \in ExitType /\ e.auto = exits[n].auto /\ e.manual = exits[n].manual /\ e.dates = exits[n].dates
      /\ e.status = exits[n].status /\ e.done = d /\ e.cleared = exits[n].cleared
  BY <1>3, <1>4 DEF ExitType
<1> HIDE DEF e
<1>6. exits' \in Seq(ExitType) /\ OthersKept(n) /\ exits'[n] = e
  BY <1>1, <1>2, <1>5, ExitChanged
<1>7. VisitIs(k, NoVisit)
  BY <1>2, NoVisitTyped DEF VisitIs
<1> QED
  BY <1>4, <1>5, <1>6, <1>7 DEF DuesKept, d

LEMMA CommitExitDoes ==
    ASSUME ExitTypeOK, NEW k \in ExitDesks, CommitExit(k)
    PROVE  LET n == exitDesk[k].n
           IN  /\ exits' \in Seq(ExitType) /\ OthersKept(n) /\ DuesKept(n)
               /\ exits'[n].done = Sections /\ exits'[n].cleared = TRUE
               /\ exits'[n].dates = exits[n].dates /\ exits'[n].status = exits[n].status
               /\ VisitIs(k, NoVisit)
<1> DEFINE n == exitDesk[k].n
           e == [exits[n] EXCEPT !.done = Sections, !.cleared = TRUE]
<1>1. n \in DOMAIN exits
  BY AtWork DEF CommitExit, At
<1>2. exits' = [exits EXCEPT ![n] = e] /\ exitDesk' = [exitDesk EXCEPT ![k] = NoVisit]
  BY DEF CommitExit
<1>3. exits[n] \in ExitType
  BY <1>1, ExitsTyped
<1>4. /\ e \in ExitType /\ e.auto = exits[n].auto /\ e.manual = exits[n].manual /\ e.dates = exits[n].dates
      /\ e.status = exits[n].status /\ e.done = Sections /\ e.cleared = TRUE
  BY <1>3 DEF ExitType
<1> HIDE DEF e
<1>5. exits' \in Seq(ExitType) /\ OthersKept(n) /\ exits'[n] = e
  BY <1>1, <1>2, <1>4, ExitChanged
<1>6. VisitIs(k, NoVisit)
  BY <1>2, NoVisitTyped DEF VisitIs
<1> QED
  BY <1>4, <1>5, <1>6 DEF DuesKept

LEMMA LinesDo ==
    ASSUME ExitTypeOK, NEW k \in ExitDesks, CommitExit(k)
    PROVE  LET n == exitDesk[k].n
               period == exitDesk[k].period
           IN  /\ n \in DOMAIN exits /\ Dues(n) \in Seq(DueType) /\ Len(Dues(n)) \in Nat /\ period \in Nat
               /\ period = 0 => payLines' = payLines
               /\ period # 0 =>
                     /\ payLines' \in Seq(LineType) /\ DOMAIN payLines' = 1 .. Len(payLines) + Len(Dues(n))
                     /\ Len(payLines') = Len(payLines) + Len(Dues(n))
                     /\ \A i \in 1 .. Len(payLines) : payLines'[i] = payLines[i]
                     /\ \A i \in 1 .. Len(Dues(n)) :
                           payLines'[Len(payLines) + i] = [period |-> period, exit |-> n, due |-> Dues(n)[i]]
                     /\ Distinct(Dues(n)) /\ \A i \in DOMAIN Dues(n) : Dues(n)[i].type \notin Taken(period)
<1> DEFINE n == exitDesk[k].n
           period == exitDesk[k].period
           dues == Dues(n)
           new == [i \in DOMAIN dues |-> [period |-> period, exit |-> n, due |-> dues[i]]]
<1>1. n \in DOMAIN exits /\ n \in Nat /\ exitDesk[k] \in VisitType
  BY AtWork, ExitsTyped DEF CommitExit, At
<1>2. period \in Nat
  BY <1>1 DEF VisitType
<1>3. dues \in Seq(DueType)
  BY <1>1, ExitsTyped, ConcatProperties DEF Dues
<1>4. DOMAIN dues = 1 .. Len(dues) /\ Len(dues) \in Nat /\ \A i \in DOMAIN dues : dues[i] \in DueType
  BY <1>3
<1>5. payLines' = payLines \o (IF period = 0 THEN <<>> ELSE new) /\ ~Refused(n, period)
  BY DEF CommitExit
<1>6. payLines \in Seq(LineType) /\ DOMAIN payLines = 1 .. Len(payLines) /\ Len(payLines) \in Nat
  BY ExitsTyped DEF ExitTypeOK
<1> HIDE DEF n, period, dues
<1>7. \A i \in 1 .. Len(dues) : [period |-> period, exit |-> n, due |-> dues[i]] \in LineType
  BY <1>1, <1>2, <1>4 DEF LineType
<1>8. new \in Seq(LineType) /\ Len(new) = Len(dues) /\ \A i \in 1 .. Len(dues) : new[i] = [period |-> period, exit |-> n, due |-> dues[i]]
  <2>1. new = [i \in 1 .. Len(dues) |-> [period |-> period, exit |-> n, due |-> dues[i]]]
    BY <1>4
  <2>2. new \in Seq(LineType)
    BY <2>1, <1>4, <1>7, IsASeq
  <2>3. Len(new) = Len(dues)
    BY <2>1, <1>4
  <2> QED
    BY <2>1, <2>2, <2>3
<1> HIDE DEF new
<1>9. ASSUME period = 0 PROVE payLines' = payLines
  BY <1>5, <1>6, <1>9, ConcatEmptySeq
<1>10. ASSUME period # 0
       PROVE  /\ payLines' \in Seq(LineType) /\ DOMAIN payLines' = 1 .. Len(payLines) + Len(dues)
              /\ Len(payLines') = Len(payLines) + Len(dues)
              /\ \A i \in 1 .. Len(payLines) : payLines'[i] = payLines[i]
              /\ \A i \in 1 .. Len(dues) :
                    payLines'[Len(payLines) + i] = [period |-> period, exit |-> n, due |-> dues[i]]
  <2>1. payLines' = payLines \o new
    BY <1>5, <1>10
  <2>2. /\ payLines' \in Seq(LineType) /\ Len(payLines') = Len(payLines) + Len(dues)
        /\ \A i \in 1 .. Len(payLines) + Len(dues) :
              payLines'[i] = IF i <= Len(payLines) THEN payLines[i] ELSE new[i - Len(payLines)]
    <3>1. /\ payLines \o new \in Seq(LineType) /\ Len(payLines \o new) = Len(payLines) + Len(new)
          /\ \A i \in 1 .. Len(payLines) + Len(new) :
                (payLines \o new)[i] = IF i <= Len(payLines) THEN payLines[i] ELSE new[i - Len(payLines)]
      <4>1. payLines \in Seq(LineType) /\ new \in Seq(LineType)
        BY <1>6, <1>8
      <4> QED
        BY <4>1, ConcatProperties
    <3> QED
      BY <2>1, <3>1, <1>8
  <2>3. DOMAIN payLines' = 1 .. Len(payLines) + Len(dues)
    BY <2>2
  <2>4. \A i \in 1 .. Len(payLines) : payLines'[i] = payLines[i]
    BY <2>2, <1>4, <1>6
  <2>5. ASSUME NEW i \in 1 .. Len(dues)
        PROVE  payLines'[Len(payLines) + i] = [period |-> period, exit |-> n, due |-> dues[i]]
    <3>1. /\ Len(payLines) + i \in 1 .. Len(payLines) + Len(dues) /\ ~(Len(payLines) + i <= Len(payLines))
          /\ Len(payLines) + i - Len(payLines) = i
      BY <1>4, <1>6
    <3>2. payLines'[Len(payLines) + i] = new[i]
      BY <2>2, <3>1
    <3> QED
      BY <3>2, <1>8
  <2> QED
    BY <2>2, <2>3, <2>4, <2>5
<1>11. ASSUME period # 0
       PROVE  Distinct(dues) /\ \A i \in DOMAIN dues : dues[i].type \notin Taken(period)
  <2>1. CASE dues = <<>>
    <3>1. DOMAIN dues = {}
      BY <2>1, <1>4
    <3> QED
      BY <3>1 DEF Distinct
  <2>2. CASE dues # <<>>
    BY <1>5, <1>11, <2>2 DEF Refused, dues
  <2> QED
    BY <2>1, <2>2
<1> QED
  BY <1>1, <1>2, <1>3, <1>4, <1>9, <1>10, <1>11 DEF n, period, dues

-----------------------------------------------------------------------------
\* What holds goes on holding as long as a step leaves alone what it is about.
LEMMA ExitMarksGrow ==
    ASSUME exitMarks \subseteq exitMarks', NEW names, Spared(names)'
    PROVE  Spared(names)
BY DEF Spared

LEMMA InProgressStands ==
    ASSUME exitMarks \subseteq exitMarks', OneInProgress, DOMAIN exits' = DOMAIN exits,
           \A m \in DOMAIN exits : exits[m].status = "Approved" => exits'[m].status = "Approved"
    PROVE  OneInProgress'
<1>1. InProgress' \subseteq InProgress
  BY DEF InProgress
<1>2. Spared({"both"})' => Spared({"both"})
  BY ExitMarksGrow
<1> QED
  BY <1>1, <1>2 DEF OneInProgress

LEMMA VisitsStand ==
    ASSUME ExitTypeOK, VisitsSound, exitMarks \subseteq exitMarks', NEW n \in DOMAIN exits, OthersKept(n),
           NEW k \in ExitDesks, NEW v, VisitIs(k, v),
           exits[n].status = "Approved" => exits'[n].status = "Approved",
           exits[n].done \subseteq exits'[n].done, exits'[n].done \subseteq Sections,
           exitDesk[k].op \in {"recompute", "insert"} => exitDesk[k].n = n,
           v.op \in {"recompute", "insert"} => v.n = n,
           ClearingSound(k)',
           Spared({"together"})' => CalculationSound(n)'
    PROVE  VisitsSound'
<1>1. /\ exitDesk'[k] = v /\ \A j \in ExitDesks : j # k => exitDesk'[j] = exitDesk[j]
      /\ \A j \in ExitDesks : exitDesk[j].op \notin {"idle", "create"} => exitDesk[j].n \in DOMAIN exits
      /\ DOMAIN exits' = DOMAIN exits /\ \A m \in DOMAIN exits : m # n => exits'[m] = exits[m]
  BY VisitChanged DEF OthersKept, ExitTypeOK
<1>2. ASSUME Spared({"together"})', NEW m \in DOMAIN exits, m # n PROVE CalculationSound(m)'
  <2>1. CalculationSound(m)
    BY <1>2, ExitMarksGrow DEF VisitsSound
  <2>2. Calculating(m)' = Calculating(m)
    BY <1>1, <1>2 DEF Calculating, At
  <2>3. \A j \in Calculating(m) : j # k
    BY <1>2 DEF Calculating, At
  <2>4. Calculating(m) \subseteq ExitDesks
    BY DEF Calculating
  <2> QED
    BY <1>1, <1>2, <2>1, <2>2, <2>3, <2>4 DEF CalculationSound, At
<1>3. ASSUME NEW j \in ExitDesks, j # k PROVE ClearingSound(j)'
  <2> SUFFICES ASSUME At(j, "clear")'
               PROVE  /\ exits'[exitDesk[j].n].status = "Approved"
                      /\ exitDesk[j].last => exits'[exitDesk[j].n].done \cup exitDesk[j].sections = Sections
    BY <1>1, <1>3 DEF ClearingSound
  <2>1. At(j, "clear") /\ exitDesk[j].n \in DOMAIN exits
    BY <1>1, <1>3 DEF At
  <2>2. /\ exits[exitDesk[j].n].status = "Approved"
        /\ exitDesk[j].last => exits[exitDesk[j].n].done \cup exitDesk[j].sections = Sections
    BY <2>1 DEF VisitsSound, ClearingSound
  <2>3. exitDesk[j].sections \subseteq Sections
    BY ExitsTyped DEF VisitType
  <2> QED
    BY <2>1, <2>2, <2>3, <1>1
<1> QED
  BY <1>1, <1>2, <1>3 DEF VisitsSound

LEMMA ClearedStands ==
    ASSUME exitMarks \subseteq exitMarks', ClearedSound, DOMAIN exits' = DOMAIN exits, employee' = employee,
           \A m \in DOMAIN exits : /\ exits[m].status = "Approved" => exits'[m].status = "Approved"
                                   /\ exits'[m].done = exits[m].done /\ exits'[m].cleared = exits[m].cleared
    PROVE  ClearedSound'
<1>1. Spared({"skew"})' => Spared({"skew"})
  BY ExitMarksGrow
<1> QED
  BY <1>1 DEF ClearedSound

LEMMA HandedOverStands ==
    ASSUME exitMarks \subseteq exitMarks', DuesHandedOver, DOMAIN exits' = DOMAIN exits, payLines' = payLines,
           \A m \in DOMAIN exits : /\ exits'[m].cleared = exits[m].cleared
                                   /\ exits[m].cleared /\ "late" \notin exitMarks' =>
                                         exits'[m].auto = exits[m].auto /\ exits'[m].manual = exits[m].manual
    PROVE  DuesHandedOver'
<1> SUFFICES ASSUME Spared({"late", "again", "nowhere"})', NEW m \in DOMAIN exits
             PROVE  IF exits'[m].cleared THEN GotDues(m)' ELSE LinesOf(m)' = {}
  BY DEF DuesHandedOver
<1>1. "late" \notin exitMarks' /\ Spared({"late", "again", "nowhere"})
  BY ExitMarksGrow DEF Spared
<1>2. IF exits[m].cleared THEN GotDues(m) ELSE LinesOf(m) = {}
  BY <1>1 DEF DuesHandedOver
<1>3. LinesOf(m)' = LinesOf(m)
  BY DEF LinesOf
<1>4. exits[m].cleared => Dues(m)' = Dues(m)
  BY <1>1 DEF Dues
<1>5. exits[m].cleared => (GotDues(m) => GotDues(m)')
  BY <1>3, <1>4 DEF GotDues
<1> QED
  BY <1>2, <1>3, <1>5

-----------------------------------------------------------------------------
LEMMA ExitInitInv == ExitInit => ExitInv
<1> SUFFICES ASSUME ExitInit PROVE ExitInv
  OBVIOUS
<1>1. exits = <<>> /\ payLines = <<>> /\ employee = "ACTIVE" /\ exitMarks = {} /\ payPeriod = [no |-> 1, open |-> TRUE]
      /\ \A k \in ExitDesks : exitDesk[k].op = "idle"
  BY NoVisitTyped DEF ExitInit
<1>2. DOMAIN exits = {} /\ DOMAIN payLines = {} /\ exits \in Seq(ExitType) /\ payLines \in Seq(LineType)
  BY <1>1, EmptySeq
<1>3. exitDesk \in [ExitDesks -> VisitType]
  BY NoVisitTyped DEF ExitInit
<1>4. ExitTypeOK
  <2>1. payPeriod \in [no : Nat \ {0}, open : BOOLEAN]
    BY <1>1
  <2> QED
    BY <1>1, <1>2, <1>3, <2>1 DEF ExitTypeOK
<1>5. InProgress = {}
  BY <1>2 DEF InProgress
<1>6. OneInProgress
  BY <1>5 DEF OneInProgress
<1>7. VisitsSound
  BY <1>1, <1>2 DEF VisitsSound, ClearingSound, At
<1>8. ClearedSound
  BY <1>1, <1>2 DEF ClearedSound
<1>9. DuesHandedOver /\ OneOfAKind
  BY <1>2 DEF DuesHandedOver, OneOfAKind
<1> QED
  BY <1>4, <1>6, <1>7, <1>8, <1>9 DEF ExitInv

LEMMA HeldStill ==
    ASSUME UNCHANGED <<exits, employee, payLines, exitMarks>>
    PROVE  /\ OneInProgress => OneInProgress'
           /\ ClearedSound => ClearedSound'
           /\ DuesHandedOver => DuesHandedOver'
           /\ OneOfAKind => OneOfAKind'
<1>1. OneInProgress => OneInProgress'
  BY DEF OneInProgress, InProgress, Spared
<1>2. ClearedSound => ClearedSound'
  BY DEF ClearedSound, Spared
<1>3. \A n : LinesOf(n)' = LinesOf(n) /\ (GotDues(n) => GotDues(n)')
  BY DEF GotDues, LinesOf, Dues
<1>4. DuesHandedOver => DuesHandedOver'
  BY <1>3 DEF DuesHandedOver, Spared
<1>5. OneOfAKind => OneOfAKind'
  BY DEF OneOfAKind
<1> QED
  BY <1>1, <1>2, <1>4, <1>5

\* Nothing but what a request has read, or the payroll period, changes.
LEMMA VisitInv ==
    ASSUME ExitInv, NEW k \in ExitDesks, NEW v, VisitIs(k, v),
           exitDesk[k].op \notin {"recompute", "insert"}, v.op \notin {"recompute", "insert"},
           v.op = "clear" => /\ exits[v.n].status = "Approved"
                             /\ v.last => exits[v.n].done \cup v.sections = Sections,
           UNCHANGED <<exits, employee, payPeriod, payLines, exitMarks>>
    PROVE  ExitInv'
<1>1. ExitTypeOK
  BY DEF ExitInv
<1>2. /\ exitDesk' \in [ExitDesks -> VisitType] /\ exitDesk'[k] = v /\ \A j \in ExitDesks : j # k => exitDesk'[j] = exitDesk[j]
      /\ \A j \in ExitDesks : exitDesk'[j].op \notin {"idle", "create"} => exitDesk'[j].n \in DOMAIN exits'
  BY <1>1, VisitChanged
<1>3. ExitTypeOK'
  BY <1>1, <1>2 DEF ExitTypeOK
<1>4. \A n : Calculating(n)' = Calculating(n)
  BY <1>2 DEF Calculating, At
<1>5. ASSUME NEW n, CalculationSound(n) PROVE CalculationSound(n)'
  <2>1. \A j \in Calculating(n) : j \in ExitDesks /\ j # k
    BY DEF Calculating, At
  <2> QED
    BY <1>2, <1>4, <1>5, <2>1 DEF CalculationSound, At
<1>6. \A j \in ExitDesks : ClearingSound(j)'
  <2>1. \A j \in ExitDesks : j # k => ClearingSound(j)'
    BY <1>2 DEF ExitInv, VisitsSound, ClearingSound, At
  <2>2. ClearingSound(k)'
    BY <1>2 DEF ClearingSound, At
  <2> QED
    BY <2>1, <2>2
<1>7. VisitsSound'
  BY <1>5, <1>6 DEF ExitInv, VisitsSound, Spared
<1>8. OneInProgress' /\ ClearedSound' /\ DuesHandedOver' /\ OneOfAKind'
  BY HeldStill DEF ExitInv
<1> QED
  BY <1>3, <1>7, <1>8 DEF ExitInv

LEMMA AskExitInv == ASSUME ExitInv, NEW k \in ExitDesks, AskExit(k) PROVE ExitInv'
<1>1. VisitIs(k, On("create", 0)) /\ exitDesk[k].op = "idle" /\ On("create", 0).op = "create"
  BY NoVisitTyped DEF AskExit, At, VisitIs
<1>2. UNCHANGED <<exits, employee, payPeriod, payLines, exitMarks>>
  BY DEF AskExit
<1> QED
  BY <1>1, <1>2, VisitInv

LEMMA AskEditInv ==
    ASSUME ExitInv, NEW k \in ExitDesks, NEW n \in DOMAIN exits, NEW op \in {"dates", "line"}, AskEdit(k, n, op)
    PROVE  ExitInv'
<1>1. n \in Nat
  BY ExitsTyped DEF ExitInv
<1>2. VisitIs(k, On(op, n)) /\ exitDesk[k].op = "idle" /\ On(op, n).op = op
  BY <1>1, NoVisitTyped DEF AskEdit, At, VisitIs
<1>3. UNCHANGED <<exits, employee, payPeriod, payLines, exitMarks>>
  BY DEF AskEdit
<1> QED
  BY <1>2, <1>3, VisitInv

LEMMA ClearSectionInv ==
    ASSUME ExitInv, NEW k \in ExitDesks, NEW n \in DOMAIN exits, NEW section \in Sections, ClearSection(k, n, section)
    PROVE  ExitInv'
<1>1. PICK v \in VisitType : /\ VisitIs(k, v) /\ v.op = "clear" /\ v.n = n /\ v.sections = {section}
                             /\ v.last => exits[n].done \cup {section} = Sections
  BY ClearSectionDoes DEF ExitInv
<1>2. exitDesk[k].op = "idle" /\ exits[n].status = "Approved"
      /\ UNCHANGED <<exits, employee, payPeriod, payLines, exitMarks>>
  BY DEF ClearSection, At
<1> QED
  BY <1>1, <1>2, VisitInv

LEMMA RefuseExitInv == ASSUME ExitInv, NEW k \in ExitDesks, RefuseExit(k) PROVE ExitInv'
<1>1. VisitIs(k, NoVisit) /\ exitDesk[k].op = "clear" /\ NoVisit.op = "idle"
  BY NoVisitTyped DEF RefuseExit, At, VisitIs
<1>2. UNCHANGED <<exits, employee, payPeriod, payLines, exitMarks>>
  BY DEF RefuseExit
<1> QED
  BY <1>1, <1>2, VisitInv

LEMMA TurnPeriodInv == ASSUME ExitInv, TurnPeriod PROVE ExitInv'
<1>1. UNCHANGED <<exits, employee, payLines, exitDesk, exitMarks>>
  BY DEF TurnPeriod
<1>2. payPeriod' \in [no : Nat \ {0}, open : BOOLEAN]
  <2>1. payPeriod \in [no : Nat \ {0}, open : BOOLEAN]
    BY DEF ExitInv, ExitTypeOK
  <2>2. payPeriod' = [payPeriod EXCEPT !.open = FALSE] \/ payPeriod' = [no |-> payPeriod.no + 1, open |-> TRUE]
    BY DEF TurnPeriod
  <2>3. payPeriod.no + 1 \in Nat \ {0}
    BY <2>1
  <2>4. CASE payPeriod' = [payPeriod EXCEPT !.open = FALSE]
    BY <2>1, <2>4
  <2>5. CASE payPeriod' = [no |-> payPeriod.no + 1, open |-> TRUE]
    BY <2>3, <2>5
  <2> QED
    BY <2>2, <2>4, <2>5
<1>3. ExitTypeOK'
  BY <1>1, <1>2 DEF ExitInv, ExitTypeOK
<1>4. OneInProgress' /\ ClearedSound' /\ DuesHandedOver' /\ OneOfAKind'
  BY <1>1, HeldStill DEF ExitInv
<1>5. VisitsSound'
  <2>1. \A n : Calculating(n)' = Calculating(n)
    BY <1>1 DEF Calculating, At
  <2>2. \A n : CalculationSound(n) => CalculationSound(n)'
    BY <1>1, <2>1 DEF CalculationSound, At
  <2>3. \A k : ClearingSound(k) => ClearingSound(k)'
    BY <1>1 DEF ClearingSound, At
  <2> QED
    BY <1>1, <2>2, <2>3 DEF ExitInv, VisitsSound, Spared
<1> QED
  BY <1>3, <1>4, <1>5 DEF ExitInv

\* The types after a step that changes one exit and one request.
LEMMA TypesStand ==
    ASSUME ExitTypeOK, NEW k \in ExitDesks, NEW v, VisitIs(k, v), exits' \in Seq(ExitType),
           DOMAIN exits \subseteq DOMAIN exits', payLines' = payLines, payPeriod' = payPeriod,
           employee' \in {"ACTIVE", "PENDING_FINAL_PAYMENT"},
           exitMarks' \subseteq {"both", "together", "late", "skew", "again", "nowhere"}
    PROVE  ExitTypeOK'
<1>1. /\ exitDesk' \in [ExitDesks -> VisitType]
      /\ \A j \in ExitDesks : exitDesk'[j].op \notin {"idle", "create"} => exitDesk'[j].n \in DOMAIN exits'
  BY VisitChanged
<1> QED
  BY <1>1 DEF ExitTypeOK

\* A request that calculates is alone at it, unless another joined.
LEMMA AloneAt ==
    ASSUME ExitInv, NEW k \in ExitDesks, exitDesk[k].op \in {"recompute", "insert"}, Spared({"together"})
    PROVE  /\ Calculating(exitDesk[k].n) = {k} /\ CalculationSound(exitDesk[k].n)
<1>1. exitDesk[k].n \in DOMAIN exits
  BY AtWork DEF ExitInv
<1>2. CalculationSound(exitDesk[k].n) /\ k \in Calculating(exitDesk[k].n)
  BY <1>1 DEF ExitInv, VisitsSound, Calculating, At
<1> QED
  BY <1>2 DEF CalculationSound

LEMMA SaveDatesInv == ASSUME ExitInv, NEW k \in ExitDesks, NEW d \in ExitDates, SaveDates(k, d) PROVE ExitInv'
<1>1. ExitTypeOK
  BY DEF ExitInv
<1>0. PICK n \in DOMAIN exits : n = exitDesk[k].n
  BY <1>1, AtWork DEF SaveDates, At
<1> DEFINE v == On("recompute", n)
<1>2. /\ exits' \in Seq(ExitType) /\ OthersKept(n) /\ DuesKept(n) /\ ClearanceKept(n)
      /\ exits'[n].dates = d /\ exits'[n].status = exits[n].status /\ VisitIs(k, v)
  BY <1>0, <1>1, SaveDatesDoes
<1>3. /\ employee' = employee /\ payPeriod' = payPeriod /\ payLines' = payLines /\ exitDesk[k].op = "dates"
      /\ exitMarks' = exitMarks \cup Noted(exits[n].status # "Open", "late") \cup Noted(Calculating(n) # {}, "together")
  BY <1>0 DEF SaveDates, At
<1>4. /\ n \in DOMAIN exits /\ n \in Nat /\ v.op = "recompute" /\ v.n = n /\ exits[n].done \subseteq Sections
  BY <1>1, <1>2, ExitsTyped, NoVisitTyped DEF OthersKept
<1> HIDE DEF v
<1>5. exitMarks \subseteq exitMarks' /\ exitMarks' \subseteq exitMarks \cup {"late", "together"}
  BY <1>3 DEF Noted
<1>6. ExitTypeOK'
  BY <1>1, <1>2, <1>3, <1>5, TypesStand DEF OthersKept, ExitTypeOK
<1>7. \A m \in DOMAIN exits : /\ exits'[m].status = exits[m].status
                              /\ exits'[m].done = exits[m].done /\ exits'[m].cleared = exits[m].cleared
                              /\ exits'[m].auto = exits[m].auto /\ exits'[m].manual = exits[m].manual
  BY <1>2 DEF OthersKept, DuesKept, ClearanceKept
<1>8. DOMAIN exits' = DOMAIN exits
  BY <1>2 DEF OthersKept
<1>9. OneInProgress'
  BY <1>5, <1>7, <1>8, InProgressStands DEF ExitInv
<1>10. ClearedSound'
  BY <1>3, <1>5, <1>7, <1>8, ClearedStands DEF ExitInv
<1>11. DuesHandedOver'
  BY <1>3, <1>5, <1>7, <1>8, HandedOverStands DEF ExitInv
<1>12. ASSUME Spared({"together"})' PROVE CalculationSound(n)'
  <2>1. Calculating(n) = {}
    BY <1>3, <1>12 DEF Spared, Noted
  <2>2. exitDesk'[k] = v /\ \A j \in ExitDesks : j # k => exitDesk'[j] = exitDesk[j]
    BY <1>1, <1>2, <1>8, VisitChanged
  <2>3. Calculating(n)' = {k}
    BY <1>4, <2>1, <2>2 DEF Calculating, At
  <2> QED
    BY <1>4, <2>2, <2>3 DEF CalculationSound, At
<1>13. VisitsSound'
  <2>1. exitDesk'[k] = v
    BY <1>1, <1>2, <1>8, VisitChanged
  <2>2. ClearingSound(k)'
    BY <1>4, <2>1 DEF ClearingSound, At
  <2>3. exits'[n].done = exits[n].done /\ exits'[n].status = exits[n].status
    BY <1>4, <1>7
  <2> QED
    BY <1>1, <1>2, <1>3, <1>4, <1>5, <1>12, <2>2, <2>3, VisitsStand DEF ExitInv
<1>14. OneOfAKind'
  BY <1>3 DEF ExitInv, OneOfAKind
<1> QED
  BY <1>6, <1>9, <1>10, <1>11, <1>13, <1>14 DEF ExitInv

\* A step on the due lines of an exit.
LEMMA DuesStep ==
    ASSUME ExitInv, NEW k \in ExitDesks, NEW n \in DOMAIN exits, n = exitDesk[k].n, NEW v, VisitIs(k, v),
           exits' \in Seq(ExitType), OthersKept(n), ClearanceKept(n), exits'[n].status = exits[n].status,
           v.op # "clear", v.op \in {"recompute", "insert"} => v.n = n,
           UNCHANGED <<employee, payPeriod, payLines>>,
           exitMarks' = exitMarks \cup Noted(exits[n].status # "Open", "late"),
           Spared({"together"})' => CalculationSound(n)'
    PROVE  ExitInv'
<1>1. ExitTypeOK
  BY DEF ExitInv
<1>2. exitMarks \subseteq exitMarks' /\ exitMarks' \subseteq exitMarks \cup {"late"}
  BY DEF Noted
<1>3. ExitTypeOK'
  BY <1>1, <1>2, TypesStand DEF OthersKept, ExitTypeOK
<1>4. \A m \in DOMAIN exits : /\ exits'[m].status = exits[m].status
                              /\ exits'[m].done = exits[m].done /\ exits'[m].cleared = exits[m].cleared
  BY DEF OthersKept, ClearanceKept
<1>5. DOMAIN exits' = DOMAIN exits
  BY DEF OthersKept
<1>6. OneInProgress'
  BY <1>2, <1>4, <1>5, InProgressStands DEF ExitInv
<1>7. ClearedSound'
  BY <1>2, <1>4, <1>5, ClearedStands DEF ExitInv
<1>8. ASSUME NEW m \in DOMAIN exits, exits[m].cleared, "late" \notin exitMarks'
      PROVE  exits'[m].auto = exits[m].auto /\ exits'[m].manual = exits[m].manual
  <2>1. exits[m].status = "Approved" /\ exits[n].status = "Open"
    BY <1>8 DEF ExitInv, ClearedSound, Noted
  <2>2. m # n
    BY <2>1
  <2> QED
    BY <2>2 DEF OthersKept
<1>9. DuesHandedOver'
  BY <1>2, <1>4, <1>5, <1>8, HandedOverStands DEF ExitInv
<1>10. exitDesk'[k] = v
  BY <1>1, <1>5, VisitChanged
<1>11. ClearingSound(k)'
  BY <1>10 DEF ClearingSound, At
<1>12. exits'[n].done = exits[n].done /\ exits[n].done \subseteq Sections
  BY <1>1, <1>4, ExitsTyped
<1>13. VisitsSound'
  BY <1>1, <1>2, <1>11, <1>12, VisitsStand DEF ExitInv
<1>14. OneOfAKind'
  BY DEF ExitInv, OneOfAKind
<1> QED
  BY <1>3, <1>6, <1>7, <1>9, <1>13, <1>14 DEF ExitInv

LEMMA ReadDatesInv == ASSUME ExitInv, NEW k \in ExitDesks, ReadDates(k) PROVE ExitInv'
<1>1. ExitTypeOK
  BY DEF ExitInv
<1>0. PICK n \in DOMAIN exits : n = exitDesk[k].n
  BY <1>1, AtWork DEF ReadDates, At
<1>2. PICK v :
      /\ exits' \in Seq(ExitType) /\ OthersKept(n) /\ ClearanceKept(n)
      /\ exits'[n].auto = <<>> /\ exits'[n].dates = exits[n].dates /\ exits'[n].status = exits[n].status
      /\ VisitIs(k, v) /\ v.op = "insert" /\ v.n = n /\ v.date = exits[n].dates
  BY <1>0, <1>1, ReadDatesDoes
<1>3. /\ UNCHANGED <<employee, payPeriod, payLines>> /\ exitDesk[k].op = "recompute"
      /\ exitMarks' = exitMarks \cup Noted(exits[n].status # "Open", "late")
  BY <1>0 DEF ReadDates, At
<1>4. n \in DOMAIN exits /\ n = exitDesk[k].n
  BY <1>0
<1>5. ASSUME Spared({"together"})' PROVE CalculationSound(n)'
  <2>1. Spared({"together"})
    BY <1>3, <1>5 DEF Spared
  <2>2. Calculating(n) = {k}
    BY <1>0, <1>3, <2>1, AloneAt
  <2>3. exitDesk'[k] = v /\ \A j \in ExitDesks : j # k => exitDesk'[j] = exitDesk[j]
    BY <1>1, <1>2, VisitChanged DEF OthersKept
  <2>4. Calculating(n)' = {k}
    BY <1>2, <2>2, <2>3 DEF Calculating, At
  <2> QED
    BY <1>2, <2>3, <2>4 DEF CalculationSound, At
<1> QED
  BY <1>1, <1>2, <1>3, <1>4, <1>5, DuesStep

LEMMA InsertDuesInv == ASSUME ExitInv, NEW k \in ExitDesks, InsertDues(k) PROVE ExitInv'
<1>1. ExitTypeOK
  BY DEF ExitInv
<1>0. PICK n \in DOMAIN exits : n = exitDesk[k].n
  BY <1>1, AtWork DEF InsertDues, At
<1>2. /\ exits' \in Seq(ExitType) /\ OthersKept(n) /\ ClearanceKept(n)
      /\ exits'[n].auto = exits[n].auto \o PenaltyOf(exitDesk[k].date)
      /\ exits'[n].dates = exits[n].dates /\ exits'[n].status = exits[n].status /\ VisitIs(k, NoVisit)
  BY <1>0, <1>1, InsertDuesDoes
<1>3. /\ UNCHANGED <<employee, payPeriod, payLines>> /\ exitDesk[k].op = "insert"
      /\ exitMarks' = exitMarks \cup Noted(exits[n].status # "Open", "late")
  BY <1>0 DEF InsertDues, At
<1>4. n \in DOMAIN exits /\ n = exitDesk[k].n /\ NoVisit.op = "idle"
  BY <1>0, NoVisitTyped
<1>5. ASSUME Spared({"together"})' PROVE CalculationSound(n)'
  <2>1. Spared({"together"})
    BY <1>3, <1>5 DEF Spared
  <2>2. Calculating(n) = {k} /\ exits[n].auto = <<>> /\ exitDesk[k].date = exits[n].dates
    BY <1>0, <1>3, <2>1, AloneAt DEF CalculationSound, At
  <2>3. exitDesk'[k] = NoVisit /\ \A j \in ExitDesks : j # k => exitDesk'[j] = exitDesk[j]
    BY <1>1, <1>2, VisitChanged DEF OthersKept
  <2>4. Calculating(n)' = {}
    BY <1>4, <2>2, <2>3 DEF Calculating, At
  <2>5. PenaltyOf(exits[n].dates) \in Seq(DueType)
    BY <1>1, <1>4, ExitsTyped, DuesTyped
  <2>6. exits'[n].auto = PenaltyOf(exits'[n].dates)
    BY <1>2, <2>2, <2>5, ConcatEmptySeq
  <2> QED
    BY <2>4, <2>6 DEF CalculationSound
<1> QED
  BY <1>1, <1>2, <1>3, <1>4, <1>5, DuesStep

LEMMA EditDueInv == ASSUME ExitInv, NEW k \in ExitDesks, EditDue(k) PROVE ExitInv'
<1>1. ExitTypeOK
  BY DEF ExitInv
<1>0. PICK n \in DOMAIN exits : n = exitDesk[k].n
  BY <1>1, AtWork DEF EditDue, At
<1>2. /\ exits' \in Seq(ExitType) /\ OthersKept(n) /\ ClearanceKept(n)
      /\ \/ exits'[n].auto = exits[n].auto
         \/ Len(exits[n].auto) # 0 /\ (Len(exits[n].auto) = 1 => exits'[n].auto = <<>>)
      /\ exits'[n].dates = exits[n].dates /\ exits'[n].status = exits[n].status /\ VisitIs(k, NoVisit)
  BY <1>0, <1>1, EditDueDoes
<1>3. /\ UNCHANGED <<employee, payPeriod, payLines>> /\ exitDesk[k].op = "line"
      /\ exitMarks' = exitMarks \cup Noted(exits[n].status # "Open", "late")
  BY <1>0, Zenon DEF EditDue, At
<1>4. n \in DOMAIN exits /\ n = exitDesk[k].n /\ NoVisit.op = "idle"
  BY <1>0, NoVisitTyped
<1>5. ASSUME Spared({"together"})' PROVE CalculationSound(n)'
  <2>1. Spared({"together"})
    BY <1>3, <1>5 DEF Spared
  <2>2. CalculationSound(n)
    BY <1>4, <2>1 DEF ExitInv, VisitsSound
  <2>3. exitDesk'[k] = NoVisit /\ \A j \in ExitDesks : j # k => exitDesk'[j] = exitDesk[j]
    BY <1>1, <1>2, VisitChanged DEF OthersKept
  <2>4. Calculating(n)' = Calculating(n) /\ \A j \in Calculating(n) : j \in ExitDesks /\ j # k
    BY <1>3, <1>4, <2>3 DEF Calculating, At
  <2>5. exits[n].auto \in Seq(DueType) /\ PenaltyOf(exits[n].dates) \in Seq(DueType)
        /\ (PenaltyOf(exits[n].dates) = <<>> \/ Len(PenaltyOf(exits[n].dates)) = 1)
    BY <1>1, <1>4, ExitsTyped, DuesTyped
  <2>6. Len(<<>>) = 0
    OBVIOUS
  <2>7. \A j \in Calculating(n) : At(j, "insert") => exits'[n].auto = <<>> /\ exitDesk[j].date = exits'[n].dates
    BY <1>2, <2>2, <2>6 DEF CalculationSound
  <2>8. Calculating(n) = {} => exits'[n].auto \in {<<>>, PenaltyOf(exits'[n].dates)}
    BY <1>2, <2>2, <2>5, <2>6 DEF CalculationSound
  <2>9. \A a, b \in Calculating(n)' : a = b
    BY <2>2, <2>4 DEF CalculationSound
  <2>10. \A j \in Calculating(n)' : At(j, "insert")' => exits'[n].auto = <<>> /\ exitDesk'[j].date = exits'[n].dates
    BY <2>3, <2>4, <2>7 DEF At
  <2> QED
    BY <2>4, <2>8, <2>9, <2>10 DEF CalculationSound
<1> QED
  BY <1>1, <1>2, <1>3, <1>4, <1>5, DuesStep

LEMMA MoveExitInv == ASSUME ExitInv, NEW n \in DOMAIN exits, MoveExit(n) PROVE ExitInv'
<1>1. ExitTypeOK
  BY DEF ExitInv
<1>2. /\ exits' \in Seq(ExitType) /\ OthersKept(n) /\ DuesKept(n) /\ ClearanceKept(n)
      /\ exits[n].status # "Approved" /\ exits'[n].dates = exits[n].dates
  BY <1>1, MoveExitDoes
<1>3. UNCHANGED <<employee, payPeriod, payLines, exitDesk, exitMarks>>
  BY Zenon DEF MoveExit
<1>4. /\ DOMAIN exits' = DOMAIN exits
      /\ \A m \in DOMAIN exits : /\ exits[m].status = "Approved" => exits'[m].status = "Approved"
                                 /\ exits'[m].done = exits[m].done /\ exits'[m].cleared = exits[m].cleared
                                 /\ exits'[m].auto = exits[m].auto /\ exits'[m].manual = exits[m].manual
                                 /\ exits'[m].dates = exits[m].dates
  BY <1>2 DEF OthersKept, DuesKept, ClearanceKept
<1>5. ExitTypeOK'
  BY <1>1, <1>2, <1>3, <1>4 DEF ExitTypeOK
<1>6. OneInProgress'
  BY <1>3, <1>4, InProgressStands DEF ExitInv
<1>7. ClearedSound'
  BY <1>3, <1>4, ClearedStands DEF ExitInv
<1>8. DuesHandedOver'
  BY <1>3, <1>4, HandedOverStands DEF ExitInv
<1>9. VisitsSound'
  <2>1. \A m : Calculating(m)' = Calculating(m)
    BY <1>3 DEF Calculating, At
  <2>2. \A m \in DOMAIN exits : CalculationSound(m) => CalculationSound(m)'
    BY <1>3, <1>4, <2>1 DEF CalculationSound, At
  <2>3. \A k \in ExitDesks : ClearingSound(k) => ClearingSound(k)'
    BY <1>1, <1>3, <1>4, AtWork DEF ClearingSound, At
  <2> QED
    BY <1>3, <1>4, <2>2, <2>3 DEF ExitInv, VisitsSound, Spared
<1>10. OneOfAKind'
  BY <1>3 DEF ExitInv, OneOfAKind
<1> QED
  BY <1>5, <1>6, <1>7, <1>8, <1>9, <1>10 DEF ExitInv

LEMMA CreateExitInv == ASSUME ExitInv, NEW k \in ExitDesks, NEW d \in ExitDates, CreateExit(k, d) PROVE ExitInv'
<1>1. ExitTypeOK
  BY DEF ExitInv
<1>2. Len(exits) \in Nat /\ \A i \in DOMAIN payLines : payLines[i].exit \in DOMAIN exits
  BY <1>1, ExitsTyped
<1>3. PICK n \in Nat : n = Len(exits) + 1
  BY <1>2
<1>4. /\ exits' \in Seq(ExitType) /\ n \notin DOMAIN exits /\ DOMAIN exits' = DOMAIN exits \cup {n}
      /\ \A m \in DOMAIN exits : exits'[m] = exits[m]
      /\ exits'[n].dates = d /\ exits'[n].status = "Open" /\ exits'[n].auto = PenaltyOf(d)
      /\ exits'[n].done = {} /\ exits'[n].cleared = FALSE
  BY <1>1, <1>3, CreateExitDoes
<1>5. /\ UNCHANGED <<employee, payPeriod, payLines>> /\ exitDesk[k].op = "create" /\ VisitIs(k, NoVisit)
      /\ exitMarks' = exitMarks \cup Noted(InProgress # {}, "both") /\ NoVisit.op = "idle"
  BY NoVisitTyped DEF CreateExit, At, VisitIs
<1>6. exitMarks \subseteq exitMarks' /\ exitMarks' \subseteq exitMarks \cup {"both"}
  BY <1>5 DEF Noted
<1>7. ExitTypeOK'
  BY <1>1, <1>4, <1>5, <1>6, TypesStand DEF ExitTypeOK
<1>8. /\ exitDesk'[k] = NoVisit /\ \A j \in ExitDesks : j # k => exitDesk'[j] = exitDesk[j]
      /\ \A j \in ExitDesks : exitDesk[j].op \notin {"idle", "create"} => exitDesk[j].n \in DOMAIN exits
  BY <1>1, <1>4, <1>5, VisitChanged DEF ExitTypeOK
<1>9. OneInProgress'
  <2> SUFFICES ASSUME Spared({"both"})' PROVE \A a, b \in InProgress' : a = b
    BY DEF OneInProgress
  <2>1. InProgress = {}
    BY <1>5 DEF Spared, Noted
  <2>2. InProgress' \subseteq {n}
    BY <1>4, <2>1 DEF InProgress
  <2> QED
    BY <2>2
<1>10. VisitsSound'
  <2>1. ASSUME NEW m \in DOMAIN exits', Spared({"together"})' PROVE CalculationSound(m)'
    <3>1. Calculating(m)' = Calculating(m) /\ \A j \in Calculating(m) : j \in ExitDesks /\ j # k
      BY <1>5, <1>8 DEF Calculating, At
    <3>2. CASE m \in DOMAIN exits
      <4>1. CalculationSound(m)
        BY <1>6, <2>1, <3>2, ExitMarksGrow DEF ExitInv, VisitsSound
      <4> QED
        BY <1>4, <1>8, <3>1, <3>2, <4>1 DEF CalculationSound, At
    <3>3. CASE m = n
      <4>1. Calculating(m) = {}
        BY <1>4, <1>8, <3>3 DEF Calculating, At
      <4> QED
        BY <1>4, <3>1, <3>3, <4>1 DEF CalculationSound
    <3> QED
      BY <1>4, <3>2, <3>3
  <2>2. ASSUME NEW j \in ExitDesks PROVE ClearingSound(j)'
    <3>1. CASE j = k
      BY <1>5, <1>8, <3>1 DEF ClearingSound, At
    <3>2. CASE j # k
      BY <1>4, <1>8, <3>2 DEF ExitInv, VisitsSound, ClearingSound, At
    <3> QED
      BY <3>1, <3>2
  <2> QED
    BY <2>1, <2>2 DEF VisitsSound
<1>11. ClearedSound'
  <2>1. Spared({"skew"})' => Spared({"skew"})
    BY <1>6, ExitMarksGrow
  <2>2. {} # Sections
    BY ExitAssumption
  <2> QED
    BY <1>4, <1>5, <2>1, <2>2 DEF ExitInv, ClearedSound
<1>12. DuesHandedOver'
  <2> SUFFICES ASSUME Spared({"late", "again", "nowhere"})', NEW m \in DOMAIN exits'
               PROVE  IF exits'[m].cleared THEN GotDues(m)' ELSE LinesOf(m)' = {}
    BY DEF DuesHandedOver
  <2>1. CASE m \in DOMAIN exits
    <3>1. IF exits[m].cleared THEN GotDues(m) ELSE LinesOf(m) = {}
      BY <1>6, <2>1, ExitMarksGrow DEF ExitInv, DuesHandedOver
    <3>2. LinesOf(m)' = LinesOf(m) /\ Dues(m)' = Dues(m)
      BY <1>4, <1>5, <2>1 DEF LinesOf, Dues
    <3>3. GotDues(m) => GotDues(m)'
      BY <1>5, <3>2 DEF GotDues
    <3> QED
      BY <1>4, <2>1, <3>1, <3>2, <3>3
  <2>2. CASE m = n
    <3>1. LinesOf(m)' = {}
      BY <1>2, <1>4, <1>5, <2>2 DEF LinesOf
    <3> QED
      BY <1>4, <2>2, <3>1
  <2> QED
    BY <1>4, <2>1, <2>2
<1>13. OneOfAKind'
  BY <1>5 DEF ExitInv, OneOfAKind
<1> QED
  BY <1>7, <1>9, <1>10, <1>11, <1>12, <1>13 DEF ExitInv

\* The calculations when a clearance commits.
LEMMA CalculationsStand ==
    ASSUME ExitInv, NEW k \in ExitDesks, exitDesk[k].op = "clear", VisitIs(k, NoVisit),
           NEW n \in DOMAIN exits, OthersKept(n), DuesKept(n), exits'[n].dates = exits[n].dates,
           exits'[n].status = exits[n].status, exits[n].done \subseteq exits'[n].done, exits'[n].done \subseteq Sections,
           exitMarks \subseteq exitMarks'
    PROVE  VisitsSound'
<1>1. ExitTypeOK /\ NoVisit.op = "idle"
  BY NoVisitTyped DEF ExitInv
<1>2. exitDesk'[k] = NoVisit /\ \A j \in ExitDesks : j # k => exitDesk'[j] = exitDesk[j]
  BY <1>1, VisitChanged DEF OthersKept
<1>3. ASSUME Spared({"together"})' PROVE CalculationSound(n)'
  <2>1. CalculationSound(n)
    BY <1>3, ExitMarksGrow DEF ExitInv, VisitsSound
  <2>2. Calculating(n)' = Calculating(n) /\ \A j \in Calculating(n) : j \in ExitDesks /\ j # k
    BY <1>1, <1>2 DEF Calculating, At
  <2> QED
    BY <1>2, <2>1, <2>2 DEF CalculationSound, DuesKept, At
<1>4. ClearingSound(k)'
  BY <1>1, <1>2 DEF ClearingSound, At
<1> QED
  BY <1>1, <1>3, <1>4, VisitsStand DEF ExitInv

LEMMA CommitSectionInv == ASSUME ExitInv, NEW k \in ExitDesks, CommitSection(k) PROVE ExitInv'
<1>1. ExitTypeOK
  BY DEF ExitInv
<1>2. PICK n \in DOMAIN exits : n = exitDesk[k].n
  BY <1>1, AtWork DEF CommitSection, At
<1>3. /\ exits' \in Seq(ExitType) /\ OthersKept(n) /\ DuesKept(n)
      /\ exits'[n].done = exits[n].done \cup exitDesk[k].sections /\ exits'[n].cleared = exits[n].cleared
      /\ exits'[n].done \subseteq Sections
      /\ exits'[n].dates = exits[n].dates /\ exits'[n].status = exits[n].status /\ VisitIs(k, NoVisit)
  BY <1>1, <1>2, CommitSectionDoes
<1>4. /\ UNCHANGED <<employee, payPeriod, payLines>> /\ exitDesk[k].op = "clear"
      /\ exitMarks' = exitMarks \cup Noted(exits[n].done \cup exitDesk[k].sections = Sections, "skew")
  BY <1>2 DEF CommitSection, At
<1>5. exitMarks \subseteq exitMarks' /\ exitMarks' \subseteq exitMarks \cup {"skew"} /\ DOMAIN exits' = DOMAIN exits
  BY <1>3, <1>4 DEF Noted, OthersKept
<1>6. ExitTypeOK'
  BY <1>1, <1>3, <1>4, <1>5, TypesStand DEF ExitTypeOK
<1>7. \A m \in DOMAIN exits : /\ exits'[m].status = exits[m].status /\ exits'[m].cleared = exits[m].cleared
                              /\ exits'[m].auto = exits[m].auto /\ exits'[m].manual = exits[m].manual
  BY <1>3 DEF OthersKept, DuesKept
<1>8. OneInProgress'
  BY <1>5, <1>7, InProgressStands DEF ExitInv
<1>9. DuesHandedOver'
  BY <1>4, <1>5, <1>7, HandedOverStands DEF ExitInv
<1>10. VisitsSound'
  BY <1>3, <1>4, <1>5, CalculationsStand
<1>11. ClearedSound'
  <2>1. ASSUME NEW m \in DOMAIN exits
        PROVE  /\ exits'[m].cleared => exits'[m].status = "Approved" /\ exits'[m].done = Sections
               /\ Spared({"skew"})' /\ exits'[m].done = Sections => exits'[m].cleared
    <3>1. /\ exits[m].cleared => exits[m].status = "Approved" /\ exits[m].done = Sections
          /\ Spared({"skew"})' /\ exits[m].done = Sections => exits[m].cleared
      BY <1>5, ExitMarksGrow DEF ExitInv, ClearedSound
    <3>2. CASE m = n
      <4>1. Spared({"skew"})' => exits'[n].done # Sections
        BY <1>3, <1>4 DEF Spared, Noted
      <4> QED
        BY <1>3, <1>7, <3>1, <3>2, <4>1
    <3>3. CASE m # n
      BY <1>3, <3>1, <3>3 DEF OthersKept
    <3> QED
      BY <3>2, <3>3
  <2>2. employee' = "PENDING_FINAL_PAYMENT" <=> \E m \in DOMAIN exits' : exits'[m].cleared
    BY <1>4, <1>5, <1>7 DEF ExitInv, ClearedSound
  <2> QED
    BY <1>5, <2>1, <2>2 DEF ClearedSound
<1>12. OneOfAKind'
  BY <1>4 DEF ExitInv, OneOfAKind
<1> QED
  BY <1>6, <1>8, <1>9, <1>10, <1>11, <1>12 DEF ExitInv

LEMMA CommitExitInv == ASSUME ExitInv, NEW k \in ExitDesks, CommitExit(k) PROVE ExitInv'
<1>1. ExitTypeOK
  BY DEF ExitInv
<1>2. PICK n \in DOMAIN exits : n = exitDesk[k].n
  BY <1>1, AtWork DEF CommitExit, At
<1>3. PICK p \in Nat : p = exitDesk[k].period
  BY <1>1, LinesDo
<1>4. /\ exits' \in Seq(ExitType) /\ OthersKept(n) /\ DuesKept(n)
      /\ exits'[n].done = Sections /\ exits'[n].cleared = TRUE
      /\ exits'[n].dates = exits[n].dates /\ exits'[n].status = exits[n].status /\ VisitIs(k, NoVisit)
  BY <1>1, <1>2, CommitExitDoes
<1>5. /\ payPeriod' = payPeriod /\ employee' = "PENDING_FINAL_PAYMENT" /\ exitDesk[k].op = "clear"
      /\ exitMarks' = exitMarks \cup Noted(exits[n].cleared, "again") \cup Noted(p = 0, "nowhere")
  BY <1>2, <1>3 DEF CommitExit, At
<1>6. PICK dues \in Seq(DueType) : dues = Dues(n)
  BY <1>1, <1>2, LinesDo
<1>7. /\ p = 0 => payLines' = payLines
      /\ p # 0 => /\ payLines' \in Seq(LineType) /\ DOMAIN payLines' = 1 .. Len(payLines) + Len(dues)
                  /\ Len(payLines') = Len(payLines) + Len(dues)
                  /\ \A i \in 1 .. Len(payLines) : payLines'[i] = payLines[i]
                  /\ \A i \in 1 .. Len(dues) :
                        payLines'[Len(payLines) + i] = [period |-> p, exit |-> n, due |-> dues[i]]
                  /\ Distinct(dues) /\ \A i \in DOMAIN dues : dues[i].type \notin Taken(p)
  BY <1>1, <1>2, <1>3, <1>6, LinesDo
<1>8. /\ exitMarks \subseteq exitMarks' /\ exitMarks' \subseteq exitMarks \cup {"again", "nowhere"}
      /\ DOMAIN exits' = DOMAIN exits /\ DOMAIN dues = 1 .. Len(dues) /\ Len(dues) \in Nat
      /\ Len(payLines) \in Nat /\ DOMAIN payLines = 1 .. Len(payLines)
  BY <1>1, <1>4, <1>5, <1>6, ExitsTyped DEF Noted, OthersKept
<1>9. \A i \in DOMAIN payLines : payLines[i] \in LineType /\ payLines[i].exit \in DOMAIN exits
  BY <1>1, ExitsTyped
\* Each line of the payroll is one it had, or the next of the dues.
<1>10. ASSUME NEW i \in DOMAIN payLines'
       PROVE  \/ i \in DOMAIN payLines /\ payLines'[i] = payLines[i]
              \/ \E j \in DOMAIN dues : /\ p # 0 /\ i = Len(payLines) + j
                                        /\ payLines'[i] = [period |-> p, exit |-> n, due |-> dues[j]]
  <2>1. CASE p = 0
    BY <1>7, <2>1
  <2>2. CASE p # 0 /\ i <= Len(payLines)
    BY <1>7, <1>8, <2>2
  <2>3. CASE p # 0 /\ i > Len(payLines)
    <3>1. PICK j \in 1 .. Len(dues) : i = Len(payLines) + j
      <4>1. i \in 1 .. Len(payLines) + Len(dues)
        BY <1>7, <2>3
      <4>2. i - Len(payLines) \in 1 .. Len(dues) /\ i = Len(payLines) + (i - Len(payLines))
        BY <4>1, <1>8, <2>3
      <4> QED
        BY <4>2
    <3>2. payLines'[i] = [period |-> p, exit |-> n, due |-> dues[j]]
      BY <1>7, <2>3, <3>1
    <3> QED
      BY <1>8, <2>3, <3>1, <3>2
  <2>4. i \in Nat
    BY <1>7, <1>8
  <2> QED
    BY <1>8, <2>1, <2>2, <2>3, <2>4
<1>11. ExitTypeOK'
  <2>1. /\ exitDesk' \in [ExitDesks -> VisitType]
        /\ \A j \in ExitDesks : exitDesk'[j].op \notin {"idle", "create"} => exitDesk'[j].n \in DOMAIN exits'
    BY <1>1, <1>4, <1>8, VisitChanged
  <2>2. payLines' \in Seq(LineType)
    BY <1>1, <1>7 DEF ExitTypeOK
  <2>3. \A i \in DOMAIN payLines' : payLines'[i].exit \in DOMAIN exits'
    BY <1>8, <1>9, <1>10
  <2>4. exitMarks' \subseteq {"both", "together", "late", "skew", "again", "nowhere"}
    BY <1>1, <1>8 DEF ExitTypeOK
  <2> QED
    BY <1>1, <1>4, <1>5, <2>1, <2>2, <2>3, <2>4 DEF ExitTypeOK
<1>12. \A m \in DOMAIN exits : exits'[m].status = exits[m].status
  BY <1>4 DEF OthersKept
<1>13. OneInProgress'
  BY <1>8, <1>12, InProgressStands DEF ExitInv
<1>14. exits[n].done \subseteq Sections
  BY <1>1, ExitsTyped
<1>15. VisitsSound'
  BY <1>4, <1>5, <1>8, <1>14, CalculationsStand
<1>16. ClearedSound'
  <2>1. exits'[n].status = "Approved"
    BY <1>2, <1>4, <1>5 DEF ExitInv, VisitsSound, ClearingSound, At
  <2>2. ASSUME NEW m \in DOMAIN exits
        PROVE  /\ exits'[m].cleared => exits'[m].status = "Approved" /\ exits'[m].done = Sections
               /\ Spared({"skew"})' /\ exits'[m].done = Sections => exits'[m].cleared
    <3>1. CASE m = n
      BY <1>4, <2>1, <3>1
    <3>2. CASE m # n
      BY <1>4, <1>8, <3>2, ExitMarksGrow DEF ExitInv, ClearedSound, OthersKept
    <3> QED
      BY <3>1, <3>2
  <2> QED
    BY <1>4, <1>5, <1>8, <2>2 DEF ClearedSound
<1>17. DuesHandedOver'
  <2> SUFFICES ASSUME Spared({"late", "again", "nowhere"})', NEW m \in DOMAIN exits
               PROVE  IF exits'[m].cleared THEN GotDues(m)' ELSE LinesOf(m)' = {}
    BY <1>8 DEF DuesHandedOver
  <2>1. p # 0 /\ ~exits[n].cleared
    BY <1>5 DEF Spared, Noted
  <2>2. \A j \in DOMAIN exits : IF exits[j].cleared THEN GotDues(j) ELSE LinesOf(j) = {}
    BY <1>8, ExitMarksGrow DEF ExitInv, DuesHandedOver
  <2>3. Dues(m)' = Dues(m)
    BY <1>4 DEF Dues, OthersKept, DuesKept
  <2>4. CASE m = n
    <3>1. \A i \in DOMAIN payLines : payLines[i].exit # n
      BY <2>1, <2>2 DEF LinesOf
    <3>2. LinesOf(n)' = Len(payLines) + 1 .. Len(payLines) + Len(dues)
      <4>1. ASSUME NEW i \in LinesOf(n)' PROVE i \in Len(payLines) + 1 .. Len(payLines) + Len(dues)
        <5>1. i \in DOMAIN payLines' /\ payLines'[i].exit = n
          BY <4>1 DEF LinesOf
        <5>2. PICK j \in DOMAIN dues : i = Len(payLines) + j
          BY <5>1, <1>10, <3>1
        <5> QED
          BY <5>2, <1>8
      <4>2. ASSUME NEW i \in Len(payLines) + 1 .. Len(payLines) + Len(dues) PROVE i \in LinesOf(n)'
        <5>1. i \in DOMAIN payLines' /\ i \notin DOMAIN payLines
          BY <1>7, <1>8, <2>1
        <5>2. payLines'[i].exit = n
          BY <5>1, <1>10
        <5> QED
          BY <5>1, <5>2 DEF LinesOf
      <4> QED
        BY <4>1, <4>2
    <3>3. \A i \in DOMAIN dues : payLines'[Len(payLines) + i].due = dues[i]
      <4>1. \A i \in 1 .. Len(dues) :
               payLines'[Len(payLines) + i] = [period |-> p, exit |-> n, due |-> dues[i]]
        BY <1>7, <2>1
      <4>2. ASSUME NEW i \in 1 .. Len(dues) PROVE payLines'[Len(payLines) + i].due = dues[i]
        <5>1. payLines'[Len(payLines) + i] = [period |-> p, exit |-> n, due |-> dues[i]]
          BY <4>1
        <5> QED
          BY <5>1
      <4> QED
        BY <4>2, <1>8
    <3>4. Len(payLines) \in 0 .. Len(payLines')
      BY <1>7, <1>8, <2>1
    <3>5. GotDues(n)'
      BY <1>6, <2>3, <2>4, <3>2, <3>3, <3>4 DEF GotDues
    <3> QED
      BY <1>4, <2>4, <3>5
  <2>5. CASE m # n
    <3>1. \A i \in DOMAIN payLines : i \in DOMAIN payLines' /\ payLines'[i] = payLines[i]
      <4>1. /\ DOMAIN payLines' = 1 .. Len(payLines) + Len(dues)
            /\ \A i \in 1 .. Len(payLines) : payLines'[i] = payLines[i]
        BY <1>7, <2>1
      <4>2. \A i \in DOMAIN payLines : i \in DOMAIN payLines'
        BY <1>8, <4>1
      <4> QED
        BY <1>8, <4>1, <4>2
    <3>2. LinesOf(m)' = LinesOf(m)
      <4>1. ASSUME NEW i \in DOMAIN payLines', payLines'[i].exit = m PROVE i \in DOMAIN payLines /\ payLines[i].exit = m
        BY <1>10, <2>5, <4>1
      <4> QED
        BY <3>1, <4>1 DEF LinesOf
    <3>3. exits'[m].cleared = exits[m].cleared
      BY <1>4, <2>5 DEF OthersKept
    <3>4. ASSUME GotDues(m) PROVE GotDues(m)'
      <4>1. PICK a \in 0 .. Len(payLines) : /\ LinesOf(m) = a + 1 .. a + Len(Dues(m))
                                            /\ \A i \in DOMAIN Dues(m) : payLines[a + i].due = Dues(m)[i]
        BY <3>4 DEF GotDues
      <4>2. DOMAIN Dues(m) = 1 .. Len(Dues(m)) /\ Len(Dues(m)) \in Nat
        <5>1. exits[m].auto \in Seq(DueType) /\ exits[m].manual \in Seq(DueType)
          BY <1>1, ExitsTyped
        <5>2. Dues(m) \in Seq(DueType)
          BY <5>1, ConcatProperties DEF Dues
        <5> QED
          BY <5>2
      <4>3. \A i \in DOMAIN Dues(m) : a + i \in LinesOf(m)
        BY <4>1, <4>2
      <4>4. \A i \in DOMAIN Dues(m) : payLines'[a + i].due = Dues(m)[i]
        BY <3>1, <4>1, <4>3 DEF LinesOf
      <4>5. a \in 0 .. Len(payLines')
        BY <1>7, <1>8, <2>1
      <4> QED
        BY <2>3, <3>2, <4>1, <4>4, <4>5 DEF GotDues
    <3> QED
      BY <2>2, <3>2, <3>3, <3>4
  <2> QED
    BY <2>4, <2>5
<1>18. OneOfAKind'
  <2> SUFFICES ASSUME NEW i \in DOMAIN payLines', NEW j \in DOMAIN payLines', i # j,
                      payLines'[i].period = payLines'[j].period, payLines'[i].due.type = payLines'[j].due.type
               PROVE  FALSE
    BY DEF OneOfAKind
  <2>1. ASSUME NEW a \in DOMAIN payLines, NEW b \in DOMAIN dues, p # 0
        PROVE  payLines[a].period # p \/ payLines[a].due.type # dues[b].type
    BY <1>7, <2>1 DEF Taken
  <2>2. CASE i \in DOMAIN payLines /\ payLines'[i] = payLines[i]
    <3>1. CASE j \in DOMAIN payLines /\ payLines'[j] = payLines[j]
      BY <2>2, <3>1 DEF ExitInv, OneOfAKind
    <3>2. CASE \E b \in DOMAIN dues : p # 0 /\ j = Len(payLines) + b /\ payLines'[j] = [period |-> p, exit |-> n, due |-> dues[b]]
      BY <2>1, <2>2, <3>2
    <3> QED
      BY <1>10, <3>1, <3>2
  <2>3. CASE \E a \in DOMAIN dues : p # 0 /\ i = Len(payLines) + a /\ payLines'[i] = [period |-> p, exit |-> n, due |-> dues[a]]
    <3>1. CASE j \in DOMAIN payLines /\ payLines'[j] = payLines[j]
      BY <2>1, <2>3, <3>1
    <3>2. CASE \E b \in DOMAIN dues : p # 0 /\ j = Len(payLines) + b /\ payLines'[j] = [period |-> p, exit |-> n, due |-> dues[b]]
      <4>1. PICK a \in DOMAIN dues : p # 0 /\ i = Len(payLines) + a /\ payLines'[i] = [period |-> p, exit |-> n, due |-> dues[a]]
        BY <2>3
      <4>2. PICK b \in DOMAIN dues : j = Len(payLines) + b /\ payLines'[j] = [period |-> p, exit |-> n, due |-> dues[b]]
        BY <3>2
      <4>3. a # b /\ dues[a].type = dues[b].type
        BY <4>1, <4>2
      <4>4. Distinct(dues)
        BY <1>7, <4>1
      <4> QED
        BY <4>3, <4>4 DEF Distinct
    <3> QED
      BY <1>10, <3>1, <3>2
  <2> QED
    BY <1>10, <2>2, <2>3
<1> QED
  BY <1>11, <1>13, <1>15, <1>16, <1>17, <1>18 DEF ExitInv

LEMMA ExitStands == ASSUME ExitInv, UNCHANGED exitVars PROVE ExitInv'
<1>1. UNCHANGED <<exits, employee, payPeriod, payLines, exitDesk, exitMarks>>
  BY DEF exitVars
<1>2. OneInProgress' /\ ClearedSound' /\ DuesHandedOver' /\ OneOfAKind'
  BY <1>1, HeldStill DEF ExitInv
<1>3. ExitTypeOK'
  BY <1>1 DEF ExitInv, ExitTypeOK
<1>4. VisitsSound'
  <2>1. \A n : Calculating(n)' = Calculating(n)
    BY <1>1 DEF Calculating, At
  <2>2. \A n : CalculationSound(n) => CalculationSound(n)'
    BY <1>1, <2>1 DEF CalculationSound, At
  <2>3. \A k : ClearingSound(k) => ClearingSound(k)'
    BY <1>1 DEF ClearingSound, At
  <2> QED
    BY <1>1, <2>2, <2>3 DEF ExitInv, VisitsSound, Spared
<1> QED
  BY <1>2, <1>3, <1>4 DEF ExitInv

LEMMA ExitStepInv == ExitInv /\ [ExitNext]_exitVars => ExitInv'
<1> SUFFICES ASSUME ExitInv, [ExitNext]_exitVars PROVE ExitInv'
  OBVIOUS
<1>1. ASSUME NEW k \in ExitDesks, AskExit(k) PROVE ExitInv'
  BY <1>1, AskExitInv
<1>2. ASSUME NEW k \in ExitDesks, NEW d \in ExitDates, CreateExit(k, d) \/ SaveDates(k, d) PROVE ExitInv'
  BY <1>2, CreateExitInv, SaveDatesInv
<1>3. ASSUME NEW k \in ExitDesks, ReadDates(k) \/ InsertDues(k) \/ EditDue(k) PROVE ExitInv'
  BY <1>3, ReadDatesInv, InsertDuesInv, EditDueInv
<1>4. ASSUME NEW k \in ExitDesks, CommitSection(k) \/ CommitExit(k) \/ RefuseExit(k) PROVE ExitInv'
  BY <1>4, CommitSectionInv, CommitExitInv, RefuseExitInv
<1>5. ASSUME NEW k \in ExitDesks, NEW n \in DOMAIN exits, NEW op \in {"dates", "line"}, AskEdit(k, n, op) PROVE ExitInv'
  BY <1>5, AskEditInv
<1>6. ASSUME NEW k \in ExitDesks, NEW n \in DOMAIN exits, NEW section \in Sections, ClearSection(k, n, section)
      PROVE  ExitInv'
  BY <1>6, ClearSectionInv
<1>7. ASSUME NEW n \in DOMAIN exits, MoveExit(n) PROVE ExitInv'
  BY <1>7, MoveExitInv
<1>8. CASE ExitNext
  BY <1>1, <1>2, <1>3, <1>4, <1>5, <1>6, <1>7, <1>8, TurnPeriodInv DEF ExitNext
<1> QED
  BY <1>8, ExitStands

LEMMA ExitInvExitsSound == ASSUME ExitInv PROVE ExitsSound
<1>1. Spared({"both"}) => Cardinality(InProgress) <= 1
  <2> SUFFICES ASSUME Spared({"both"}) PROVE Cardinality(InProgress) <= 1
    OBVIOUS
  <2>1. CASE InProgress = {}
    BY <2>1, FS_EmptySet
  <2>2. CASE InProgress # {}
    <3>1. PICK a \in InProgress : InProgress = {a}
      BY <2>2 DEF ExitInv, OneInProgress
    <3>2. Cardinality(InProgress) = 1
      BY <3>1, FS_Singleton
    <3> QED
      BY <3>2
  <2> QED
    BY <2>1, <2>2
<1>2. \A n \in DOMAIN exits :
          /\ Spared({"together"}) /\ Calculating(n) = {} => exits[n].auto \in {<<>>, PenaltyOf(exits[n].dates)}
          /\ exits[n].cleared => exits[n].status = "Approved" /\ exits[n].done = Sections
          /\ Spared({"skew"}) /\ exits[n].done = Sections => exits[n].cleared
          /\ Spared({"late", "again", "nowhere"}) =>
                IF exits[n].cleared THEN GotDues(n) ELSE LinesOf(n) = {}
  BY DEF ExitInv, VisitsSound, CalculationSound, ClearedSound, DuesHandedOver
<1> QED
  BY <1>1, <1>2 DEF ExitInv, ClearedSound, OneOfAKind, ExitsSound

(* From the request to the last clearance (lib/employeeExits.ts): one exit  *)
(* in progress at a time, calculated dues that are those of its dates, an   *)
(* exit cleared exactly when its sections are, and its dues handed to the   *)
(* payroll once and none twice of a kind in a period; each unless the       *)
(* requests its marks name crossed; for any sections, dates, dues, desks.   *)
THEOREM ExitsSoundAlways == ExitSpec => []ExitsSound
<1>1. ExitInit => ExitInv
  BY ExitInitInv
<1>2. ExitInv /\ [ExitNext]_exitVars => ExitInv'
  BY ExitStepInv
<1>3. ExitInv => ExitsSound
  BY ExitInvExitsSound
<1> QED
  BY <1>1, <1>2, <1>3, PTL DEF ExitSpec

-----------------------------------------------------------------------------
(* Reminders: levels, charges and the documents they are for.               *)

Charged == Untagged({"deleted"}) => feeJournals = IssuedOnes
ChargedOnce ==
    Untagged({"twice", "deleted"}) =>
       /\ \A m, n \in DOMAIN feeEntries : feeEntries[m] = feeEntries[n] => m = n
       /\ \A i \in DOMAIN reminders : i \in IssuedOnes <=> \E n \in DOMAIN feeEntries : feeEntries[n] = i

\* An entry's level is that of an issued document that lists it, and no such document is above it.
LevelStands(e) ==
    /\ \A i \in Listing(e) : reminders[i].level <= levelOf[e]
    /\ levelOf[e] = 0 \/ \E i \in Listing(e) : reminders[i].level = levelOf[e]
\* A level above the first is had only after one below.
OneBelow(n) == n > 1 => \E j \in IssuedOnes : reminders[j].level = n - 1
LevelsSound ==
    Untagged({"deleted", "partial"}) =>
       /\ \A e \in OpenEntries : LevelStands(e)
       /\ \A i \in DOMAIN reminders : OneBelow(reminders[i].level)
       /\ \A k \in Collectors : OneBelow(collector[k].level)

\* Memos have no level, and reminders one; lines are of entries the document is about; no
\* two reminders of a level are about one entry, unless one was drafted beside another.
Alike(i, j) ==
    /\ reminders[i].kind = "Reminder" /\ reminders[j].kind = "Reminder" /\ reminders[i].level = reminders[j].level
    /\ reminders[i].status # "Dropped" /\ reminders[j].status # "Dropped"
DraftsSound ==
    /\ \A k \in Collectors : collector[k].kind = "Reminder" <=> collector[k].level > 0
    /\ \A i \in DOMAIN reminders : /\ reminders[i].kind = "Reminder" <=> reminders[i].level > 0
                                   /\ reminders[i].entries \subseteq reminders[i].about
    /\ Untagged({"draft"}) =>
          \A i, j \in DOMAIN reminders : i # j /\ Alike(i, j) => reminders[i].about \cap reminders[j].about = {}

RemInv == RemTypeOK /\ Charged /\ ChargedOnce /\ LevelsSound /\ DraftsSound
-----------------------------------------------------------------------------
\* A nonempty finite set of numbers has a greatest.
LEMMA GreatestExists ==
    ASSUME NEW S, IsFiniteSet(S), S # {}, S \subseteq Nat
    PROVE  Max(S) \in S /\ \A m \in S : m <= Max(S)
<1>1. PICK x \in S : \A y \in S : y <= x
  BY HasGreatest
<1>2. \A y \in S : x >= y
  BY <1>1
<1>3. Max(S) \in S /\ \A m \in S : Max(S) >= m
  BY <1>2 DEF Max
<1> QED
  BY <1>3

LEMMA NoErrandTyped ==
    /\ NoErrand \in CollectorType /\ NoErrand.op = "idle" /\ NoErrand.kind = "Memo" /\ NoErrand.level = 0
    /\ 0 \in Reachable /\ LowerOf(Levels, MaxReminders) \in Nat
    /\ \A l \in Reachable : l \in Nat /\ l <= Levels /\ l <= MaxReminders
<1>1. LowerOf(Levels, MaxReminders) \in Nat
      /\ LowerOf(Levels, MaxReminders) <= Levels /\ LowerOf(Levels, MaxReminders) <= MaxReminders
  BY ReminderAssumption DEF LowerOf
<1>2. 0 \in Reachable /\ \A l \in Reachable : l \in Nat /\ l <= Levels /\ l <= MaxReminders
  BY <1>1, ReminderAssumption DEF Reachable
<1>3. "Memo" \in Kinds
  BY DEF Kinds
<1> QED
  BY <1>1, <1>2, <1>3 DEF NoErrand, CollectorType

LEMMA RemindersTyped ==
    ASSUME RemTypeOK
    PROVE  /\ DOMAIN reminders = 1 .. Len(reminders) /\ Len(reminders) \in Nat
           /\ \A i \in DOMAIN reminders : /\ reminders[i] \in ReminderType /\ reminders[i].level \in Reachable
                                          /\ reminders[i].entries \subseteq OpenEntries
           /\ \A k \in Collectors : collector[k] \in CollectorType
           /\ \A e \in OpenEntries : levelOf[e] \in Reachable
           /\ DOMAIN feeEntries = 1 .. Len(feeEntries) /\ Len(feeEntries) \in Nat
           /\ \A n \in DOMAIN feeEntries : feeEntries[n] \in DOMAIN reminders
<1>1. reminders \in Seq(ReminderType) /\ feeEntries \in Seq(DOMAIN reminders)
      /\ collector \in [Collectors -> CollectorType] /\ levelOf \in [OpenEntries -> Reachable]
  BY DEF RemTypeOK
<1>2. DOMAIN reminders = 1 .. Len(reminders) /\ Len(reminders) \in Nat /\ \A i \in DOMAIN reminders : reminders[i] \in ReminderType
  BY <1>1
<1>3. \A i \in DOMAIN reminders : reminders[i].level \in Reachable /\ reminders[i].entries \subseteq OpenEntries
  BY <1>2 DEF ReminderType
<1>4. DOMAIN feeEntries = 1 .. Len(feeEntries) /\ Len(feeEntries) \in Nat
      /\ \A n \in DOMAIN feeEntries : feeEntries[n] \in DOMAIN reminders
  <2> DEFINE D == DOMAIN reminders
  <2>1. feeEntries \in Seq(D)
    BY <1>1
  <2> HIDE DEF D
  <2>2. DOMAIN feeEntries = 1 .. Len(feeEntries) /\ Len(feeEntries) \in Nat
        /\ \A n \in DOMAIN feeEntries : feeEntries[n] \in D
    BY <2>1
  <2> QED
    BY <2>2 DEF D
<1> QED
  BY <1>1, <1>2, <1>3, <1>4

\* What a step does to one request and to one document.
ErrandIs(k, v) ==
    /\ collector' = [collector EXCEPT ![k] = v] /\ v \in CollectorType
    /\ v.op \notin {"idle", "draft"} => v.doc \in DOMAIN reminders'
    /\ v.op = "lines" => v.left \subseteq reminders'[v.doc].about
    /\ v.kind = "Reminder" <=> v.level > 0
AboutKept ==
    /\ DOMAIN reminders \subseteq DOMAIN reminders'
    /\ \A i \in DOMAIN reminders : reminders'[i].about = reminders[i].about
DocumentMoved(n) ==
    /\ n \in DOMAIN reminders /\ DOMAIN reminders' = DOMAIN reminders
    /\ \A i \in DOMAIN reminders : i # n => reminders'[i] = reminders[i]
    /\ reminders'[n].kind = reminders[n].kind /\ reminders'[n].level = reminders[n].level
    /\ reminders'[n].about = reminders[n].about

LEMMA ErrandChanged ==
    ASSUME RemTypeOK, NEW k \in Collectors, NEW v, ErrandIs(k, v), AboutKept
    PROVE  /\ collector' \in [Collectors -> CollectorType] /\ collector'[k] = v
           /\ \A j \in Collectors : j # k => collector'[j] = collector[j]
           /\ \A j \in Collectors :
                 /\ collector'[j].op \notin {"idle", "draft"} => collector'[j].doc \in DOMAIN reminders'
                 /\ collector'[j].op = "lines" => collector'[j].left \subseteq reminders'[collector'[j].doc].about
<1>1. /\ collector \in [Collectors -> CollectorType]
      /\ \A j \in Collectors :
            /\ collector[j].op \notin {"idle", "draft"} => collector[j].doc \in DOMAIN reminders
            /\ collector[j].op = "lines" => collector[j].left \subseteq reminders[collector[j].doc].about
  BY DEF RemTypeOK
<1>2. /\ collector' = [collector EXCEPT ![k] = v] /\ v \in CollectorType
      /\ v.op \notin {"idle", "draft"} => v.doc \in DOMAIN reminders'
      /\ v.op = "lines" => v.left \subseteq reminders'[v.doc].about
  BY DEF ErrandIs
<1>3. /\ collector' \in [Collectors -> CollectorType] /\ collector'[k] = v
      /\ \A j \in Collectors : j # k => collector'[j] = collector[j]
  BY <1>1, <1>2
<1> QED
  BY <1>1, <1>2, <1>3 DEF AboutKept

LEMMA DocumentChanged ==
    ASSUME RemTypeOK, NEW n \in DOMAIN reminders, NEW r \in ReminderType, reminders' = [reminders EXCEPT ![n] = r],
           r.kind = reminders[n].kind, r.level = reminders[n].level, r.about = reminders[n].about
    PROVE  reminders' \in Seq(ReminderType) /\ DocumentMoved(n) /\ AboutKept /\ reminders'[n] = r
<1>1. reminders \in Seq(ReminderType) /\ DOMAIN reminders = 1 .. Len(reminders) /\ n \in 1 .. Len(reminders)
  BY RemindersTyped DEF RemTypeOK
<1>2. reminders' \in Seq(ReminderType) /\ DOMAIN reminders' = DOMAIN reminders
      /\ \A i \in DOMAIN reminders : reminders'[i] = IF i = n THEN r ELSE reminders[i]
  BY <1>1
<1> QED
  BY <1>2 DEF DocumentMoved, AboutKept

LEMMA RemMarksGrow ==
    ASSUME reminderMarks \subseteq reminderMarks', NEW names, Untagged(names)'
    PROVE  Untagged(names)
BY DEF Untagged

LEMMA RemInitInv == RemInit => RemInv
<1> SUFFICES ASSUME RemInit PROVE RemInv
  OBVIOUS
<1>1. /\ reminders = <<>> /\ feeJournals = {} /\ feeEntries = <<>> /\ reminderMarks = {}
      /\ levelOf = [e \in OpenEntries |-> 0] /\ dunning = [e \in OpenEntries |-> "undue"]
      /\ collector \in [Collectors -> CollectorType]
      /\ \A k \in Collectors : collector[k] = NoErrand
  BY NoErrandTyped DEF RemInit
<1>2. DOMAIN reminders = {} /\ DOMAIN feeEntries = {} /\ reminders \in Seq(ReminderType)
  BY <1>1
<1>3. feeEntries \in Seq(DOMAIN reminders)
  <2> DEFINE D == DOMAIN reminders
  <2> HIDE DEF D
  <2>1. feeEntries \in Seq(D)
    BY <1>1
  <2> QED
    BY <2>1 DEF D
<1>4. RemTypeOK
  BY <1>1, <1>2, <1>3, NoErrandTyped DEF RemTypeOK
<1>5. IssuedOnes = {} /\ \A e \in OpenEntries : Listing(e) = {}
  BY <1>2 DEF IssuedOnes, Listing
<1>6. Charged /\ ChargedOnce
  BY <1>1, <1>2, <1>5 DEF Charged, ChargedOnce
<1>7. \A e \in OpenEntries : levelOf[e] = 0
  BY <1>1
<1>8. LevelsSound
  BY <1>1, <1>2, <1>5, <1>7, NoErrandTyped DEF LevelsSound, LevelStands, OneBelow
<1>9. DraftsSound
  BY <1>1, <1>2, NoErrandTyped DEF DraftsSound
<1> QED
  BY <1>4, <1>6, <1>8, <1>9 DEF RemInv

\* A request reads something, or ends; nothing else changes.
LEMMA ErrandInv ==
    ASSUME RemInv, NEW k \in Collectors, NEW v, ErrandIs(k, v),
           Untagged({"deleted", "partial"})' => OneBelow(v.level),
           UNCHANGED <<levelOf, dunning, reminders, feeJournals, feeEntries>>,
           reminderMarks \subseteq reminderMarks', reminderMarks' \subseteq reminderMarks \cup {"partial"}
    PROVE  RemInv'
<1>1. RemTypeOK /\ AboutKept
  BY DEF RemInv, AboutKept
<1>2. /\ collector' \in [Collectors -> CollectorType] /\ collector'[k] = v
      /\ \A j \in Collectors : j # k => collector'[j] = collector[j]
      /\ \A j \in Collectors :
            /\ collector'[j].op \notin {"idle", "draft"} => collector'[j].doc \in DOMAIN reminders'
            /\ collector'[j].op = "lines" => collector'[j].left \subseteq reminders'[collector'[j].doc].about
  BY <1>1, ErrandChanged
<1>3. RemTypeOK'
  <2>1. reminderMarks' \subseteq {"twice", "deleted", "partial", "draft"}
    BY <1>1 DEF RemTypeOK
  <2> QED
    BY <1>1, <1>2, <2>1 DEF RemTypeOK
<1>4. IssuedOnes' = IssuedOnes /\ \A e : Listing(e)' = Listing(e)
  BY DEF IssuedOnes, Listing
<1>5. \A names : Untagged(names)' => Untagged(names)
  BY RemMarksGrow
<1>6. Charged' /\ ChargedOnce'
  BY <1>4, <1>5 DEF RemInv, Charged, ChargedOnce
<1>7. LevelsSound'
  <2> SUFFICES ASSUME Untagged({"deleted", "partial"})'
               PROVE  /\ \A e \in OpenEntries : LevelStands(e)'
                      /\ \A i \in DOMAIN reminders' : OneBelow(reminders[i].level)'
                      /\ \A j \in Collectors : OneBelow(collector[j].level)'
    BY DEF LevelsSound
  <2>1. /\ \A e \in OpenEntries : LevelStands(e)
        /\ \A i \in DOMAIN reminders : OneBelow(reminders[i].level)
        /\ \A j \in Collectors : OneBelow(collector[j].level)
    BY <1>5 DEF RemInv, LevelsSound
  <2>2. \A e \in OpenEntries : LevelStands(e)'
    BY <1>4, <2>1 DEF LevelStands
  <2>3. \A j \in Collectors : OneBelow(collector'[j].level)
    BY <1>2, <2>1
  <2> QED
    BY <1>4, <2>1, <2>2, <2>3 DEF OneBelow
<1>8. DraftsSound'
  <2>1. \A j \in Collectors : collector'[j].kind = "Reminder" <=> collector'[j].level > 0
    BY <1>2 DEF RemInv, DraftsSound, ErrandIs
  <2> QED
    BY <1>5, <2>1 DEF RemInv, DraftsSound, Alike
<1> QED
  BY <1>3, <1>6, <1>7, <1>8 DEF RemInv

LEMMA PriorLevelIs ==
    ASSUME RemTypeOK
    PROVE  PriorLevel \in Reachable /\ (PriorLevel = 0 \/ \E e \in OpenEntries : levelOf[e] = PriorLevel)
<1> DEFINE S == {0} \cup {levelOf[e] : e \in Overdue}
<1>1. S \subseteq Reachable /\ S # {} /\ 0 \in Reachable
  BY RemindersTyped, NoErrandTyped DEF Overdue
<1>2. Reachable \subseteq Nat /\ IsFiniteSet(Reachable)
  BY NoErrandTyped, FS_Interval DEF Reachable
<1>3. IsFiniteSet(S)
  <2> HIDE DEF S
  <2> QED
    BY <1>1, <1>2, FS_Subset
<1>4. Max(S) \in S
  <2> HIDE DEF S
  <2> QED
    BY <1>1, <1>2, <1>3, GreatestExists
<1>5. PriorLevel = Max(S)
  BY DEF PriorLevel
<1> HIDE DEF S
<1>6. PriorLevel \in S
  BY <1>4, <1>5
<1> QED
  BY <1>1, <1>6 DEF S, Overdue

LEMMA ReadOverdueInv == ASSUME RemInv, NEW k \in Collectors, NEW kind \in Kinds, ReadOverdue(k, kind) PROVE RemInv'
<1> DEFINE next == LowerOf(PriorLevel + 1, Levels)
<1>1. RemTypeOK
  BY DEF RemInv
<1>2. PICK p \in Reachable : p = PriorLevel /\ (p = 0 \/ \E e \in OpenEntries : levelOf[e] = p)
  BY <1>1, PriorLevelIs
<1>3. p \in Nat /\ p <= Levels /\ Levels \in Nat \ {0} /\ MaxReminders \in Nat /\ (kind = "Reminder" => p < MaxReminders)
  BY <1>2, NoErrandTyped, ReminderAssumption DEF ReadOverdue
<1>4. PICK l \in Nat : l = IF kind = "Reminder" THEN next ELSE 0
  BY <1>2, <1>3 DEF LowerOf
<1>5. /\ l \in Reachable /\ (kind = "Reminder" <=> l > 0)
      /\ l = 0 \/ l = p + 1 \/ l = p
  <2>1. CASE kind = "Reminder"
    <3>1. l = IF p + 1 < Levels THEN p + 1 ELSE Levels
      BY <1>2, <1>4, <2>1 DEF LowerOf
    <3>2. l > 0 /\ l <= Levels /\ l <= MaxReminders /\ (l = p + 1 \/ l = p)
      BY <1>3, <2>1, <3>1
    <3>3. l \in Reachable
      BY <1>3, <3>2 DEF Reachable, LowerOf
    <3> QED
      BY <2>1, <3>2, <3>3
  <2>2. CASE kind # "Reminder"
    BY <1>4, <2>2, NoErrandTyped
  <2> QED
    BY <2>1, <2>2
<1>6. PICK left \in SUBSET OpenEntries : left = Overdue
  BY DEF Overdue
<1>7. PICK v : v = [NoErrand EXCEPT !.op = "draft", !.kind = kind, !.left = left, !.level = l]
  OBVIOUS
<1>8. v \in CollectorType /\ v.op = "draft" /\ v.kind = kind /\ v.level = l
  BY <1>5, <1>6, <1>7, NoErrandTyped DEF CollectorType
<1>9. collector' = [collector EXCEPT ![k] = v]
  BY <1>4, <1>6, <1>7 DEF ReadOverdue
<1>10. ErrandIs(k, v)
  BY <1>5, <1>8, <1>9 DEF ErrandIs
<1>11. UNCHANGED <<levelOf, dunning, reminders, feeJournals, feeEntries, reminderMarks>>
  BY DEF ReadOverdue
<1>12. ASSUME Untagged({"deleted", "partial"})' PROVE OneBelow(l)
  <2>1. Untagged({"deleted", "partial"})
    BY <1>11, <1>12 DEF Untagged
  <2>2. /\ \A e \in OpenEntries : LevelStands(e)
        /\ \A i \in DOMAIN reminders : OneBelow(reminders[i].level)
    BY <2>1 DEF RemInv, LevelsSound
  <2>3. CASE l = 0 \/ p = 0
    <3>1. ~(l > 1)
      BY <1>5, <2>3
    <3> QED
      BY <3>1 DEF OneBelow
  <2>4. CASE p # 0
    <3>1. PICK i \in IssuedOnes : reminders[i].level = p
      BY <1>2, <2>2, <2>4 DEF LevelStands, Listing
    <3>2. CASE l = p + 1
      <4>1. l - 1 = p
        BY <1>3, <3>2
      <4> QED
        BY <3>1, <4>1 DEF OneBelow
    <3>3. CASE l = p
      BY <2>2, <3>1, <3>3 DEF IssuedOnes
    <3> QED
      BY <1>5, <2>3, <3>2, <3>3
  <2> QED
    BY <2>3, <2>4
<1> QED
  BY <1>8, <1>10, <1>11, <1>12, ErrandInv

LEMMA CollectorCrashInv == ASSUME RemInv, NEW k \in Collectors, CollectorCrash(k) PROVE RemInv'
<1>1. ErrandIs(k, NoErrand)
  BY NoErrandTyped DEF CollectorCrash, ErrandIs
<1>2. /\ UNCHANGED <<levelOf, dunning, reminders, feeJournals, feeEntries>>
      /\ reminderMarks \subseteq reminderMarks' /\ reminderMarks' \subseteq reminderMarks \cup {"partial"}
  BY DEF CollectorCrash, Tag
<1>3. OneBelow(NoErrand.level)
  BY NoErrandTyped DEF OneBelow
<1> QED
  BY <1>1, <1>2, <1>3, ErrandInv

LEMMA AskReminderInv ==
    ASSUME RemInv, NEW k \in Collectors, NEW i \in DOMAIN reminders, NEW op \in {"issue", "delete"}, AskReminder(k, i, op)
    PROVE  RemInv'
<1>1. PICK v : v = [NoErrand EXCEPT !.op = op, !.doc = i]
  OBVIOUS
<1>2. i \in Nat
  BY RemindersTyped DEF RemInv
<1>3. v \in CollectorType /\ v.op = op /\ v.doc = i /\ v.kind = "Memo" /\ v.level = 0
  BY <1>1, <1>2, NoErrandTyped DEF CollectorType
<1>4. UNCHANGED <<levelOf, dunning, reminders, feeJournals, feeEntries, reminderMarks>>
  BY DEF AskReminder
<1>5. collector' = [collector EXCEPT ![k] = v]
  BY <1>1 DEF AskReminder
<1>6. ErrandIs(k, v)
  BY <1>3, <1>4, <1>5 DEF ErrandIs
<1>7. OneBelow(v.level)
  BY <1>3 DEF OneBelow
<1> QED
  BY <1>4, <1>6, <1>7, ErrandInv

LEMMA MoveEntryInv == ASSUME RemInv, NEW e \in OpenEntries, MoveEntry(e) PROVE RemInv'
<1>1. UNCHANGED <<levelOf, reminders, feeJournals, feeEntries, collector, reminderMarks>>
  BY DEF MoveEntry
<1>2. dunning' \in [OpenEntries -> {"undue", "overdue", "paid"}]
  <2>1. dunning \in [OpenEntries -> {"undue", "overdue", "paid"}]
    BY DEF RemInv, RemTypeOK
  <2> QED
    BY <2>1 DEF MoveEntry
<1>3. RemTypeOK'
  BY <1>1, <1>2 DEF RemInv, RemTypeOK
<1>4. IssuedOnes' = IssuedOnes /\ \A x : Listing(x)' = Listing(x)
  BY <1>1 DEF IssuedOnes, Listing
<1>5. Charged' /\ ChargedOnce'
  BY <1>1, <1>4 DEF RemInv, Charged, ChargedOnce, Untagged
<1>6. LevelsSound'
  BY <1>1, <1>4 DEF RemInv, LevelsSound, LevelStands, OneBelow, Untagged
<1>7. DraftsSound'
  BY <1>1 DEF RemInv, DraftsSound, Alike, Untagged
<1> QED
  BY <1>3, <1>5, <1>6, <1>7 DEF RemInv

LEMMA InsertReminderInv == ASSUME RemInv, NEW k \in Collectors, InsertReminder(k) PROVE RemInv'
<1>1. RemTypeOK
  BY DEF RemInv
<1>2. DOMAIN reminders = 1 .. Len(reminders) /\ Len(reminders) \in Nat /\ reminders \in Seq(ReminderType)
  BY <1>1, RemindersTyped DEF RemTypeOK
<1>3. PICK n \in Nat : n = Len(reminders) + 1
  BY <1>2
<1>4. PICK draft \in CollectorType : draft = collector[k] /\ draft.op = "draft"
  BY <1>1, RemindersTyped DEF InsertReminder, Holds
<1>5. PICK r : r = [kind |-> draft.kind, level |-> draft.level, about |-> draft.left, entries |-> {}, status |-> "Open"]
  OBVIOUS
<1>6. /\ r \in ReminderType /\ r.kind = draft.kind /\ r.level = draft.level /\ r.about = draft.left
      /\ r.entries = {} /\ r.status = "Open"
  BY <1>4, <1>5 DEF CollectorType, ReminderType
<1>7. reminders' = Append(reminders, r)
  BY <1>4, <1>5 DEF InsertReminder
<1>8. /\ reminders' \in Seq(ReminderType) /\ DOMAIN reminders' = DOMAIN reminders \cup {n} /\ n \notin DOMAIN reminders
      /\ reminders'[n] = r /\ \A i \in DOMAIN reminders : reminders'[i] = reminders[i]
  BY <1>2, <1>3, <1>6, <1>7
<1>9. PICK v : v = [NoErrand EXCEPT !.op = "lines", !.doc = n, !.left = draft.left]
  OBVIOUS
<1>10. /\ v \in CollectorType /\ v.op = "lines" /\ v.doc = n /\ v.left = draft.left
       /\ v.kind = "Memo" /\ v.level = 0
  BY <1>4, <1>9, NoErrandTyped DEF CollectorType
<1>11. collector' = [collector EXCEPT ![k] = v] /\ UNCHANGED <<levelOf, dunning, feeJournals, feeEntries>>
  BY <1>3, <1>4, <1>9 DEF InsertReminder
<1>12. ErrandIs(k, v) /\ AboutKept
  BY <1>6, <1>8, <1>10, <1>11 DEF ErrandIs, AboutKept
<1>13. /\ collector' \in [Collectors -> CollectorType] /\ collector'[k] = v
       /\ \A j \in Collectors : j # k => collector'[j] = collector[j]
       /\ \A j \in Collectors :
             /\ collector'[j].op \notin {"idle", "draft"} => collector'[j].doc \in DOMAIN reminders'
             /\ collector'[j].op = "lines" => collector'[j].left \subseteq reminders'[collector'[j].doc].about
  BY <1>1, <1>12, ErrandChanged
<1>14. reminderMarks' = reminderMarks \cup
          Tag(\E i \in DOMAIN reminders :
                 /\ reminders[i].kind = "Reminder" /\ draft.kind = "Reminder"
                 /\ reminders[i].level = draft.level /\ reminders[i].status # "Dropped"
                 /\ reminders[i].about \cap draft.left # {}, "draft")
  BY <1>4 DEF InsertReminder
<1>15. reminderMarks \subseteq reminderMarks' /\ reminderMarks' \subseteq reminderMarks \cup {"draft"}
  BY <1>14 DEF Tag
<1>16. RemTypeOK'
  <2>1. feeJournals' \subseteq DOMAIN reminders'
    BY <1>1, <1>8, <1>11 DEF RemTypeOK
  <2>2. feeEntries' \in Seq(DOMAIN reminders')
    <3> DEFINE D == DOMAIN reminders
               E == DOMAIN reminders'
    <3>1. feeEntries \in Seq(D) /\ D \subseteq E
      BY <1>1, <1>8 DEF RemTypeOK
    <3> HIDE DEF D, E
    <3>2. feeEntries \in Seq(E)
      BY <3>1
    <3> QED
      BY <1>11, <3>2 DEF E
  <2>3. reminderMarks' \subseteq {"twice", "deleted", "partial", "draft"}
    BY <1>1, <1>15 DEF RemTypeOK
  <2> QED
    BY <1>1, <1>8, <1>11, <1>13, <2>1, <2>2, <2>3 DEF RemTypeOK
<1>17. IssuedOnes' = IssuedOnes
  BY <1>6, <1>8 DEF IssuedOnes
<1>18. /\ \A i \in IssuedOnes : reminders'[i] = reminders[i]
       /\ \A e : Listing(e)' = Listing(e) /\ Listing(e) \subseteq DOMAIN reminders
  BY <1>8, <1>17 DEF IssuedOnes, Listing
<1>19. \A names : Untagged(names)' => Untagged(names)
  BY <1>15, RemMarksGrow
<1>20. Charged'
  BY <1>11, <1>17, <1>19 DEF RemInv, Charged
<1>21. ChargedOnce'
  <2>1. n \notin IssuedOnes /\ \A m \in DOMAIN feeEntries : feeEntries[m] # n
    BY <1>1, <1>8, RemindersTyped DEF IssuedOnes
  <2> QED
    BY <1>8, <1>11, <1>17, <1>19, <2>1 DEF RemInv, ChargedOnce
<1>22. LevelsSound'
  <2> SUFFICES ASSUME Untagged({"deleted", "partial"})'
               PROVE  /\ \A e \in OpenEntries : LevelStands(e)'
                      /\ \A i \in DOMAIN reminders' : OneBelow(reminders[i].level)'
                      /\ \A j \in Collectors : OneBelow(collector[j].level)'
    BY DEF LevelsSound
  <2>1. /\ \A e \in OpenEntries : LevelStands(e)
        /\ \A i \in DOMAIN reminders : OneBelow(reminders[i].level)
        /\ \A j \in Collectors : OneBelow(collector[j].level)
    BY <1>19 DEF RemInv, LevelsSound
  <2>2. \A e \in OpenEntries : LevelStands(e)'
    BY <1>8, <1>11, <1>18, <2>1 DEF LevelStands
  <2>3. \A l : OneBelow(l) => (l > 1 => \E j \in IssuedOnes' : reminders'[j].level = l - 1)
    BY <1>17, <1>18 DEF OneBelow
  <2>4. OneBelow(v.level) /\ OneBelow(r.level)
    BY <1>4, <1>6, <1>10, <2>1 DEF OneBelow
  <2>5. \A i \in DOMAIN reminders' : OneBelow(reminders'[i].level)
    BY <1>8, <2>1, <2>4
  <2>6. \A j \in Collectors : OneBelow(collector'[j].level)
    BY <1>13, <2>1, <2>4
  <2> QED
    BY <2>2, <2>3, <2>5, <2>6 DEF OneBelow
<1>23. DraftsSound'
  <2>1. \A j \in Collectors : collector'[j].kind = "Reminder" <=> collector'[j].level > 0
    BY <1>10, <1>13, ErrandChanged DEF RemInv, DraftsSound
  <2>2. draft.kind = "Reminder" <=> draft.level > 0
    BY <1>4 DEF RemInv, DraftsSound
  <2>3. \A i \in DOMAIN reminders' : /\ reminders'[i].kind = "Reminder" <=> reminders'[i].level > 0
                                     /\ reminders'[i].entries \subseteq reminders'[i].about
    BY <1>6, <1>8, <2>2 DEF RemInv, DraftsSound
  <2>4. ASSUME Untagged({"draft"})', NEW i \in DOMAIN reminders', NEW j \in DOMAIN reminders', i # j, Alike(i, j)'
        PROVE  reminders'[i].about \cap reminders'[j].about = {}
    <3>1. ASSUME NEW x \in DOMAIN reminders, reminders[x].kind = "Reminder", draft.kind = "Reminder",
                 reminders[x].level = draft.level, reminders[x].status # "Dropped"
          PROVE  reminders[x].about \cap draft.left = {}
      BY <1>14, <2>4, <3>1 DEF Untagged, Tag
    <3>2. CASE i = n
      <4>1. j \in DOMAIN reminders
        BY <1>8, <2>4, <3>2
      <4> QED
        BY <1>6, <1>8, <2>4, <3>1, <3>2, <4>1 DEF Alike
    <3>3. CASE j = n
      <4>1. i \in DOMAIN reminders
        BY <1>8, <2>4, <3>3
      <4> QED
        BY <1>6, <1>8, <2>4, <3>1, <3>3, <4>1 DEF Alike
    <3>4. CASE i \in DOMAIN reminders /\ j \in DOMAIN reminders
      BY <1>8, <1>19, <2>4, <3>4 DEF RemInv, DraftsSound, Alike
    <3> QED
      BY <1>8, <3>2, <3>3, <3>4
  <2> QED
    BY <2>1, <2>3, <2>4 DEF DraftsSound
<1> QED
  BY <1>16, <1>20, <1>21, <1>22, <1>23 DEF RemInv

\* Of documents that moved, with the charges, levels and marks that go with it.
LEMMA DocumentInv ==
    ASSUME RemInv, NEW k \in Collectors, NEW v, ErrandIs(k, v), v.level = 0,
           NEW n \in DOMAIN reminders, DocumentMoved(n), AboutKept, reminders' \in Seq(ReminderType),
           reminders'[n].entries \subseteq reminders'[n].about,
           reminders[n].status = "Dropped" => reminders'[n].status = "Dropped",
           dunning' = dunning, levelOf' \in [OpenEntries -> Reachable],
           feeJournals' \subseteq DOMAIN reminders, feeEntries' \in Seq(DOMAIN reminders'),
           reminderMarks \subseteq reminderMarks', reminderMarks' \subseteq {"twice", "deleted", "partial", "draft"},
           Charged', ChargedOnce',
           Untagged({"deleted", "partial"})' =>
              IssuedOnes \subseteq IssuedOnes' /\ \A e \in OpenEntries : LevelStands(e)'
    PROVE  RemInv'
<1>1. RemTypeOK
  BY DEF RemInv
<1>2. /\ collector' \in [Collectors -> CollectorType] /\ collector'[k] = v
      /\ \A j \in Collectors : j # k => collector'[j] = collector[j]
      /\ \A j \in Collectors :
            /\ collector'[j].op \notin {"idle", "draft"} => collector'[j].doc \in DOMAIN reminders'
            /\ collector'[j].op = "lines" => collector'[j].left \subseteq reminders'[collector'[j].doc].about
  BY <1>1, ErrandChanged
<1>3. DOMAIN reminders' = DOMAIN reminders
  BY DEF DocumentMoved
<1>4. RemTypeOK'
  BY <1>1, <1>2, <1>3 DEF RemTypeOK
<1>5. \A names : Untagged(names)' => Untagged(names)
  BY RemMarksGrow
<1>6. \A i \in DOMAIN reminders : reminders'[i].kind = reminders[i].kind /\ reminders'[i].level = reminders[i].level
                                  /\ reminders'[i].about = reminders[i].about
                                  /\ (reminders'[i].status # "Dropped" => reminders[i].status # "Dropped")
  BY DEF DocumentMoved
<1>7. LevelsSound'
  <2> SUFFICES ASSUME Untagged({"deleted", "partial"})'
               PROVE  /\ \A e \in OpenEntries : LevelStands(e)'
                      /\ \A i \in DOMAIN reminders' : OneBelow(reminders[i].level)'
                      /\ \A j \in Collectors : OneBelow(collector[j].level)'
    BY DEF LevelsSound
  <2>1. /\ \A i \in DOMAIN reminders : OneBelow(reminders[i].level)
        /\ \A j \in Collectors : OneBelow(collector[j].level)
    BY <1>5 DEF RemInv, LevelsSound
  <2>2. \A l : OneBelow(l) => (l > 1 => \E j \in IssuedOnes' : reminders'[j].level = l - 1)
    BY <1>6 DEF OneBelow, IssuedOnes
  <2>3. OneBelow(0)
    BY DEF OneBelow
  <2>4. \A i \in DOMAIN reminders' : OneBelow(reminders'[i].level)
    BY <1>3, <1>6, <2>1
  <2>5. \A j \in Collectors : OneBelow(collector'[j].level)
    BY <1>2, <2>1, <2>3
  <2> QED
    BY <2>2, <2>4, <2>5 DEF OneBelow
<1>8. DraftsSound'
  <2>1. \A j \in Collectors : collector'[j].kind = "Reminder" <=> collector'[j].level > 0
    BY <1>2 DEF RemInv, DraftsSound, ErrandIs
  <2>2. \A i \in DOMAIN reminders' : /\ reminders'[i].kind = "Reminder" <=> reminders'[i].level > 0
                                     /\ reminders'[i].entries \subseteq reminders'[i].about
    <3>1. \A i \in DOMAIN reminders : /\ reminders[i].kind = "Reminder" <=> reminders[i].level > 0
                                      /\ reminders[i].entries \subseteq reminders[i].about
      BY DEF RemInv, DraftsSound
    <3> QED
      BY <1>3, <1>6, <3>1 DEF DocumentMoved
  <2>3. ASSUME Untagged({"draft"})', NEW i \in DOMAIN reminders', NEW j \in DOMAIN reminders', i # j, Alike(i, j)'
        PROVE  reminders'[i].about \cap reminders'[j].about = {}
    <3>1. Alike(i, j)
      BY <1>3, <1>6, <2>3 DEF Alike
    <3> QED
      BY <1>3, <1>5, <1>6, <2>3, <3>1 DEF RemInv, DraftsSound
  <2> QED
    BY <2>1, <2>2, <2>3 DEF DraftsSound
<1> QED
  BY <1>4, <1>7, <1>8 DEF RemInv

LEMMA WorkingOn ==
    ASSUME RemTypeOK, NEW k \in Collectors, collector[k].op \notin {"idle", "draft"}
    PROVE  \E i \in DOMAIN reminders : i = collector[k].doc /\ i \in Nat
BY RemindersTyped DEF RemTypeOK

LEMMA InsertLineInv == ASSUME RemInv, NEW k \in Collectors, InsertLine(k) PROVE RemInv'
<1>1. RemTypeOK /\ collector[k].op = "lines"
  BY Zenon DEF RemInv, InsertLine, Holds
<1>2. PICK i \in DOMAIN reminders : i = collector[k].doc /\ i \in Nat
  BY <1>1, WorkingOn
<1>3. PICK left \in SUBSET OpenEntries : left = collector[k].left /\ left \subseteq reminders[i].about
  BY <1>1, <1>2, RemindersTyped DEF RemTypeOK, CollectorType
<1>4. UNCHANGED <<levelOf, dunning, feeJournals, feeEntries>>
  BY Zenon DEF InsertLine
<1>5. CASE /\ reminders[i].status \in {"Dropped", "Gone"} /\ collector' = [collector EXCEPT ![k] = NoErrand]
           /\ UNCHANGED <<reminders, reminderMarks>>
  <2>1. ErrandIs(k, NoErrand) /\ OneBelow(NoErrand.level)
    BY <1>5, NoErrandTyped DEF ErrandIs, OneBelow
  <2> QED
    BY <1>4, <1>5, <2>1, ErrandInv
<1>6. ASSUME NEW e \in left, reminders[i].status \in {"Open", "Issued"},
             reminders' = [reminders EXCEPT ![i].entries = @ \cup {e}],
             collector' = [collector EXCEPT ![k] =
                 IF left = {e} THEN NoErrand ELSE [NoErrand EXCEPT !.op = "lines", !.doc = i, !.left = left \ {e}]],
             reminderMarks' = reminderMarks \cup Tag(reminders[i].status = "Issued", "partial")
      PROVE  RemInv'
  <2>1. PICK lines \in SUBSET OpenEntries : lines = reminders[i].entries \cup {e}
    BY <1>1, <1>3, RemindersTyped
  <2>2. PICK r : r = [reminders[i] EXCEPT !.entries = lines]
    OBVIOUS
  <2>3. reminders[i] \in ReminderType
    BY <1>1, RemindersTyped
  <2>4. /\ r \in ReminderType /\ r.kind = reminders[i].kind /\ r.level = reminders[i].level
        /\ r.about = reminders[i].about /\ r.entries = lines /\ r.status = reminders[i].status
    BY <2>1, <2>2, <2>3 DEF ReminderType
  <2>5. reminders' = [reminders EXCEPT ![i] = r]
    BY <1>6, <2>1, <2>2
  <2>6. reminders' \in Seq(ReminderType) /\ DocumentMoved(i) /\ AboutKept /\ reminders'[i] = r
    BY <1>1, <2>4, <2>5, DocumentChanged
  <2>7. DOMAIN reminders' = DOMAIN reminders /\ \A j \in DOMAIN reminders : j # i => reminders'[j] = reminders[j]
    BY <2>6 DEF DocumentMoved
  <2>8. PICK v : v = IF left = {e} THEN NoErrand ELSE [NoErrand EXCEPT !.op = "lines", !.doc = i, !.left = left \ {e}]
    OBVIOUS
  <2>9. /\ v \in CollectorType /\ v.kind = "Memo" /\ v.level = 0 /\ v.op \in {"idle", "lines"}
        /\ v.op = "lines" => v.doc = i /\ v.left \subseteq left
    <3>1. CASE left = {e}
      BY <2>8, <3>1, NoErrandTyped
    <3>2. CASE left # {e}
      <4>1. v = [NoErrand EXCEPT !.op = "lines", !.doc = i, !.left = left \ {e}]
        BY <2>8, <3>2
      <4>2. left \ {e} \in SUBSET OpenEntries
        OBVIOUS
      <4> QED
        BY <1>2, <4>1, <4>2, NoErrandTyped DEF CollectorType
    <3> QED
      BY <3>1, <3>2
  <2>10. ErrandIs(k, v)
    <3>1. collector' = [collector EXCEPT ![k] = v]
      BY <1>6, <2>8
    <3> QED
      BY <1>3, <2>4, <2>6, <2>7, <2>9, <3>1 DEF ErrandIs
  <2>11. IssuedOnes' = IssuedOnes
    BY <2>4, <2>6, <2>7 DEF IssuedOnes
  <2>12. reminderMarks \subseteq reminderMarks' /\ reminderMarks' \subseteq reminderMarks \cup {"partial"}
    BY <1>6 DEF Tag
  <2>13. \A names : Untagged(names)' => Untagged(names)
    BY <2>12, RemMarksGrow
  <2>14. Charged' /\ ChargedOnce'
    BY <1>4, <2>7, <2>11, <2>13 DEF RemInv, Charged, ChargedOnce
  <2>15. ASSUME Untagged({"deleted", "partial"})' PROVE \A x \in OpenEntries : LevelStands(x)'
    <3>1. i \notin IssuedOnes
      BY <1>6, <2>15 DEF Untagged, Tag, IssuedOnes
    <3>2. \A j \in IssuedOnes : reminders'[j] = reminders[j]
      BY <2>7, <3>1 DEF IssuedOnes
    <3>3. \A x : Listing(x)' = Listing(x) /\ Listing(x) \subseteq IssuedOnes
      BY <2>11, <3>2 DEF Listing
    <3>4. \A x \in OpenEntries : LevelStands(x)
      BY <2>13, <2>15 DEF RemInv, LevelsSound
    <3> QED
      BY <1>4, <3>2, <3>3, <3>4 DEF LevelStands
  <2>16. reminders'[i].entries \subseteq reminders'[i].about
    BY <1>3, <2>1, <2>4, <2>6 DEF RemInv, DraftsSound
  <2>17. /\ feeJournals' \subseteq DOMAIN reminders /\ levelOf' \in [OpenEntries -> Reachable]
         /\ reminderMarks' \subseteq {"twice", "deleted", "partial", "draft"} /\ dunning' = dunning
    BY <1>1, <1>4, <2>12 DEF RemTypeOK
  <2>18. feeEntries' \in Seq(DOMAIN reminders')
    BY <1>1, <1>4, <2>7 DEF RemTypeOK
  <2>19. reminders[i].status = "Dropped" => reminders'[i].status = "Dropped"
    BY <2>4, <2>6
  <2> QED
    BY <2>6, <2>9, <2>10, <2>11, <2>12, <2>14, <2>15, <2>16, <2>17, <2>18, <2>19, DocumentInv
<1>7. \/ /\ reminders[i].status \in {"Dropped", "Gone"} /\ collector' = [collector EXCEPT ![k] = NoErrand]
         /\ UNCHANGED <<reminders, reminderMarks>>
      \/ \E e \in left :
            /\ reminders[i].status \in {"Open", "Issued"}
            /\ reminders' = [reminders EXCEPT ![i].entries = @ \cup {e}]
            /\ collector' = [collector EXCEPT ![k] =
                 IF left = {e} THEN NoErrand ELSE [NoErrand EXCEPT !.op = "lines", !.doc = i, !.left = left \ {e}]]
            /\ reminderMarks' = reminderMarks \cup Tag(reminders[i].status = "Issued", "partial")
  BY <1>2, <1>3, Zenon DEF InsertLine
<1> QED
  BY <1>5, <1>6, <1>7, Zenon

LEMMA DeleteReminderInv == ASSUME RemInv, NEW k \in Collectors, DeleteReminder(k) PROVE RemInv'
<1>1. RemTypeOK /\ collector[k].op = "delete"
  BY DEF RemInv, DeleteReminder, Holds
<1>2. PICK i \in DOMAIN reminders : i = collector[k].doc /\ i \in Nat
  BY <1>1, WorkingOn
<1>3. reminders[i] \in ReminderType
  BY <1>1, RemindersTyped
<1>4. PICK st \in {"Gone", "Dropped"} : st = IF reminders[i].status \in {"Issued", "Gone"} THEN "Gone" ELSE "Dropped"
  OBVIOUS
<1>5. PICK r : r = [reminders[i] EXCEPT !.status = st]
  OBVIOUS
<1>6. /\ r \in ReminderType /\ r.kind = reminders[i].kind /\ r.level = reminders[i].level
      /\ r.about = reminders[i].about /\ r.entries = reminders[i].entries /\ r.status = st
  BY <1>3, <1>5 DEF ReminderType
<1>7. /\ UNCHANGED <<levelOf, dunning, feeJournals, feeEntries>> /\ collector' = [collector EXCEPT ![k] = NoErrand]
      /\ reminderMarks' = reminderMarks \cup Tag(reminders[i].status \in {"Issued", "Gone"}, "deleted")
  BY <1>2 DEF DeleteReminder
<1>8. reminders' = [reminders EXCEPT ![i] = r]
  <2>1. reminders' = [reminders EXCEPT ![i].status = IF @ \in {"Issued", "Gone"} THEN "Gone" ELSE "Dropped"]
    BY <1>2 DEF DeleteReminder
  <2> QED
    BY <1>4, <1>5, <2>1
<1>9. reminders' \in Seq(ReminderType) /\ DocumentMoved(i) /\ AboutKept /\ reminders'[i] = r
  BY <1>1, <1>6, <1>8, DocumentChanged
<1>10. DOMAIN reminders' = DOMAIN reminders /\ \A j \in DOMAIN reminders : j # i => reminders'[j] = reminders[j]
  BY <1>9 DEF DocumentMoved
<1>11. ErrandIs(k, NoErrand) /\ NoErrand.level = 0
  BY <1>7, NoErrandTyped DEF ErrandIs
<1>12. reminderMarks \subseteq reminderMarks' /\ reminderMarks' \subseteq reminderMarks \cup {"deleted"}
  BY <1>7 DEF Tag
<1>13. \A names : Untagged(names)' => Untagged(names)
  BY <1>12, RemMarksGrow
<1>14. ASSUME "deleted" \notin reminderMarks'
       PROVE  IssuedOnes' = IssuedOnes /\ \A j \in IssuedOnes : reminders'[j] = reminders[j]
  <2>1. i \notin IssuedOnes
    BY <1>7, <1>14 DEF Tag, IssuedOnes
  <2>2. st = "Dropped"
    BY <1>4, <1>7, <1>14 DEF Tag
  <2> QED
    BY <1>6, <1>9, <1>10, <2>1, <2>2 DEF IssuedOnes
<1>15. Charged'
  BY <1>7, <1>13, <1>14 DEF RemInv, Charged, Untagged
<1>16. ChargedOnce'
  <2> SUFFICES ASSUME Untagged({"twice", "deleted"})' PROVE ChargedOnce'
    BY DEF ChargedOnce
  <2>1. IssuedOnes' = IssuedOnes
    BY <1>14 DEF Untagged
  <2> QED
    BY <1>7, <1>10, <1>13, <2>1 DEF RemInv, ChargedOnce
<1>17. ASSUME Untagged({"deleted", "partial"})'
       PROVE  IssuedOnes \subseteq IssuedOnes' /\ \A x \in OpenEntries : LevelStands(x)'
  <2>1. IssuedOnes' = IssuedOnes /\ \A j \in IssuedOnes : reminders'[j] = reminders[j]
    BY <1>14, <1>17 DEF Untagged
  <2>2. \A x : Listing(x)' = Listing(x) /\ Listing(x) \subseteq IssuedOnes
    BY <2>1 DEF Listing
  <2>3. \A x \in OpenEntries : LevelStands(x)
    BY <1>13, <1>17 DEF RemInv, LevelsSound
  <2> QED
    BY <1>7, <2>1, <2>2, <2>3 DEF LevelStands
<1>18. reminders'[i].entries \subseteq reminders'[i].about
  BY <1>6, <1>9 DEF RemInv, DraftsSound
<1>19. /\ feeJournals' \subseteq DOMAIN reminders /\ levelOf' \in [OpenEntries -> Reachable]
       /\ reminderMarks' \subseteq {"twice", "deleted", "partial", "draft"} /\ dunning' = dunning
  BY <1>1, <1>7, <1>12 DEF RemTypeOK
<1>20. feeEntries' \in Seq(DOMAIN reminders')
  BY <1>1, <1>7, <1>10 DEF RemTypeOK
<1>21. reminders[i].status = "Dropped" => reminders'[i].status = "Dropped"
  BY <1>4, <1>6, <1>9
<1> QED
  BY <1>9, <1>11, <1>12, <1>15, <1>16, <1>17, <1>18, <1>19, <1>20, <1>21, DocumentInv

LEMMA IssueReminderInv == ASSUME RemInv, NEW k \in Collectors, IssueReminder(k) PROVE RemInv'
<1>1. RemTypeOK /\ collector[k].op = "issue"
  BY DEF RemInv, IssueReminder, Holds
<1>2. PICK i \in DOMAIN reminders : i = collector[k].doc /\ i \in Nat
  BY <1>1, WorkingOn
<1>3. reminders[i] \in ReminderType /\ reminders[i].level \in Reachable
  BY <1>1, RemindersTyped
<1>4. PICK gone \in BOOLEAN : gone <=> reminders[i].status \in {"Dropped", "Gone"}
  BY Zenon
<1>5. /\ feeJournals' = feeJournals \cup {i} /\ feeEntries' = Append(feeEntries, i)
      /\ collector' = [collector EXCEPT ![k] = NoErrand] /\ dunning' = dunning
  BY <1>2 DEF IssueReminder
<1>6. levelOf' = [e \in OpenEntries |-> IF ~gone /\ e \in reminders[i].entries
                                        THEN LevelRaised(levelOf[e], reminders[i].level) ELSE levelOf[e]]
  BY <1>2, <1>4 DEF IssueReminder
<1>7. /\ reminderMarks \subseteq reminderMarks' /\ reminderMarks' \subseteq reminderMarks \cup {"twice", "deleted", "partial"}
      /\ "twice" \notin reminderMarks' => reminders[i].status # "Issued"
      /\ "deleted" \notin reminderMarks' => ~gone
  BY <1>2, <1>4 DEF IssueReminder, Tag
<1>8. PICK st \in {"Issued", "Dropped", "Gone"} : st = IF gone THEN reminders[i].status ELSE "Issued"
  BY <1>4
<1>9. PICK r : r = [reminders[i] EXCEPT !.status = st]
  OBVIOUS
<1>10. /\ r \in ReminderType /\ r.kind = reminders[i].kind /\ r.level = reminders[i].level
       /\ r.about = reminders[i].about /\ r.entries = reminders[i].entries /\ r.status = st
  BY <1>3, <1>9 DEF ReminderType
<1>11. reminders' = [reminders EXCEPT ![i] = r]
  <2>1. reminders' = IF gone THEN reminders ELSE [reminders EXCEPT ![i].status = "Issued"]
    BY <1>2, <1>4 DEF IssueReminder
  <2>2. CASE gone
    <3>1. r = reminders[i]
      BY <1>3, <1>8, <1>9, <2>2 DEF ReminderType
    <3>2. reminders \in Seq(ReminderType)
      BY <1>1 DEF RemTypeOK
    <3>3. [reminders EXCEPT ![i] = reminders[i]] = reminders
      BY <3>2
    <3> QED
      BY <2>1, <2>2, <3>1, <3>3
  <2>3. CASE ~gone
    BY <1>8, <1>9, <2>1, <2>3
  <2> QED
    BY <2>2, <2>3
<1>12. reminders' \in Seq(ReminderType) /\ DocumentMoved(i) /\ AboutKept /\ reminders'[i] = r
  BY <1>1, <1>10, <1>11, DocumentChanged
<1>13. DOMAIN reminders' = DOMAIN reminders /\ \A j \in DOMAIN reminders : j # i => reminders'[j] = reminders[j]
  BY <1>12 DEF DocumentMoved
<1>14. ErrandIs(k, NoErrand) /\ NoErrand.level = 0
  BY <1>5, NoErrandTyped DEF ErrandIs
<1>15. \A names : Untagged(names)' => Untagged(names)
  BY <1>7, RemMarksGrow
<1>16. ASSUME ~gone PROVE IssuedOnes' = IssuedOnes \cup {i}
  BY <1>8, <1>10, <1>12, <1>13, <1>16 DEF IssuedOnes
<1>17. Charged'
  BY <1>5, <1>7, <1>15, <1>16 DEF RemInv, Charged, Untagged
<1>18. /\ DOMAIN feeEntries = 1 .. Len(feeEntries) /\ Len(feeEntries) \in Nat
       /\ feeEntries' \in Seq(DOMAIN reminders) /\ DOMAIN feeEntries' = DOMAIN feeEntries \cup {Len(feeEntries) + 1}
       /\ feeEntries'[Len(feeEntries) + 1] = i /\ \A n \in DOMAIN feeEntries : feeEntries'[n] = feeEntries[n]
  <2>1. PICK D : D = DOMAIN reminders
    OBVIOUS
  <2>2. feeEntries \in Seq(D) /\ i \in D
    BY <1>1, <2>1 DEF RemTypeOK
  <2>3. /\ feeEntries' \in Seq(D) /\ Len(feeEntries') = Len(feeEntries) + 1 /\ feeEntries'[Len(feeEntries) + 1] = i
        /\ \A n \in 1 .. Len(feeEntries) : feeEntries'[n] = feeEntries[n]
    BY <1>5, <2>2
  <2>4. DOMAIN feeEntries = 1 .. Len(feeEntries) /\ Len(feeEntries) \in Nat
    BY <2>2
  <2>5. DOMAIN feeEntries' = 1 .. Len(feeEntries) + 1
    BY <2>3
  <2> QED
    BY <2>1, <2>3, <2>4, <2>5
<1>19. ChargedOnce'
  <2> SUFFICES ASSUME Untagged({"twice", "deleted"})' PROVE ChargedOnce'
    BY DEF ChargedOnce
  <2>1. ~gone /\ i \notin IssuedOnes
    BY <1>7 DEF Untagged, IssuedOnes
  <2>2. /\ \A m, n \in DOMAIN feeEntries : feeEntries[m] = feeEntries[n] => m = n
        /\ \A j \in DOMAIN reminders : j \in IssuedOnes <=> \E n \in DOMAIN feeEntries : feeEntries[n] = j
    BY <1>15 DEF RemInv, ChargedOnce
  <2>3. \A n \in DOMAIN feeEntries : feeEntries[n] # i
    BY <2>1, <2>2
  <2>4. \A m, n \in DOMAIN feeEntries' : feeEntries'[m] = feeEntries'[n] => m = n
    BY <1>18, <2>2, <2>3
  <2>5. ASSUME NEW j \in DOMAIN reminders PROVE j \in IssuedOnes' <=> \E n \in DOMAIN feeEntries' : feeEntries'[n] = j
    <3>1. CASE j = i
      BY <1>16, <1>18, <2>1, <3>1
    <3>2. CASE j # i
      <4>1. j \in IssuedOnes' <=> j \in IssuedOnes
        BY <1>16, <2>1, <3>2
      <4>2. (\E n \in DOMAIN feeEntries' : feeEntries'[n] = j) <=> \E n \in DOMAIN feeEntries : feeEntries[n] = j
        BY <1>18, <3>2
      <4> QED
        BY <2>2, <4>1, <4>2
    <3> QED
      BY <3>1, <3>2
  <2> QED
    BY <1>13, <2>4, <2>5 DEF ChargedOnce
<1>20. \A e \in OpenEntries : levelOf[e] \in Reachable /\ levelOf[e] \in Nat /\ reminders[i].level \in Nat
  BY <1>1, <1>3, RemindersTyped, NoErrandTyped
<1>21. levelOf' \in [OpenEntries -> Reachable]
  BY <1>3, <1>6, <1>20 DEF LevelRaised
<1>22. ASSUME Untagged({"deleted", "partial"})', NEW e \in OpenEntries PROVE LevelStands(e)'
  <2>1. ~gone
    BY <1>7, <1>22 DEF Untagged
  <2>2. LevelStands(e)
    BY <1>15, <1>22 DEF RemInv, LevelsSound
  <2>3. \A j \in DOMAIN reminders : reminders'[j].level = reminders[j].level /\ reminders'[j].entries = reminders[j].entries
    BY <1>10, <1>12, <1>13
  <2>4. Listing(e)' = Listing(e) \cup {j \in {i} : e \in reminders[i].entries}
    BY <1>13, <1>16, <2>1, <2>3 DEF Listing, IssuedOnes
  <2>5. Listing(e) \subseteq DOMAIN reminders /\ \A j \in Listing(e) : reminders[j].level \in Nat
    <3>1. Listing(e) \subseteq DOMAIN reminders
      BY DEF Listing, IssuedOnes
    <3> QED
      BY <1>1, <3>1, RemindersTyped, NoErrandTyped
  <2>6. CASE e \in reminders[i].entries
    <3>1. levelOf'[e] = IF levelOf[e] < reminders[i].level THEN reminders[i].level ELSE levelOf[e]
      BY <1>6, <2>1, <2>6 DEF LevelRaised
    <3>2. Listing(e)' = Listing(e) \cup {i}
      BY <2>4, <2>6
    <3>3. \A j \in Listing(e)' : reminders'[j].level <= levelOf'[e]
      BY <1>20, <2>2, <2>3, <2>5, <3>1, <3>2 DEF LevelStands
    <3>4. levelOf'[e] = 0 \/ \E j \in Listing(e)' : reminders'[j].level = levelOf'[e]
      BY <1>20, <2>2, <2>3, <2>5, <3>1, <3>2 DEF LevelStands
    <3> QED
      BY <3>3, <3>4 DEF LevelStands
  <2>7. CASE e \notin reminders[i].entries
    <3>1. levelOf'[e] = levelOf[e] /\ Listing(e)' = Listing(e)
      BY <1>6, <2>4, <2>7
    <3> QED
      BY <2>2, <2>3, <2>5, <3>1 DEF LevelStands
  <2> QED
    BY <2>6, <2>7
<1>23. Untagged({"deleted", "partial"})' => IssuedOnes \subseteq IssuedOnes'
  BY <1>7, <1>16 DEF Untagged
<1>24. reminders'[i].entries \subseteq reminders'[i].about
  BY <1>10, <1>12 DEF RemInv, DraftsSound
<1>25. /\ feeJournals' \subseteq DOMAIN reminders /\ reminderMarks' \subseteq {"twice", "deleted", "partial", "draft"}
       /\ dunning' = dunning
  BY <1>1, <1>5, <1>7 DEF RemTypeOK
<1>26. feeEntries' \in Seq(DOMAIN reminders')
  BY <1>13, <1>18
<1>27. reminders[i].status = "Dropped" => reminders'[i].status = "Dropped"
  BY <1>4, <1>8, <1>10, <1>12
<1>28. reminderMarks \subseteq reminderMarks'
  BY <1>7
<1> QED
  BY <1>12, <1>14, <1>17, <1>19, <1>21, <1>22, <1>23, <1>24, <1>25, <1>26, <1>27, <1>28, DocumentInv

LEMMA RemStepInv == RemInv /\ [RemNext]_remVars => RemInv'
<1> SUFFICES ASSUME RemInv, [RemNext]_remVars PROVE RemInv'
  OBVIOUS
<1>1. ASSUME NEW k \in Collectors, NEW kind \in Kinds, ReadOverdue(k, kind) PROVE RemInv'
  BY <1>1, ReadOverdueInv
<1>2. ASSUME NEW k \in Collectors, InsertReminder(k) \/ InsertLine(k) \/ CollectorCrash(k) PROVE RemInv'
  BY <1>2, InsertReminderInv, InsertLineInv, CollectorCrashInv
<1>3. ASSUME NEW k \in Collectors, NEW i \in DOMAIN reminders, NEW op \in {"issue", "delete"}, AskReminder(k, i, op)
      PROVE  RemInv'
  BY <1>3, AskReminderInv
<1>4. ASSUME NEW k \in Collectors, IssueReminder(k) \/ DeleteReminder(k) PROVE RemInv'
  BY <1>4, IssueReminderInv, DeleteReminderInv
<1>5. ASSUME NEW e \in OpenEntries, MoveEntry(e) PROVE RemInv'
  BY <1>5, MoveEntryInv
<1>6. CASE RemNext
  BY <1>1, <1>2, <1>3, <1>4, <1>5, <1>6 DEF RemNext
<1>7. CASE UNCHANGED remVars
  <2>1. UNCHANGED <<levelOf, dunning, reminders, feeJournals, feeEntries, collector, reminderMarks>>
    BY <1>7 DEF remVars
  <2>2. RemTypeOK'
    BY <2>1 DEF RemInv, RemTypeOK
  <2>3. IssuedOnes' = IssuedOnes /\ \A x : Listing(x)' = Listing(x)
    BY <2>1 DEF IssuedOnes, Listing
  <2>4. Charged' /\ ChargedOnce'
    BY <2>1, <2>3 DEF RemInv, Charged, ChargedOnce, Untagged
  <2>5. LevelsSound'
    BY <2>1, <2>3 DEF RemInv, LevelsSound, LevelStands, OneBelow, Untagged
  <2>6. DraftsSound'
    BY <2>1 DEF RemInv, DraftsSound, Alike, Untagged
  <2> QED
    BY <2>2, <2>4, <2>5, <2>6 DEF RemInv
<1> QED
  BY <1>6, <1>7

LEMMA RemInvRemindersSound == ASSUME RemInv PROVE RemindersSound
<1>1. RemTypeOK
  BY DEF RemInv
<1>2. Untagged({"twice", "deleted"}) =>
          \A i \in DOMAIN reminders :
             Cardinality({n \in DOMAIN feeEntries : feeEntries[n] = i}) = IF i \in IssuedOnes THEN 1 ELSE 0
  <2> SUFFICES ASSUME Untagged({"twice", "deleted"}), NEW i \in DOMAIN reminders
               PROVE  Cardinality({n \in DOMAIN feeEntries : feeEntries[n] = i}) = IF i \in IssuedOnes THEN 1 ELSE 0
    OBVIOUS
  <2>1. /\ \A m, n \in DOMAIN feeEntries : feeEntries[m] = feeEntries[n] => m = n
        /\ i \in IssuedOnes <=> \E n \in DOMAIN feeEntries : feeEntries[n] = i
    BY DEF RemInv, ChargedOnce
  <2>2. CASE i \in IssuedOnes
    <3>1. PICK n \in DOMAIN feeEntries : feeEntries[n] = i
      BY <2>1, <2>2
    <3>2. {m \in DOMAIN feeEntries : feeEntries[m] = i} = {n}
      BY <2>1, <3>1
    <3> QED
      BY <2>2, <3>2, FS_Singleton
  <2>3. CASE i \notin IssuedOnes
    <3>1. {m \in DOMAIN feeEntries : feeEntries[m] = i} = {}
      BY <2>1, <2>3
    <3> QED
      BY <2>3, <3>1, FS_EmptySet
  <2> QED
    BY <2>2, <2>3
<1>3. Untagged({"deleted", "partial"}) =>
          \A e \in OpenEntries : levelOf[e] = Max({0} \cup {reminders[i].level : i \in Listing(e)})
  <2> SUFFICES ASSUME Untagged({"deleted", "partial"}), NEW e \in OpenEntries
               PROVE  levelOf[e] = Max({0} \cup {reminders[i].level : i \in Listing(e)})
    OBVIOUS
  <2> DEFINE S == {0} \cup {reminders[i].level : i \in Listing(e)}
  <2>1. LevelStands(e)
    BY DEF RemInv, LevelsSound
  <2>2. levelOf[e] \in Nat
    BY <1>1, RemindersTyped, NoErrandTyped
  <2>3. levelOf[e] \in S /\ \A l \in S : levelOf[e] >= l
    BY <2>1, <2>2 DEF LevelStands
  <2>4. S \subseteq Nat
    <3>1. Listing(e) \subseteq DOMAIN reminders
      BY DEF Listing, IssuedOnes
    <3> QED
      BY <1>1, <3>1, RemindersTyped, NoErrandTyped
  <2> HIDE DEF S
  <2>5. Max(S) \in S /\ \A l \in S : Max(S) >= l
    BY <2>3 DEF Max
  <2>6. PICK m : m = Max(S)
    OBVIOUS
  <2>7. m \in Nat /\ m >= levelOf[e] /\ levelOf[e] >= m
    BY <2>3, <2>4, <2>5, <2>6
  <2>8. levelOf[e] = Max(S)
    BY <2>2, <2>6, <2>7
  <2> QED
    BY <2>8 DEF S
<1>4. Untagged({"deleted", "partial"}) =>
          \A i \in IssuedOnes : reminders[i].level > 1 =>
             \E j \in IssuedOnes : reminders[j].level = reminders[i].level - 1
  BY DEF RemInv, LevelsSound, OneBelow, IssuedOnes
<1>5. ASSUME Untagged({"draft"}), NEW e \in OpenEntries, NEW i \in Listing(e), NEW j \in Listing(e),
             reminders[i].kind = "Reminder", i # j, reminders[i].level = reminders[j].level
      PROVE  FALSE
  <2>1. /\ i \in DOMAIN reminders /\ reminders[i].status = "Issued" /\ e \in reminders[i].entries
        /\ j \in DOMAIN reminders /\ reminders[j].status = "Issued" /\ e \in reminders[j].entries
    BY DEF Listing, IssuedOnes
  <2>2. reminders[j].kind = "Reminder" /\ e \in reminders[i].about /\ e \in reminders[j].about
    BY <1>5, <2>1 DEF RemInv, DraftsSound
  <2>3. Alike(i, j)
    BY <1>5, <2>1, <2>2 DEF Alike
  <2> QED
    BY <1>5, <2>1, <2>2, <2>3 DEF RemInv, DraftsSound
<1>6. \A i \in DOMAIN reminders : reminders[i].level <= MaxReminders
  BY <1>1, RemindersTyped, NoErrandTyped
<1>7. Untagged({"deleted"}) => feeJournals = IssuedOnes
  BY DEF RemInv, Charged
<1> QED
  BY <1>2, <1>3, <1>4, <1>5, <1>6, <1>7 DEF RemindersSound

(* Every issued reminder and memo is charged for once (lib/reminders.ts),   *)
(* and the levels of a customer's entries are those of the reminders        *)
(* issued, one after another and never above the maximum; each unless the   *)
(* requests its marks name crossed; for any entries, levels, collectors.    *)
THEOREM RemindersSoundAlways == RemSpec => []RemindersSound
<1>1. RemInit => RemInv
  BY RemInitInv
<1>2. RemInv /\ [RemNext]_remVars => RemInv'
  BY RemStepInv
<1>3. RemInv => RemindersSound
  BY RemInvRemindersSound
<1> QED
  BY <1>1, <1>2, <1>3, PTL DEF RemSpec
=============================================================================
