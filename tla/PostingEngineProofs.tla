------------------------ MODULE PostingEngineProofs ------------------------
(***************************************************************************)
(* Proofs about PostingEngine: type correctness, and the safety of keys,   *)
(* voucher numbers, reversals and the bank subledger, for any number of    *)
(* sessions, keys, accounts, banks and postings.                           *)
(***************************************************************************)
EXTENDS PostingEngine, SumTheorems, TLAPS

-----------------------------------------------------------------------------
(* Types.                                                                  *)

\* Swapping debits and credits of a posting gives a posting.
LEMMA SwappedType ==
    ASSUME NEW p \in PostingType
    PROVE  Swapped(p) \in PostingType
<1>1. /\ [a \in Accounts |-> -p.fcy[a]] \in Amounts
      /\ [a \in Accounts |-> -p.lcy[a]] \in Amounts
  BY DEF PostingType, Amounts
<1>2. QED
  BY <1>1 DEF Swapped, PostingType

LEMMA IdleType == Idle \in SessionType
BY ConstantsAssumption
   DEF Idle, NoPosting, SessionType, Stages, PostingType, Amounts

\* A session that has drawn a voucher number, or a journal id.
LEMMA WithNumber ==
    ASSUME NEW r \in SessionType, NEW n \in Nat
    PROVE  /\ [r EXCEPT !.pc = "insert", !.no = n] \in SessionType
           /\ [r EXCEPT !.pc = "commit", !.id = n] \in SessionType
BY DEF SessionType, Stages

\* The signed amount of a line is an integer.
LEMMA SignedType ==
    ASSUME NEW a, NEW n \in Int
    PROVE  Signed(a, n) \in Int
BY DEF Signed

\* A transaction that ends keeps the types of the session table and the lock.
LEMMA EndTransactionType ==
    ASSUME TypeOK, NEW s \in Sessions, EndTransaction(s)
    PROVE  /\ sess' \in [Sessions -> SessionType]
           /\ seriesLock' \in Sessions \cup {NoSession}
BY IdleType DEF EndTransaction, TypeOK

LEMMA InitType == Init => TypeOK
<1> SUFFICES ASSUME Init PROVE TypeOK
  OBVIOUS
<1>1. sess \in [Sessions -> SessionType]
  BY IdleType DEF Init
<1>2. bankLedger \in [Banks -> Seq(EntryType)]
  BY DEF Init
<1>3. QED
  BY <1>1, <1>2 DEF Init, TypeOK, Amounts

\* A transaction about to commit holds an id drawn from the sequence.
IdsDrawn == \A s \in Sessions : sess[s].pc = "commit" => sess[s].id \in 1 .. nextId

\* A step of a session or of the administrator keeps every variable in its type.
LEMMA NextType == TypeOK /\ IdsDrawn /\ [Next]_vars => TypeOK'
<1> SUFFICES ASSUME TypeOK, IdsDrawn, [Next]_vars PROVE TypeOK'
  OBVIOUS
<1>s. ASSUME NEW s \in Sessions PROVE sess[s] \in SessionType
  BY <1>s DEF TypeOK
<1>1. ASSUME NEW s \in Sessions, StartPost(s) PROVE TypeOK'
  <2>1. PICK k \in Keys \cup {NoKey}, p \in Postings, per \in Periods, cl \in BOOLEAN :
          sess' = [sess EXCEPT ![s] =
                    [Idle EXCEPT !.pc = "readKey", !.key = k, !.posting = p,
                                 !.period = per, !.closing = cl]]
    BY <1>1 DEF StartPost
  <2>2. p \in PostingType
    BY ConstantsAssumption
  <2>3. [Idle EXCEPT !.pc = "readKey", !.key = k, !.posting = p,
                     !.period = per, !.closing = cl] \in SessionType
    BY <2>2, IdleType DEF SessionType, Stages
  <2>4. sess' \in [Sessions -> SessionType]
    BY <2>1, <2>3 DEF TypeOK
  <2>5. QED
    BY <2>4, <1>1 DEF StartPost, TypeOK, tables
<1>2. ASSUME NEW s \in Sessions, StartReverse(s) PROVE TypeOK'
  <2>1. PICK j \in 1 .. nextId, per \in Periods :
          sess' = [sess EXCEPT ![s] =
                    [Idle EXCEPT !.pc = "lockOriginal", !.op = "reverse",
                                 !.target = j, !.period = per]]
    BY <1>2 DEF StartReverse
  <2>2. j \in Nat
    BY DEF TypeOK
  <2>3. [Idle EXCEPT !.pc = "lockOriginal", !.op = "reverse",
                     !.target = j, !.period = per] \in SessionType
    BY <2>2, IdleType DEF SessionType, Stages
  <2>4. sess' \in [Sessions -> SessionType]
    BY <2>1, <2>3 DEF TypeOK
  <2>5. QED
    BY <2>4, <1>2 DEF StartReverse, TypeOK, tables
<1>r. ASSUME NEW s \in Sessions, Rollback(s) PROVE TypeOK'
  BY <1>r, EndTransactionType DEF Rollback, TypeOK, tables
<1>3. ASSUME NEW s \in Sessions, Crash(s) PROVE TypeOK'
  BY <1>3, <1>r DEF Crash
<1>4. ASSUME NEW s \in Sessions, ReadKey(s) PROVE TypeOK'
  <2>1. CASE \E j \in Posted(sess[s].key) :
               /\ answered' = answered \cup {<<sess[s].key, j>>}
               /\ EndTransaction(s)
    <3>1. PICK j \in Posted(sess[s].key) :
               /\ answered' = answered \cup {<<sess[s].key, j>>}
               /\ EndTransaction(s)
      BY <2>1
    <3>2. j \in Nat
      BY <3>1 DEF Posted, TypeOK
    <3>3. answered' \subseteq (Keys \cup {NoKey}) \X Nat
      BY <3>1, <3>2, <1>s DEF TypeOK, SessionType
    <3>4. QED
      BY <3>1, <3>3, <1>4, EndTransactionType DEF ReadKey, TypeOK, tables
  <2>2. CASE UNCHANGED <<seriesLock, answered>> /\ sess' = [sess EXCEPT ![s].pc = "check"]
    <3>1. sess' \in [Sessions -> SessionType]
      BY <2>2, <1>s DEF TypeOK, SessionType, Stages
    <3>2. QED
      BY <2>2, <3>1, <1>4 DEF ReadKey, TypeOK, tables
  <2>3. QED
    BY <1>4, <2>1, <2>2 DEF ReadKey
<1>5. ASSUME NEW s \in Sessions, LockOriginal(s) PROVE TypeOK'
  <2> DEFINE j == sess[s].target
  <2>1. CASE Reversible(j) /\ sess' = [sess EXCEPT ![s] = ReversalOf(s, j)]
    <3>1. journal[j] \in JournalType
      BY <2>1 DEF Reversible, TypeOK
    <3>2. Swapped(journal[j].posting) \in PostingType
      BY <3>1, SwappedType DEF JournalType
    <3>3. ReversalOf(s, j) \in SessionType
      BY <3>1, <3>2, <1>s DEF ReversalOf, SessionType, Stages, JournalType
    <3>4. sess' \in [Sessions -> SessionType]
      BY <2>1, <3>3 DEF TypeOK
    <3>5. UNCHANGED <<tables, nextId, lastNo, period, answered, seriesLock>>
      BY <2>1, <1>5 DEF LockOriginal
    <3>6. QED
      BY <3>4, <3>5 DEF TypeOK, tables
  <2>2. CASE Rollback(s)
    BY <2>2, <1>r
  <2>3. \/ Reversible(j) /\ sess' = [sess EXCEPT ![s] = ReversalOf(s, j)]
        \/ Rollback(s)
    BY <1>5 DEF LockOriginal
  <2>4. QED
    BY <2>1, <2>2, <2>3
<1>6. ASSUME NEW s \in Sessions, Check(s) PROVE TypeOK'
  <2>1. CASE UNCHANGED <<tables, nextId, lastNo, seriesLock, period, answered>>
             /\ sess' = [sess EXCEPT ![s].pc = "draw"]
    <3>1. sess' \in [Sessions -> SessionType]
      BY <2>1, <1>s DEF TypeOK, SessionType, Stages
    <3>2. QED
      BY <2>1, <3>1 DEF TypeOK, tables
  <2>2. CASE Rollback(s)
    BY <2>2, <1>r
  <2>3. QED
    BY <1>6, <2>1, <2>2 DEF Check
<1>7. ASSUME NEW s \in Sessions, DrawNo(s) PROVE TypeOK'
  <2>1. CASE /\ sess' = [sess EXCEPT ![s] = [@ EXCEPT !.pc = "insert", !.no = lastNo + 1]]
             /\ seriesLock' = s
             /\ UNCHANGED <<tables, nextId, lastNo, period, answered>>
    <3>0. lastNo + 1 \in Nat
      BY DEF TypeOK
    <3>1. [sess[s] EXCEPT !.pc = "insert", !.no = lastNo + 1] \in SessionType
      BY <3>0, <1>s, WithNumber
    <3>2. sess' \in [Sessions -> SessionType]
      BY <2>1, <3>1 DEF TypeOK
    <3>3. QED
      BY <2>1, <3>2 DEF TypeOK, tables
  <2>2. CASE Rollback(s)
    BY <2>2, <1>r
  <2>3. QED
    BY <1>7, <2>1, <2>2 DEF DrawNo
<1>8. ASSUME NEW s \in Sessions, Insert(s) PROVE TypeOK'
  <2>0. /\ nextId' = nextId + 1
        /\ UNCHANGED <<tables, period>>
        /\ nextId' \in Nat
        /\ DOMAIN journal \subseteq 1 .. nextId'
    BY <1>8 DEF Insert, TypeOK
  <2>1. CASE \E j \in Posted(sess[s].key) :
               /\ answered' = answered \cup {<<sess[s].key, j>>}
               /\ lastNo' = sess[s].no
               /\ EndTransaction(s)
    <3>1. PICK j \in Posted(sess[s].key) :
               /\ answered' = answered \cup {<<sess[s].key, j>>}
               /\ lastNo' = sess[s].no
               /\ EndTransaction(s)
      BY <2>1
    <3>2. j \in Nat
      BY <3>1 DEF Posted, TypeOK
    <3>3. answered' \subseteq (Keys \cup {NoKey}) \X Nat
      BY <3>1, <3>2, <1>s DEF TypeOK, SessionType
    <3>4. lastNo' \in Nat
      BY <3>1, <1>s DEF SessionType
    <3>5. QED
      BY <3>1, <3>3, <3>4, <2>0, EndTransactionType DEF TypeOK, tables
  <2>2. CASE EndTransaction(s) /\ UNCHANGED <<lastNo, answered>>
    BY <2>2, <2>0, EndTransactionType DEF TypeOK, tables
  <2>3. CASE /\ sess' = [sess EXCEPT ![s] = [@ EXCEPT !.pc = "commit", !.id = nextId + 1]]
             /\ UNCHANGED <<seriesLock, lastNo, answered>>
    <3>0. nextId + 1 \in Nat
      BY DEF TypeOK
    <3>1. [sess[s] EXCEPT !.pc = "commit", !.id = nextId + 1] \in SessionType
      BY <3>0, <1>s, WithNumber
    <3>2. sess' \in [Sessions -> SessionType]
      BY <2>3, <3>1 DEF TypeOK
    <3>3. QED
      BY <2>3, <3>2, <2>0 DEF TypeOK, tables
  <2>4. QED
    BY <1>8, <2>1, <2>2, <2>3 DEF Insert
<1>9. ASSUME NEW s \in Sessions, Commit(s) PROVE TypeOK'
  <2> DEFINE p == sess[s].posting
  <2>1. p \in PostingType /\ sess[s].no \in Nat /\ sess[s].id \in Nat
    BY <1>s DEF SessionType
  <2>2. lastNo' \in Nat /\ nextId' = nextId /\ period' = period
    BY <2>1, <1>9 DEF Commit
  <2>3. glBalance' \in Amounts
    BY <2>1, <1>9, SignedType DEF Commit, NewBalances, Amounts, TypeOK, PostingType
  <2>4. bankBalance' \in [Banks -> Int]
    BY <2>1, <1>9, SignedType, ConstantsAssumption DEF Commit, Amounts, TypeOK, PostingType
  <2>5. bankLcy' \in [Banks -> Int]
    BY <2>1, <1>9, SignedType, ConstantsAssumption DEF Commit, NewBankLcy, Amounts, TypeOK, PostingType
  <2>6. ASSUME NEW b \in Banks PROVE BankEntry(s, b) \in EntryType
    BY <2>1, SignedType, ConstantsAssumption DEF BankEntry, EntryType, PostingType, Amounts, TypeOK
  <2>7. bankLedger' \in [Banks -> Seq(EntryType)]
    BY <2>6, <1>9 DEF Commit, TypeOK
  <2>8. answered' \subseteq (Keys \cup {NoKey}) \X Nat
    BY <2>1, <1>s, <1>9 DEF Commit, TypeOK, SessionType
  <2>9. DOMAIN journal' \subseteq 1 .. nextId' /\ \A j \in DOMAIN journal' : journal'[j] \in JournalType
    <3>1. journal' = WithJournal(s)
      BY <1>9 DEF Commit
    <3>2. sess[s].id \in 1 .. nextId
      BY <1>9 DEF Commit, IdsDrawn
    <3>3. NewJournal(s) \in JournalType
      BY <2>1, <1>s DEF NewJournal, JournalType, SessionType
    <3>4. ASSUME NEW j \in DOMAIN journal PROVE [journal[j] EXCEPT !.reversedBy = sess[s].id] \in JournalType
      BY <3>4, <2>1 DEF TypeOK, JournalType
    <3>5. QED
      BY <3>1, <3>2, <3>3, <3>4, <2>2 DEF WithJournal, TypeOK
  <2>10. QED
    BY <2>2, <2>3, <2>4, <2>5, <2>7, <2>8, <2>9, <1>9, EndTransactionType DEF Commit, TypeOK
<1>a. ASSUME NEW per \in Periods, SetPeriodStatus(per) PROVE TypeOK'
  <2>1. period' \in [Periods -> {"OPEN", "CLOSED"}]
    BY <1>a DEF SetPeriodStatus, TypeOK
  <2>2. QED
    BY <2>1, <1>a DEF SetPeriodStatus, TypeOK, tables
<1>b. CASE UNCHANGED vars
  BY <1>b DEF vars, TypeOK
<1>c. QED
  BY <1>1, <1>2, <1>3, <1>4, <1>5, <1>6, <1>7, <1>8, <1>9, <1>a, <1>b DEF Next

-----------------------------------------------------------------------------
(* The inductive invariant.                                                *)

Holding == {"check", "draw", "insert", "commit"}

\* The series line is held exactly by the session between DrawNo and the end
\* of its transaction, so at most one session inserts at a time.
LockHeld ==
    \A s \in Sessions : sess[s].pc \in {"insert", "commit"} <=> seriesLock = s

\* Numbers up to lastNo may be in use; the holder of the lock has the next.
NumbersInOrder ==
    /\ \A j \in DOMAIN journal : journal[j].no <= lastNo
    /\ \A s \in Sessions : sess[s].pc \in {"insert", "commit"} => sess[s].no = lastNo + 1

\* What Insert saw still holds when the transaction commits.
InsertStillValid ==
    \A s \in Sessions : sess[s].pc = "commit" =>
        /\ Posted(sess[s].key) = {}
        /\ sess[s].id \notin DOMAIN journal

\* A reversal that has its row lock reverses a journal nobody else reverses.
ReversalPrepared ==
    \A s \in Sessions :
        /\ sess[s].op = "post" => sess[s].target = 0
        /\ sess[s].pc = "readKey" => sess[s].op = "post"
        /\ (sess[s].op = "reverse" /\ sess[s].pc \in Holding) =>
             /\ Reversible(sess[s].target)
             /\ sess[s].posting = Swapped(journal[sess[s].target].posting)
             /\ ~LockedByOther(s, sess[s].target)

\* Answers name committed journals with the caller's key.
AnswersCommitted ==
    \A a \in answered :
        /\ a[2] \in DOMAIN journal
        /\ a[1] # NoKey => journal[a[2]].key = a[1]

IInv ==
    /\ TypeOK
    /\ IdsDrawn
    /\ LockHeld
    /\ NumbersInOrder
    /\ InsertStillValid
    /\ ReversalPrepared
    /\ AnswersCommitted
    /\ KeyPostedOnce
    /\ NumberUnique
    /\ ReversalPairs
    /\ BankAgreesWithGL

LEMMA InitSafe == Init => IInv
<1> SUFFICES ASSUME Init PROVE IInv
  OBVIOUS
<1>1. TypeOK
  BY InitType
<1>2. \A s \in Sessions : sess[s].pc = "idle" /\ sess[s].op = "post" /\ sess[s].target = 0
  BY DEF Init, Idle
<1>3. QED
  BY <1>1, <1>2, NoSessionAssumption, ConstantsAssumption
     DEF Init, IInv, IdsDrawn, LockHeld, NumbersInOrder, InsertStillValid, ReversalPrepared,
         AnswersCommitted, KeyPostedOnce, NumberUnique, ReversalPairs, BankAgreesWithGL, Holding

\* A step that leaves the tables alone keeps what is said of the tables alone.
LEMMA TablesQuiet ==
    ASSUME IInv, UNCHANGED tables
    PROVE  /\ KeyPostedOnce' /\ NumberUnique' /\ ReversalPairs' /\ BankAgreesWithGL'
           /\ \A k : Posted(k)' = Posted(k)
           /\ \A j : Reversible(j)' = Reversible(j)
BY DEF IInv, tables, KeyPostedOnce, NumberUnique, ReversalPairs, BankAgreesWithGL,
       Posted, Reversible

\* A transaction that ends without posting keeps the invariant, whatever
\* number it leaves behind as the last one used.
LEMMA EndSafe ==
    ASSUME IInv, NEW s \in Sessions, EndTransaction(s), UNCHANGED tables, TypeOK',
           nextId' \in {nextId, nextId + 1}, AnswersCommitted',
           lastNo' = lastNo \/ (seriesLock = s /\ lastNo' = lastNo + 1)
    PROVE  IInv'
<1>1. /\ sess'[s].pc = "idle" /\ sess'[s].op = "post" /\ sess'[s].target = 0
      /\ \A t \in Sessions \ {s} : sess'[t] = sess[t]
  BY DEF EndTransaction, Idle, IInv, TypeOK
<1>2. IdsDrawn'
  <2>1. ASSUME NEW t \in Sessions, sess'[t].pc = "commit" PROVE sess'[t].id \in 1 .. nextId'
    <3>1. sess'[t] = sess[t] /\ sess[t].id \in 1 .. nextId
      BY <1>1, <2>1 DEF IInv, IdsDrawn
    <3>2. nextId \in Nat
      BY DEF IInv, TypeOK
    <3>3. QED
      BY <3>1, <3>2
  <2>2. QED
    BY <2>1 DEF IdsDrawn
<1>3. LockHeld'
  BY <1>1, NoSessionAssumption DEF IInv, LockHeld, EndTransaction
<1>4. NumbersInOrder'
  <2>1. ASSUME NEW j \in DOMAIN journal PROVE journal[j].no <= lastNo'
    <3>1. journal[j].no \in Nat /\ lastNo \in Nat /\ journal[j].no <= lastNo
      BY <2>1 DEF IInv, TypeOK, JournalType, NumbersInOrder
    <3>2. QED
      BY <3>1
  <2>2. ASSUME NEW t \in Sessions, sess'[t].pc \in {"insert", "commit"}
        PROVE  sess'[t].no = lastNo' + 1
    <3>1. t # s /\ sess'[t] = sess[t] /\ seriesLock = t /\ sess[t].no = lastNo + 1
      BY <1>1, <2>2 DEF IInv, LockHeld, NumbersInOrder
    <3>2. QED
      BY <3>1
  <2>3. QED
    BY <2>1, <2>2 DEF NumbersInOrder, tables
<1>5. InsertStillValid'
  BY <1>1, TablesQuiet DEF IInv, InsertStillValid, tables
<1>6. ReversalPrepared'
  BY <1>1, TablesQuiet DEF IInv, ReversalPrepared, tables, LockedByOther, Holding
<1>7. QED
  BY <1>2, <1>3, <1>4, <1>5, <1>6, TablesQuiet DEF IInv

\* A rolled-back transaction keeps the invariant.
LEMMA RollbackSafe ==
    ASSUME IInv, NEW s \in Sessions, Rollback(s), TypeOK'
    PROVE  IInv'
<1>1. AnswersCommitted'
  BY DEF IInv, AnswersCommitted, Rollback, tables
<1>2. QED
  BY <1>1, EndSafe DEF Rollback

\* A step of one session that only moves it on, without a lock.
LEMMA MoveSafe ==
    ASSUME IInv, NEW s \in Sessions, TypeOK', UNCHANGED <<tables, nextId, lastNo, seriesLock>>,
           \A t \in Sessions \ {s} : sess'[t] = sess[t],
           sess[s].pc \notin {"insert", "commit"},
           sess'[s].pc \notin {"insert", "commit"},
           AnswersCommitted', ReversalPrepared'
    PROVE  IInv'
<1>1. IdsDrawn' /\ LockHeld' /\ NumbersInOrder' /\ InsertStillValid'
  BY TablesQuiet DEF IInv, IdsDrawn, LockHeld, NumbersInOrder, InsertStillValid, tables
<1>2. QED
  BY <1>1, TablesQuiet DEF IInv

\* A committing session adds its journal and, for a reversal, the back-link
\* of its original; every other row stays as it is.
LEMMA CommitRows ==
    ASSUME IInv, NEW s \in Sessions, Commit(s)
    PROVE  /\ sess[s].id \notin DOMAIN journal
           /\ sess[s].id \in 1 .. nextId
           /\ DOMAIN journal' = DOMAIN journal \cup {sess[s].id}
           /\ journal'[sess[s].id] = NewJournal(s)
           /\ \A j \in DOMAIN journal :
                journal'[j] = IF sess[s].op = "reverse" /\ j = sess[s].target
                              THEN [journal[j] EXCEPT !.reversedBy = sess[s].id]
                              ELSE journal[j]
BY DEF IInv, IdsDrawn, InsertStillValid, Commit, WithJournal

LEMMA CommitPairs ==
    ASSUME IInv, NEW s \in Sessions, Commit(s)
    PROVE  ReversalPairs'
<1> DEFINE n == sess[s].id
<1> DEFINE o == sess[s].target
<1>0. sess[s] \in SessionType
  BY DEF IInv, TypeOK
<1>1. \A j \in DOMAIN journal : journal[j] \in JournalType
  BY DEF IInv, TypeOK
<1>a. /\ n \notin DOMAIN journal
      /\ n \in 1 .. nextId
      /\ DOMAIN journal' = DOMAIN journal \cup {n}
      /\ journal'[n] = NewJournal(s)
      /\ \A j \in DOMAIN journal :
           journal'[j] = IF sess[s].op = "reverse" /\ j = o
                         THEN [journal[j] EXCEPT !.reversedBy = n]
                         ELSE journal[j]
  BY CommitRows
<1>b. /\ NewJournal(s).reversedBy = 0 /\ NewJournal(s).reverses = o
      /\ NewJournal(s).posting = sess[s].posting
  BY DEF NewJournal
<1>2. n # 0 /\ n \notin DOMAIN journal
  BY <1>a
<1>3. CASE sess[s].op = "post"
  <2>1. o = 0
    BY <1>3 DEF IInv, ReversalPrepared
  <2>2. /\ DOMAIN journal' = DOMAIN journal \cup {n}
        /\ journal'[n].reversedBy = 0 /\ journal'[n].reverses = 0
        /\ \A j \in DOMAIN journal : journal'[j] = journal[j]
    BY <1>3, <2>1, <1>a, <1>b
  <2>3. QED
    BY <1>2, <2>2 DEF IInv, ReversalPairs
<1>4. CASE sess[s].op = "reverse"
  <2>1. /\ o \in DOMAIN journal
        /\ journal[o].reversedBy = 0 /\ journal[o].reverses = 0
        /\ sess[s].posting = Swapped(journal[o].posting)
    BY <1>4 DEF IInv, ReversalPrepared, Holding, Commit, Reversible
  <2>2. /\ DOMAIN journal' = DOMAIN journal \cup {n}
        /\ journal'[n].reversedBy = 0 /\ journal'[n].reverses = o
        /\ journal'[n].posting = Swapped(journal[o].posting)
        /\ journal'[o].reversedBy = n /\ journal'[o].reverses = 0
        /\ \A j \in DOMAIN journal : journal'[j].posting = journal[j].posting
        /\ \A j \in DOMAIN journal \ {o} : journal'[j] = journal[j]
    BY <1>4, <2>1, <1>1, <1>a, <1>b DEF JournalType
  <2>3. 0 \notin DOMAIN journal
    BY DEF IInv, TypeOK
  <2>4. o # n
    BY <2>1, <1>2
  <2>5. ASSUME NEW j \in DOMAIN journal'
        PROVE  /\ journal'[j].reversedBy # 0 =>
                    /\ journal'[j].reversedBy \in DOMAIN journal'
                    /\ journal'[journal'[j].reversedBy].reverses = j
                    /\ journal'[j].reverses = 0
               /\ journal'[j].reverses # 0 =>
                    /\ journal'[j].reverses \in DOMAIN journal'
                    /\ journal'[journal'[j].reverses].reversedBy = j
                    /\ journal'[j].posting = Swapped(journal'[journal'[j].reverses].posting)
    <3>1. CASE j = n
      BY <3>1, <2>1, <2>2, <2>4
    <3>2. CASE j = o
      BY <3>2, <2>1, <2>2, <2>4
    <3>3. CASE j \in DOMAIN journal \ {o}
      <4>1. journal'[j] = journal[j] /\ j # n
        BY <3>3, <2>2, <1>2
      <4>2. journal[j].reversedBy # 0 =>
              /\ journal[j].reversedBy \in DOMAIN journal \ {o}
              /\ journal[journal[j].reversedBy].reverses = j
              /\ journal[j].reverses = 0
        BY <3>3, <2>1, <2>3 DEF IInv, ReversalPairs
      <4>3. journal[j].reverses # 0 =>
              /\ journal[j].reverses \in DOMAIN journal \ {o}
              /\ journal[journal[j].reverses].reversedBy = j
              /\ journal[j].posting = Swapped(journal[journal[j].reverses].posting)
        BY <3>3, <2>1, <2>3 DEF IInv, ReversalPairs
      <4>4. QED
        BY <4>1, <4>2, <4>3, <2>2
    <3>4. QED
      BY <3>1, <3>2, <3>3, <2>2
  <2>6. QED
    BY <2>5 DEF ReversalPairs
<1>5. QED
  BY <1>0, <1>3, <1>4 DEF SessionType

LEMMA CommitSafe ==
    ASSUME IInv, NEW s \in Sessions, Commit(s), TypeOK'
    PROVE  IInv'
<1> DEFINE n == sess[s].id
<1> DEFINE o == sess[s].target
<1>0. sess[s] \in SessionType /\ lastNo \in Nat
  BY DEF IInv, TypeOK
<1>1. /\ sess'[s].pc = "idle" /\ sess'[s].op = "post" /\ sess'[s].target = 0
      /\ \A t \in Sessions \ {s} : sess'[t] = sess[t]
  BY DEF Commit, EndTransaction, Idle, IInv, TypeOK
<1>2. /\ seriesLock = s
      /\ seriesLock' = NoSession
      /\ sess[s].no = lastNo + 1 /\ lastNo' = lastNo + 1 /\ nextId' = nextId
      /\ \A t \in Sessions \ {s} : sess[t].pc \notin {"insert", "commit"}
  BY DEF Commit, EndTransaction, IInv, LockHeld, NumbersInOrder
<1>3. IdsDrawn' /\ InsertStillValid'
  BY <1>1, <1>2 DEF IdsDrawn, InsertStillValid
<1>4. LockHeld'
  BY <1>1, <1>2, NoSessionAssumption DEF LockHeld
<1>a. /\ n \notin DOMAIN journal
      /\ DOMAIN journal' = DOMAIN journal \cup {n}
      /\ journal'[n] = NewJournal(s)
      /\ \A j \in DOMAIN journal :
           journal'[j] = IF sess[s].op = "reverse" /\ j = o
                         THEN [journal[j] EXCEPT !.reversedBy = n]
                         ELSE journal[j]
  BY CommitRows
<1>b. /\ NewJournal(s).no = lastNo + 1 /\ NewJournal(s).key = sess[s].key
  BY <1>2 DEF NewJournal
<1>c. \A j \in DOMAIN journal :
         /\ journal'[j].no = journal[j].no
         /\ journal'[j].key = journal[j].key
         /\ journal'[j].posting = journal[j].posting
         /\ journal'[j].reverses = journal[j].reverses
  BY <1>a DEF IInv, TypeOK, JournalType
<1>d. \A j \in DOMAIN journal : journal[j].no \in Nat /\ journal[j].no <= lastNo
  BY DEF IInv, TypeOK, JournalType, NumbersInOrder
<1>5. NumbersInOrder'
  <2>1. ASSUME NEW j \in DOMAIN journal' PROVE journal'[j].no <= lastNo'
    BY <1>0, <1>2, <1>a, <1>b, <1>c, <1>d
  <2>2. \A t \in Sessions : sess'[t].pc \notin {"insert", "commit"}
    BY <1>1, <1>2
  <2>3. QED
    BY <2>1, <2>2 DEF NumbersInOrder
<1>6. KeyPostedOnce'
  <2>1. \A j \in DOMAIN journal : sess[s].key # NoKey => journal[j].key # sess[s].key
    BY DEF IInv, InsertStillValid, Posted, Commit
  <2>2. QED
    BY <2>1, <1>a, <1>b, <1>c DEF IInv, KeyPostedOnce
<1>7. NumberUnique'
  <2>1. \A j \in DOMAIN journal : journal[j].no # lastNo + 1
    BY <1>0, <1>d
  <2>2. QED
    BY <2>1, <1>a, <1>b, <1>c DEF IInv, NumberUnique
<1>8. AnswersCommitted'
  <2>1. answered' = answered \cup {<<sess[s].key, n>>}
    BY DEF Commit
  <2>2. QED
    BY <2>1, <1>a, <1>b, <1>c DEF IInv, AnswersCommitted
<1>9. BankAgreesWithGL'
  <2>1. ASSUME NEW b \in Banks
        PROVE  bankLcy'[b] = glBalance'[b]
    <3>1. b \in Accounts /\ bankLcy[b] = glBalance[b]
      BY ConstantsAssumption DEF IInv, BankAgreesWithGL
    <3>2. QED
      BY <3>1 DEF Commit, NewBalances, NewBankLcy
  <2>2. QED
    BY <2>1 DEF BankAgreesWithGL
<1>10. ReversalPrepared'
  <2>1. ASSUME NEW t \in Sessions \ {s}, sess[t].op = "reverse", sess[t].pc \in Holding
        PROVE  /\ Reversible(sess[t].target)'
               /\ sess'[t].posting = Swapped(journal'[sess'[t].target].posting)
               /\ ~LockedByOther(t, sess[t].target)'
    <3> DEFINE x == sess[t].target
    <3>1. /\ Reversible(x) /\ ~LockedByOther(t, x)
          /\ sess[t].posting = Swapped(journal[x].posting)
      BY <2>1 DEF IInv, ReversalPrepared
    <3>2. ~(sess[s].op = "reverse" /\ x = o)
      BY <2>1, <3>1 DEF LockedByOther, Commit
    <3>3. x \in DOMAIN journal /\ journal'[x] = journal[x]
      BY <3>1, <3>2, <1>a DEF Reversible
    <3>4. ~LockedByOther(t, x)'
      BY <3>1, <1>1 DEF LockedByOther
    <3>5. sess'[t] = sess[t]
      BY <1>1
    <3>6. QED
      BY <3>1, <3>3, <3>4, <3>5, <1>a DEF Reversible, LockedByOther
  <2>2. ASSUME NEW t \in Sessions
        PROVE  /\ sess'[t].op = "post" => sess'[t].target = 0
               /\ sess'[t].pc = "readKey" => sess'[t].op = "post"
    BY <1>1 DEF IInv, ReversalPrepared
  <2>3. QED
    BY <2>1, <2>2, <1>1 DEF ReversalPrepared, Holding
<1>11. QED
  BY <1>3, <1>4, <1>5, <1>6, <1>7, <1>8, <1>9, <1>10, CommitPairs DEF IInv

\* Every step keeps the invariant.
LEMMA NextSafe == IInv /\ [Next]_vars => IInv'
<1> SUFFICES ASSUME IInv, [Next]_vars PROVE IInv'
  OBVIOUS
<1>0. TypeOK /\ TypeOK'
  BY NextType DEF IInv
<1>1. ASSUME NEW s \in Sessions, StartPost(s) PROVE IInv'
  <2>1. /\ sess'[s].pc = "readKey" /\ sess'[s].op = "post" /\ sess'[s].target = 0
        /\ \A t \in Sessions \ {s} : sess'[t] = sess[t]
    BY <1>0, <1>1 DEF StartPost, Idle, TypeOK
  <2>2. AnswersCommitted'
    BY <1>1 DEF StartPost, tables, IInv, AnswersCommitted
  <2>3. UNCHANGED tables /\ sess[s].pc = "idle"
    BY <1>1 DEF StartPost
  <2>4. ReversalPrepared'
    BY <2>1, <2>3, TablesQuiet DEF IInv, ReversalPrepared, tables, LockedByOther, Holding
  <2>5. QED
    BY <1>0, <1>1, <2>1, <2>2, <2>4, MoveSafe DEF StartPost
<1>2. ASSUME NEW s \in Sessions, StartReverse(s) PROVE IInv'
  <2>1. /\ sess'[s].pc = "lockOriginal" /\ sess'[s].op = "reverse"
        /\ \A t \in Sessions \ {s} : sess'[t] = sess[t]
    BY <1>0, <1>2 DEF StartReverse, Idle, TypeOK
  <2>2. AnswersCommitted'
    BY <1>2 DEF StartReverse, tables, IInv, AnswersCommitted
  <2>3. UNCHANGED tables /\ sess[s].pc = "idle"
    BY <1>2 DEF StartReverse
  <2>4. ReversalPrepared'
    BY <2>1, <2>3, TablesQuiet DEF IInv, ReversalPrepared, tables, LockedByOther, Holding
  <2>5. QED
    BY <1>0, <1>2, <2>1, <2>2, <2>4, MoveSafe DEF StartReverse
<1>3. ASSUME NEW s \in Sessions, Crash(s) PROVE IInv'
  BY <1>0, <1>3, RollbackSafe DEF Crash
<1>4. ASSUME NEW s \in Sessions, ReadKey(s) PROVE IInv'
  <2>0. UNCHANGED <<tables, nextId, lastNo>> /\ sess[s].pc = "readKey"
    BY <1>4 DEF ReadKey
  <2>1. CASE \E j \in Posted(sess[s].key) :
               /\ answered' = answered \cup {<<sess[s].key, j>>}
               /\ EndTransaction(s)
    <3>1. AnswersCommitted'
      BY <2>0, <2>1 DEF IInv, AnswersCommitted, Posted, tables
    <3>2. QED
      BY <1>0, <2>0, <2>1, <3>1, EndSafe
  <2>2. CASE UNCHANGED <<seriesLock, answered>> /\ sess' = [sess EXCEPT ![s].pc = "check"]
    <3>1. sess[s].op = "post"
      BY <2>0 DEF IInv, ReversalPrepared
    <3>2. /\ sess'[s].pc = "check" /\ sess'[s].op = "post" /\ sess'[s].target = sess[s].target
          /\ \A t \in Sessions \ {s} : sess'[t] = sess[t]
      BY <2>2, <3>1, <1>0 DEF TypeOK, SessionType
    <3>3. ReversalPrepared'
      BY <2>0, <3>1, <3>2, TablesQuiet DEF IInv, ReversalPrepared, tables, LockedByOther, Holding
    <3>4. AnswersCommitted'
      BY <2>0, <2>2 DEF IInv, AnswersCommitted, tables
    <3>5. QED
      BY <1>0, <2>0, <2>2, <3>2, <3>3, <3>4, MoveSafe
  <2>3. QED
    BY <1>4, <2>1, <2>2 DEF ReadKey
<1>5. ASSUME NEW s \in Sessions, LockOriginal(s) PROVE IInv'
  <2> DEFINE j == sess[s].target
  <2>1. CASE /\ Reversible(j) /\ sess' = [sess EXCEPT ![s] = ReversalOf(s, j)]
             /\ UNCHANGED <<tables, nextId, lastNo, seriesLock, period, answered>>
    <3>1. /\ sess[s].pc = "lockOriginal" /\ ~LockedByOther(s, j)
      BY <1>5 DEF LockOriginal
    <3>2. sess[s] \in SessionType
      BY <1>0 DEF TypeOK
    <3>3. /\ sess'[s].pc = "check" /\ sess'[s].op = sess[s].op /\ sess'[s].target = j
          /\ sess'[s].posting = Swapped(journal[j].posting)
          /\ \A t \in Sessions \ {s} : sess'[t] = sess[t]
      BY <2>1, <3>2, <1>0 DEF TypeOK, SessionType, ReversalOf
    <3>4. ReversalPrepared'
      <4>1. \A t \in Sessions \ {s} :
              (sess[t].op = "reverse" /\ sess[t].pc \in Holding) => sess[t].target # j
        BY <3>1 DEF LockedByOther, Holding
      <4>2. ~LockedByOther(s, j)'
        BY <3>1, <3>3 DEF LockedByOther
      <4>3. QED
        BY <2>1, <3>1, <3>3, <4>1, <4>2, TablesQuiet
           DEF IInv, ReversalPrepared, tables, LockedByOther, Holding
    <3>5. AnswersCommitted'
      BY <2>1 DEF IInv, AnswersCommitted, tables
    <3>6. QED
      BY <1>0, <2>1, <3>1, <3>3, <3>4, <3>5, MoveSafe
  <2>2. CASE Rollback(s)
    BY <1>0, <2>2, RollbackSafe
  <2>3. QED
    BY <1>5, <2>1, <2>2 DEF LockOriginal
<1>6. ASSUME NEW s \in Sessions, Check(s) PROVE IInv'
  <2>1. CASE /\ sess' = [sess EXCEPT ![s].pc = "draw"]
             /\ UNCHANGED <<tables, nextId, lastNo, seriesLock, period, answered>>
    <3>1. sess[s].pc = "check" /\ sess[s] \in SessionType
      BY <1>0, <1>6 DEF Check, TypeOK
    <3>2. /\ sess'[s].pc = "draw" /\ sess'[s].op = sess[s].op
          /\ sess'[s].target = sess[s].target /\ sess'[s].posting = sess[s].posting
          /\ \A t \in Sessions \ {s} : sess'[t] = sess[t]
      BY <2>1, <3>1, <1>0 DEF TypeOK, SessionType
    <3>3. ReversalPrepared'
      BY <2>1, <3>1, <3>2, TablesQuiet DEF IInv, ReversalPrepared, tables, LockedByOther, Holding
    <3>4. AnswersCommitted'
      BY <2>1 DEF IInv, AnswersCommitted, tables
    <3>5. QED
      BY <1>0, <2>1, <3>1, <3>2, <3>3, <3>4, MoveSafe
  <2>2. CASE Rollback(s)
    BY <1>0, <2>2, RollbackSafe
  <2>3. QED
    BY <1>6, <2>1, <2>2 DEF Check
<1>7. ASSUME NEW s \in Sessions, DrawNo(s) PROVE IInv'
  <2>1. CASE /\ sess' = [sess EXCEPT ![s] = [@ EXCEPT !.pc = "insert", !.no = lastNo + 1]]
             /\ seriesLock' = s
             /\ UNCHANGED <<tables, nextId, lastNo, period, answered>>
    <3>1. sess[s].pc = "draw" /\ seriesLock = NoSession /\ sess[s] \in SessionType
      BY <1>0, <1>7 DEF DrawNo, TypeOK
    <3>2. /\ sess'[s].pc = "insert" /\ sess'[s].no = lastNo + 1 /\ sess'[s].op = sess[s].op
          /\ sess'[s].target = sess[s].target /\ sess'[s].posting = sess[s].posting
          /\ \A t \in Sessions \ {s} : sess'[t] = sess[t]
      BY <2>1, <3>1, <1>0 DEF TypeOK, SessionType
    <3>3. ReversalPrepared'
      BY <2>1, <3>1, <3>2, TablesQuiet DEF IInv, ReversalPrepared, tables, LockedByOther, Holding
    <3>4. \A t \in Sessions : sess[t].pc \notin {"insert", "commit"}
      BY <3>1, NoSessionAssumption DEF IInv, LockHeld
    <3>5. LockHeld' /\ NumbersInOrder' /\ IdsDrawn' /\ InsertStillValid' /\ AnswersCommitted'
      BY <2>1, <3>2, <3>4 DEF IInv, LockHeld, NumbersInOrder, IdsDrawn, InsertStillValid,
                              AnswersCommitted, tables
    <3>6. QED
      BY <1>0, <2>1, <3>3, <3>5, TablesQuiet DEF IInv
  <2>2. CASE Rollback(s)
    BY <1>0, <2>2, RollbackSafe
  <2>3. QED
    BY <1>7, <2>1, <2>2 DEF DrawNo
<1>8. ASSUME NEW s \in Sessions, Insert(s) PROVE IInv'
  <2>0. /\ sess[s].pc = "insert" /\ nextId' = nextId + 1 /\ UNCHANGED <<tables, period>>
        /\ seriesLock = s /\ sess[s].no = lastNo + 1 /\ sess[s] \in SessionType
    BY <1>0, <1>8 DEF Insert, IInv, LockHeld, NumbersInOrder, TypeOK
  <2>1. CASE \E j \in Posted(sess[s].key) :
               /\ answered' = answered \cup {<<sess[s].key, j>>}
               /\ lastNo' = sess[s].no
               /\ EndTransaction(s)
    <3>1. AnswersCommitted'
      BY <2>0, <2>1 DEF IInv, AnswersCommitted, Posted, tables
    <3>2. QED
      BY <1>0, <2>0, <2>1, <3>1, EndSafe
  <2>2. CASE EndTransaction(s) /\ UNCHANGED <<lastNo, answered>>
    <3>1. AnswersCommitted'
      BY <2>0, <2>2 DEF IInv, AnswersCommitted, tables
    <3>2. QED
      BY <1>0, <2>0, <2>2, <3>1, EndSafe
  <2>3. CASE /\ Posted(sess[s].key) = {}
             /\ sess' = [sess EXCEPT ![s] = [@ EXCEPT !.pc = "commit", !.id = nextId + 1]]
             /\ UNCHANGED <<seriesLock, lastNo, answered>>
    <3>1. /\ sess'[s].pc = "commit" /\ sess'[s].no = sess[s].no /\ sess'[s].op = sess[s].op
          /\ sess'[s].id = nextId + 1 /\ sess'[s].key = sess[s].key
          /\ sess'[s].target = sess[s].target /\ sess'[s].posting = sess[s].posting
          /\ \A t \in Sessions \ {s} : sess'[t] = sess[t]
      BY <2>3, <2>0, <1>0 DEF TypeOK, SessionType
    <3>2. ReversalPrepared'
      BY <2>0, <3>1, TablesQuiet DEF IInv, ReversalPrepared, tables, LockedByOther, Holding
    <3>3. \A t \in Sessions \ {s} : sess[t].pc \notin {"insert", "commit"}
      BY <2>0 DEF IInv, LockHeld
    <3>4. nextId \in Nat /\ nextId + 1 \notin DOMAIN journal
      BY <1>0 DEF TypeOK
    <3>5. LockHeld' /\ NumbersInOrder' /\ AnswersCommitted'
      BY <2>0, <2>3, <3>1, <3>3 DEF IInv, LockHeld, NumbersInOrder, AnswersCommitted, tables
    <3>6. IdsDrawn'
      BY <2>0, <3>1, <3>3, <3>4 DEF IdsDrawn
    <3>7. InsertStillValid'
      BY <2>0, <2>3, <3>1, <3>3, <3>4, TablesQuiet DEF InsertStillValid, tables
    <3>8. QED
      BY <1>0, <2>0, <3>2, <3>5, <3>6, <3>7, TablesQuiet DEF IInv
  <2>4. QED
    BY <1>8, <2>1, <2>2, <2>3 DEF Insert
<1>9. ASSUME NEW s \in Sessions, Commit(s) PROVE IInv'
  BY <1>0, <1>9, CommitSafe
<1>a. CASE UNCHANGED <<tables, nextId, lastNo, seriesLock, sess, answered>>
  <2>1. /\ IdsDrawn' /\ LockHeld' /\ NumbersInOrder' /\ InsertStillValid'
        /\ ReversalPrepared' /\ AnswersCommitted'
    BY <1>a, TablesQuiet DEF IInv, IdsDrawn, LockHeld, NumbersInOrder, InsertStillValid,
       ReversalPrepared, AnswersCommitted, LockedByOther, tables
  <2>2. QED
    BY <1>0, <1>a, <2>1, TablesQuiet DEF IInv
<1>b. CASE \E per \in Periods : SetPeriodStatus(per)
  BY <1>a, <1>b DEF SetPeriodStatus
<1>c. CASE UNCHANGED vars
  BY <1>a, <1>c DEF vars, tables
<1>d. QED
  BY <1>1, <1>2, <1>3, <1>4, <1>5, <1>6, <1>7, <1>8, <1>9, <1>b, <1>c DEF Next

-----------------------------------------------------------------------------
(* The stored balances and the rows they sum up.                           *)

\* The sum of a posting's or a ledger's amounts is a sum over its index set.
LEMMA SumIsSumOver == \A f : Sum(f) = SumOver(f, DOMAIN f)
BY DEF Sum, FoldFunction, SumOver, SumFunctionOnSet, FoldFunctionOnSet, MapThenFoldSet

LEMMA InitExplained == Init => BalancesExplained
<1> SUFFICES ASSUME Init PROVE BalancesExplained
  OBVIOUS
<1>1. ASSUME NEW a \in Accounts
      PROVE  glBalance[a] = Signed(a, Sum([j \in DOMAIN journal |-> journal[j].posting.lcy[a]]))
  <2> DEFINE f == [j \in DOMAIN journal |-> journal[j].posting.lcy[a]]
  <2>1. DOMAIN f = {}
    BY DEF Init
  <2> HIDE DEF f
  <2>2. Sum(f) = 0
    BY <2>1, SumIsSumOver, SumOfNothing
  <2> QED
    BY <2>2 DEF Init, Signed, f
<1>2. RunningBalanceChain
  BY DEF Init, RunningBalanceChain
<1> QED
  BY <1>1, <1>2 DEF BalancesExplained, BalanceIsSumOfJournals

\* A commit adds its lines to the balances and its journal to the sums.
LEMMA CommitSums ==
    ASSUME IInv, BalanceIsSumOfJournals, NEW s \in Sessions, Commit(s)
    PROVE  BalanceIsSumOfJournals'
<1> DEFINE n == sess[s].id
           p == sess[s].posting
           D == DOMAIN journal
<1>1. /\ n \notin D /\ DOMAIN journal' = D \cup {n}
      /\ journal'[n].posting = p
      /\ \A j \in D : journal'[j].posting = journal[j].posting
  <2>1. \A j \in D : journal[j] \in JournalType
    BY DEF IInv, TypeOK
  <2>2. NewJournal(s).posting = p
    BY DEF NewJournal
  <2>3. \A j \in D : [journal[j] EXCEPT !.reversedBy = n].posting = journal[j].posting
    BY <2>1 DEF JournalType
  <2> QED
    BY <2>2, <2>3, CommitRows
<1>2. IsFiniteSet(D)
  <2>1. D \in SUBSET (1 .. nextId) /\ nextId \in Int
    BY DEF IInv, TypeOK
  <2>2. IsFiniteSet(1 .. nextId)
    BY <2>1, FS_Interval
  <2> HIDE DEF D
  <2> QED
    BY <2>1, <2>2, FS_Subset
<1>3. ASSUME NEW a \in Accounts
      PROVE  glBalance'[a] = Signed(a, Sum([j \in DOMAIN journal' |-> journal'[j].posting.lcy[a]]))
  <2> DEFINE f == [j \in D |-> journal[j].posting.lcy[a]]
             g == [j \in DOMAIN journal' |-> journal'[j].posting.lcy[a]]
  <2>1. p.lcy[a] \in Int /\ \A j \in D : journal[j].posting.lcy[a] \in Int
    BY DEF IInv, TypeOK, SessionType, JournalType, PostingType, Amounts
  <2>2. /\ DOMAIN f = D /\ DOMAIN g = D \cup {n}
        /\ \A j \in D : f[j] = g[j] /\ f[j] \in Int
        /\ g[n] = p.lcy[a] /\ \A j \in D \cup {n} : g[j] \in Int
    BY <1>1, <2>1
  <2> HIDE DEF D, f, g
  <2>3. SumOver(g, D \cup {n}) = SumOver(g, D) + p.lcy[a]
    BY <1>1, <1>2, <2>2, SumWith
  <2>4. SumOver(g, D) = SumOver(f, D) /\ SumOver(f, D) \in Int
    BY <1>2, <2>2, SumSame, SumIsInt
  <2>5. Sum(g) = Sum(f) + p.lcy[a] /\ Sum(f) \in Int
    BY <2>2, <2>3, <2>4, SumIsSumOver
  <2>6. glBalance[a] = Signed(a, Sum(f))
    BY DEF BalanceIsSumOfJournals, f, D
  <2>7. glBalance'[a] = glBalance[a] + Signed(a, p.lcy[a])
    BY DEF Commit, NewBalances
  <2> QED
    BY <2>1, <2>5, <2>6, <2>7 DEF Signed, g
<1> QED
  BY <1>3 DEF BalanceIsSumOfJournals

\* A commit appends to a bank's ledger what it adds to the bank's balance.
LEMMA CommitChain ==
    ASSUME IInv, RunningBalanceChain, NEW s \in Sessions, Commit(s)
    PROVE  RunningBalanceChain'
<1> DEFINE p == sess[s].posting
<1>1. ASSUME NEW b \in Banks
      PROVE  LET e == bankLedger'[b]
                 before(i) == IF i = 0 THEN 0 ELSE e[i].running IN
             /\ \A i \in 1 .. Len(e) : e[i].running = before(i - 1) + e[i].amount
             /\ bankBalance'[b] = before(Len(e))
  <2> DEFINE d == bankLedger[b]
             x == Signed(b, p.fcy[b])
             r == BankEntry(s, b)
  <2>1. d \in Seq(EntryType) /\ bankBalance[b] \in Int /\ b \in Accounts
    BY ConstantsAssumption DEF IInv, TypeOK
  <2>2. p.fcy[b] \in Int /\ p.lcy[b] \in Int
    BY <2>1 DEF IInv, TypeOK, SessionType, PostingType, Amounts
  <2>3. x \in Int
    BY <2>2, SignedType
  <2>4. bankBalance'[b] = bankBalance[b] + x
    BY DEF Commit
  <2>5. /\ \A i \in 1 .. Len(d) :
             d[i].running = (IF i - 1 = 0 THEN 0 ELSE d[i - 1].running) + d[i].amount
        /\ bankBalance[b] = IF Len(d) = 0 THEN 0 ELSE d[Len(d)].running
    BY DEF RunningBalanceChain
  <2>6. CASE b \in Touched(p)
    <3>1. bankLedger'[b] = Append(d, r)
      BY <2>6 DEF Commit
    <3>2. r.amount = x /\ r.running = bankBalance[b] + x
      BY DEF BankEntry
    <3> HIDE DEF d, x, r
    <3>3. /\ Len(Append(d, r)) = Len(d) + 1 /\ Len(d) \in Nat
          /\ \A i \in 1 .. Len(d) : Append(d, r)[i] = d[i]
          /\ Append(d, r)[Len(d) + 1] = r
      BY <2>1
    <3> DEFINE e == Append(d, r)
    <3> HIDE DEF e
    <3>4. ASSUME NEW i \in 1 .. Len(e)
          PROVE  e[i].running = (IF i - 1 = 0 THEN 0 ELSE e[i - 1].running) + e[i].amount
      <4>1. CASE i \in 1 .. Len(d)
        BY <4>1, <3>3, <2>5 DEF e
      <4>2. CASE i = Len(d) + 1
        BY <4>2, <3>2, <3>3, <2>5 DEF e
      <4> QED
        BY <4>1, <4>2, <3>3 DEF e
    <3>5. bankBalance'[b] = IF Len(e) = 0 THEN 0 ELSE e[Len(e)].running
      BY <3>2, <3>3, <2>4 DEF e
    <3> QED
      BY <3>1, <3>4, <3>5 DEF e
  <2>7. CASE b \notin Touched(p)
    <3>1. bankLedger'[b] = d
      BY <2>7 DEF Commit
    <3>2. x = 0
      BY <2>1, <2>2, <2>7 DEF Touched, Signed
    <3> QED
      BY <2>1, <2>4, <2>5, <3>1, <3>2
  <2> QED
    BY <2>6, <2>7
<1> QED
  BY <1>1 DEF RunningBalanceChain

LEMMA NextExplained == IInv /\ BalancesExplained /\ [Next]_vars => BalancesExplained'
<1> SUFFICES ASSUME IInv, BalancesExplained, [Next]_vars PROVE BalancesExplained'
  OBVIOUS
<1>1. CASE UNCHANGED tables
  BY <1>1 DEF tables, BalancesExplained, BalanceIsSumOfJournals, RunningBalanceChain
<1>2. ASSUME NEW s \in Sessions, Commit(s) PROVE BalancesExplained'
  BY <1>2, CommitSums, CommitChain DEF BalancesExplained
<1> QED
  BY <1>1, <1>2 DEF Next, vars, tables, StartPost, StartReverse, Crash, Rollback,
     ReadKey, LockOriginal, Check, DrawNo, Insert, SetPeriodStatus

-----------------------------------------------------------------------------
(* The theorems.                                                           *)

LEMMA Invariance == Spec => []IInv
<1>1. IInv /\ [Next]_vars => IInv'
  BY NextSafe
<1>2. QED
  BY InitSafe, <1>1, PTL DEF Spec

\* Every variable keeps its type, and committed ids were drawn from the sequence.
THEOREM TypeCorrect == Spec => []TypeOK
<1>1. IInv => TypeOK
  BY DEF IInv
<1>2. QED
  BY Invariance, <1>1, PTL

\* An idempotency key is never posted twice, for any number of concurrent
\* replays, failures and crashes.
THEOREM KeyPostedOnceAlways == Spec => []KeyPostedOnce
<1>1. IInv => KeyPostedOnce
  BY DEF IInv
<1>2. QED
  BY Invariance, <1>1, PTL

\* No voucher number is carried by two journals.
THEOREM NumberUniqueAlways == Spec => []NumberUnique
<1>1. IInv => NumberUnique
  BY DEF IInv
<1>2. QED
  BY Invariance, <1>1, PTL

\* Every replay of a key is answered the journal that was posted first.
THEOREM ReplayAnswersOriginalAlways == Spec => []ReplayAnswersOriginal
<1>1. IInv => ReplayAnswersOriginal
  <2>1. SUFFICES ASSUME IInv PROVE ReplayAnswersOriginal
    OBVIOUS
  <2>2. ASSUME NEW a \in answered, NEW b \in answered, a[1] # NoKey, a[1] = b[1]
        PROVE  a[2] = b[2]
    <3>1. /\ a[2] \in DOMAIN journal /\ b[2] \in DOMAIN journal
          /\ journal[a[2]].key = a[1] /\ journal[b[2]].key = a[1]
      BY <2>1, <2>2 DEF IInv, AnswersCommitted
    <3>2. QED
      BY <2>1, <2>2, <3>1 DEF IInv, KeyPostedOnce
  <2>3. QED
    BY <2>1, <2>2 DEF IInv, AnswersCommitted, ReplayAnswersOriginal
<1>2. QED
  BY Invariance, <1>1, PTL

\* Keys and voucher numbers tell the committed journals apart.
THEOREM JournalsDistinctAlways == Spec => []JournalsDistinct
<1>1. KeyPostedOnce /\ NumberUnique => JournalsDistinct
  BY DEF JournalsDistinct
<1>2. QED
  BY KeyPostedOnceAlways, NumberUniqueAlways, <1>1, PTL

\* Reversed journals and their reversals are paired one to one.
THEOREM ReversalPairsAlways == Spec => []ReversalPairs
<1>1. IInv => ReversalPairs
  BY DEF IInv
<1>2. QED
  BY Invariance, <1>1, PTL

\* Every bank's base-currency balance is its control account's balance.
THEOREM BankAgreesWithGLAlways == Spec => []BankAgreesWithGL
<1>1. IInv => BankAgreesWithGL
  BY DEF IInv
<1>2. QED
  BY Invariance, <1>1, PTL

\* Every stored balance is what the committed rows add up to: the balance of an
\* account the signed sum of its journals, that of a bank the running balance of
\* its last entry, each entry continuing the one before.
THEOREM BalancesExplainedAlways == Spec => []BalancesExplained
<1>1. IInv /\ BalancesExplained /\ [Next]_vars => BalancesExplained'
  BY NextExplained
<1>2. QED
  BY Invariance, InitExplained, <1>1, PTL DEF Spec

\* A committed journal is never altered or removed; its back-link is set once.
THEOREM JournalImmutableAlways == Spec => JournalImmutable
<1> DEFINE Kept ==
      /\ DOMAIN journal \subseteq DOMAIN journal'
      /\ \A j \in DOMAIN journal :
           /\ [journal'[j] EXCEPT !.reversedBy = 0] = [journal[j] EXCEPT !.reversedBy = 0]
           /\ journal[j].reversedBy # 0 => journal'[j].reversedBy = journal[j].reversedBy
<1>1. IInv /\ [Next]_vars => Kept
  <2>1. SUFFICES ASSUME IInv, [Next]_vars PROVE Kept
    OBVIOUS
  <2>2. CASE journal' = journal
    BY <2>2
  <2>3. ASSUME NEW s \in Sessions, Commit(s) PROVE Kept
    <3> DEFINE o == sess[s].target
    <3>1. /\ DOMAIN journal' = DOMAIN journal \cup {sess[s].id}
          /\ \A j \in DOMAIN journal :
               journal'[j] = IF sess[s].op = "reverse" /\ j = o
                             THEN [journal[j] EXCEPT !.reversedBy = sess[s].id]
                             ELSE journal[j]
      BY <2>1, <2>3, CommitRows
    <3>2. sess[s].op = "reverse" => journal[o].reversedBy = 0
      BY <2>1, <2>3 DEF IInv, ReversalPrepared, Holding, Commit, Reversible
    <3>3. ASSUME NEW j \in DOMAIN journal
          PROVE  [journal'[j] EXCEPT !.reversedBy = 0] = [journal[j] EXCEPT !.reversedBy = 0]
      BY <2>1, <3>1, <3>3 DEF IInv, TypeOK, JournalType
    <3>4. QED
      BY <3>1, <3>2, <3>3
  <2>4. QED
    BY <2>1, <2>2, <2>3 DEF Next, vars, tables, StartPost, StartReverse, Crash, Rollback,
       ReadKey, LockOriginal, Check, DrawNo, Insert, SetPeriodStatus
<1>2. QED
  BY Invariance, <1>1, PTL DEF Spec, JournalImmutable
=============================================================================
