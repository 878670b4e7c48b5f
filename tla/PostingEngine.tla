--------------------------- MODULE PostingEngine ---------------------------
(***************************************************************************)
(* The posting engine of lib/accounting.ts under concurrent sessions.      *)
(*                                                                         *)
(* Each session runs one request at a time: postJournal or reverseJournal, *)
(* both one READ COMMITTED transaction (lib/db.ts tx).  A step of a        *)
(* session is what it does between two points at which another session's   *)
(* commit can become visible to it.  What a transaction writes is kept in  *)
(* the session's record and reaches the tables only in Commit, so a crash  *)
(* or an error before it leaves nothing behind.                            *)
(*                                                                         *)
(* A journal's lines are abstracted to their net debit per account, in the *)
(* journal's currency (fcy) and in the base currency (lcy); how single     *)
(* lines become these amounts is the subject of module JournalLines.       *)
(***************************************************************************)
EXTENDS Integers, Sequences, FiniteSets, Functions

CONSTANTS
    Sessions,       \* database sessions serving requests
    Keys,           \* idempotency keys callers pass
    NoKey,          \* "idempotencyKey = null"
    Accounts,       \* gl_account rows that exist
    PostableAccounts, \* the active, postable ones among them
    DebitAccounts,  \* accounts whose type is ASSET or EXPENSE
    Banks,          \* control accounts of an ACTIVE bank_account
    BankCurrency,   \* bank_account.currency_code, per control account
    Currencies,
    BaseCurrency,
    Periods,        \* accounting_period codes
    AllowedPeriods, \* dates inside each session's Allow Posting From/To
    CanReverse,     \* sessions whose user has "Can Reverse Journal"
    Postings,       \* the line lists callers hand over, as net amounts
    LastNo,         \* Ending No. of the JOURNAL number series
    MaxId           \* bound on journal ids ever drawn (bounds the requests)

Amounts == [Accounts -> Int]
PostingType == [ccy : Currencies, fcy : Amounts, lcy : Amounts]

ASSUME ConstantsAssumption ==
    /\ NoKey \notin Keys
    /\ PostableAccounts \subseteq Accounts
    /\ DebitAccounts \subseteq Accounts
    /\ Banks \subseteq Accounts
    /\ BankCurrency \in [Banks -> Currencies]
    /\ BaseCurrency \in Currencies
    /\ Periods # {}
    /\ AllowedPeriods \in [Sessions -> SUBSET Periods]
    /\ CanReverse \subseteq Sessions
    /\ Postings \subseteq PostingType
    /\ LastNo \in Nat
    /\ MaxId \in Nat

NoSession == "none"     \* nobody holds the number series line

ASSUME NoSessionAssumption == NoSession \notin Sessions

VARIABLES
    journal,     \* journal and journal_line: committed id -> row
    nextId,      \* the id sequence of table journal; never rolled back
    lastNo,      \* last_no_used of the JOURNAL series line
    seriesLock,  \* session holding that line FOR UPDATE, or NoSession
    glBalance,   \* gl_account.balance
    bankBalance, \* bank_account.balance, in the bank's currency
    bankLcy,     \* bank_account.balance_lcy
    bankLedger,  \* bank_account_ledger_entry rows, per bank, in order
    period,      \* accounting_period.status
    sess,        \* what each session is doing
    answered     \* history: <<key, id>> pairs returned to callers

vars == <<journal, nextId, lastNo, seriesLock, glBalance, bankBalance,
          bankLcy, bankLedger, period, sess, answered>>

-----------------------------------------------------------------------------
(* The rows and the records.                                               *)

JournalType ==
    [no : Nat, key : Keys \cup {NoKey}, posting : PostingType,
     period : Periods, closing : BOOLEAN, reversedBy : Nat, reverses : Nat]

EntryType == [journal : Nat, ccy : Currencies, amount : Int, running : Int]

Stages == {"idle", "readKey", "lockOriginal", "check", "draw", "insert", "commit"}

SessionType ==
    [pc : Stages, op : {"post", "reverse"}, key : Keys \cup {NoKey},
     posting : PostingType, period : Periods, closing : BOOLEAN,
     target : Nat, no : Nat, id : Nat]

TypeOK ==
    /\ DOMAIN journal \subseteq 1 .. nextId
    /\ \A j \in DOMAIN journal : journal[j] \in JournalType
    /\ nextId \in Nat
    /\ lastNo \in Nat
    /\ seriesLock \in Sessions \cup {NoSession}
    /\ glBalance \in Amounts
    /\ bankBalance \in [Banks -> Int]
    /\ bankLcy \in [Banks -> Int]
    /\ bankLedger \in [Banks -> Seq(EntryType)]
    /\ period \in [Periods -> {"OPEN", "CLOSED"}]
    /\ sess \in [Sessions -> SessionType]
    /\ answered \subseteq (Keys \cup {NoKey}) \X Nat

-----------------------------------------------------------------------------
(* Operators of the code.                                                  *)

Sum(f) == FoldFunction(LAMBDA x, y : x + y, 0, f)

\* NATURAL_DEBIT: an account's balance grows with debits or with credits
Signed(a, n) == IF a \in DebitAccounts THEN n ELSE -n

Touched(p) == {a \in Accounts : p.fcy[a] # 0 \/ p.lcy[a] # 0}

\* resolveAccount on every line, then OUT_OF_BALANCE and ZERO_JOURNAL
ValidLines(p) ==
    /\ Touched(p) \subseteq PostableAccounts
    /\ Sum(p.fcy) = 0
    /\ Sum(p.lcy) = 0
    /\ Touched(p) # {}

\* debit and credit swapped on every line
Swapped(p) == [p EXCEPT !.fcy = [a \in Accounts |-> -p.fcy[a]],
                        !.lcy = [a \in Accounts |-> -p.lcy[a]]]

\* the BANK_CURRENCY_MISMATCH test of a line on a bank's control account
BankMismatch(p) ==
    /\ p.ccy # BaseCurrency
    /\ \E b \in Banks \cap Touched(p) : BankCurrency[b] # p.ccy

Posted(k) == {j \in DOMAIN journal : k # NoKey /\ journal[j].key = k}

InTransaction(s) == sess[s].pc # "idle"

\* defect: the original is read without FOR UPDATE
NeverLocked(s, j) == FALSE

\* journal rows some other session has locked with SELECT ... FOR UPDATE
LockedByOther(s, j) ==
    \E t \in Sessions \ {s} :
        /\ sess[t].op = "reverse"
        /\ sess[t].target = j
        /\ sess[t].pc \in {"check", "draw", "insert", "commit"}

\* not NOT_FOUND, ALREADY_REVERSED or IS_REVERSAL
Reversible(j) ==
    /\ j \in DOMAIN journal
    /\ journal[j].reversedBy = 0
    /\ journal[j].reverses = 0

\* period open or closing entry, date allowed, lines valid
Postable(s) ==
    /\ sess[s].closing \/ period[sess[s].period] = "OPEN"
    /\ sess[s].period \in AllowedPeriods[s]
    /\ ValidLines(sess[s].posting)

\* ids in use or promised to a running request: the bound on requests
Promised == nextId + Cardinality({s \in Sessions : InTransaction(s)})

-----------------------------------------------------------------------------
(* Initial state: an empty ledger.                                         *)

NoPosting ==
    [ccy |-> BaseCurrency, fcy |-> [a \in Accounts |-> 0],
     lcy |-> [a \in Accounts |-> 0]]

\* a session that runs nothing: the other fields mean nothing then
Idle ==
    [pc |-> "idle", op |-> "post", key |-> NoKey, posting |-> NoPosting,
     period |-> CHOOSE per \in Periods : TRUE, closing |-> FALSE,
     target |-> 0, no |-> 0, id |-> 0]

Init ==
    /\ journal = [j \in {} |-> NoPosting]
    /\ nextId = 0
    /\ lastNo = 0
    /\ seriesLock = NoSession
    /\ glBalance = [a \in Accounts |-> 0]
    /\ bankBalance = [b \in Banks |-> 0]
    /\ bankLcy = [b \in Banks |-> 0]
    /\ bankLedger = [b \in Banks |-> <<>>]
    /\ period = [per \in Periods |-> "OPEN"]
    /\ sess = [s \in Sessions |-> Idle]
    /\ answered = {}

tables == <<journal, glBalance, bankBalance, bankLcy, bankLedger>>

-----------------------------------------------------------------------------
(* postJournal and reverseJournal, step by step.                           *)

\* defect: an error path that leaves the series line locked
EndHoldingLock(s) ==
    /\ sess' = [sess EXCEPT ![s] = Idle]
    /\ UNCHANGED seriesLock

\* The transaction ends: its session is free and its locks are released.
EndTransaction(s) ==
    /\ sess' = [sess EXCEPT ![s] = Idle]
    /\ seriesLock' = IF seriesLock = s THEN NoSession ELSE seriesLock

\* An error or a lost connection: ROLLBACK, nothing was written.
Rollback(s) ==
    /\ EndTransaction(s)
    /\ UNCHANGED <<tables, nextId, lastNo, period, answered>>

StartPost(s) ==
    /\ sess[s].pc = "idle"
    /\ Promised < MaxId
    /\ \E k \in Keys \cup {NoKey}, p \in Postings, per \in Periods, cl \in BOOLEAN :
         sess' = [sess EXCEPT ![s] =
                    [Idle EXCEPT !.pc = "readKey", !.key = k, !.posting = p,
                                 !.period = per, !.closing = cl]]
    /\ UNCHANGED <<tables, nextId, lastNo, seriesLock, period, answered>>

\* The idempotency read: a key already posted returns the first journal.
ReadKey(s) ==
    /\ sess[s].pc = "readKey"
    /\ \/ \E j \in Posted(sess[s].key) :
            /\ answered' = answered \cup {<<sess[s].key, j>>}
            /\ EndTransaction(s)
       \/ /\ Posted(sess[s].key) = {}
          /\ sess' = [sess EXCEPT ![s].pc = "check"]
          /\ UNCHANGED <<seriesLock, answered>>
    /\ UNCHANGED <<tables, nextId, lastNo, period>>

StartReverse(s) ==
    /\ sess[s].pc = "idle"
    /\ s \in CanReverse
    /\ Promised < MaxId
    /\ \E j \in 1 .. nextId, per \in Periods :
         sess' = [sess EXCEPT ![s] =
                    [Idle EXCEPT !.pc = "lockOriginal", !.op = "reverse",
                                 !.target = j, !.period = per]]
    /\ UNCHANGED <<tables, nextId, lastNo, seriesLock, period, answered>>

\* What the session posts to reverse journal j: the swapped lines, and for a
\* closing entry the original's own date.
ReversalOf(s, j) ==
    [sess[s] EXCEPT !.pc = "check",
                    !.posting = Swapped(journal[j].posting),
                    !.closing = journal[j].closing,
                    !.period = IF journal[j].closing
                               THEN journal[j].period ELSE sess[s].period]

\* SELECT ... FOR UPDATE of the original, then the three refusals.
LockOriginal(s) ==
    LET j == sess[s].target IN
    /\ sess[s].pc = "lockOriginal"
    /\ ~LockedByOther(s, j)
    /\ \/ /\ Reversible(j)
          /\ sess' = [sess EXCEPT ![s] = ReversalOf(s, j)]
          /\ UNCHANGED <<tables, nextId, lastNo, seriesLock, period, answered>>
       \/ /\ ~Reversible(j)
          /\ Rollback(s)

\* assertPeriodOpen, assertPostingDateAllowed and the line validation.
Check(s) ==
    /\ sess[s].pc = "check"
    /\ \/ /\ Postable(s)
          /\ sess' = [sess EXCEPT ![s].pc = "draw"]
          /\ UNCHANGED <<tables, nextId, lastNo, seriesLock, period, answered>>
       \/ /\ ~Postable(s)
          /\ Rollback(s)

\* defect: the series line is read without FOR UPDATE
DrawNoUnlocked(s) ==
    /\ sess[s].pc = "draw"
    /\ lastNo < LastNo
    /\ sess' = [sess EXCEPT ![s] = [@ EXCEPT !.pc = "insert", !.no = lastNo + 1]]
    /\ UNCHANGED <<tables, nextId, lastNo, seriesLock, period, answered>>

\* nextSequence('JOURNAL'): the series line stays locked until the
\* transaction ends, and past Ending No. there is no number.
DrawNo(s) ==
    /\ sess[s].pc = "draw"
    /\ seriesLock = NoSession
    /\ \/ /\ lastNo < LastNo
          /\ sess' = [sess EXCEPT ![s] = [@ EXCEPT !.pc = "insert", !.no = lastNo + 1]]
          /\ seriesLock' = s
          /\ UNCHANGED <<tables, nextId, lastNo, period, answered>>
       \/ /\ lastNo >= LastNo
          /\ Rollback(s)

\* defect: the key read in ReadKey is trusted, no ON CONFLICT
InsertBlindly(s) ==
    /\ sess[s].pc = "insert"
    /\ ~BankMismatch(sess[s].posting)
    /\ nextId' = nextId + 1
    /\ sess' = [sess EXCEPT ![s] = [@ EXCEPT !.pc = "commit", !.id = nextId + 1]]
    /\ UNCHANGED <<tables, seriesLock, lastNo, answered, period>>

\* INSERT ... ON CONFLICT (idempotency_key) DO NOTHING.  The loser returns
\* the winner's journal and commits only the number it drew.  The winner
\* goes on to its lines and the bank subledger.
Insert(s) ==
    /\ sess[s].pc = "insert"
    /\ nextId' = nextId + 1
    /\ \/ \E j \in Posted(sess[s].key) :
            /\ answered' = answered \cup {<<sess[s].key, j>>}
            /\ lastNo' = sess[s].no
            /\ EndTransaction(s)
       \/ /\ Posted(sess[s].key) = {}
          /\ BankMismatch(sess[s].posting)
          /\ EndTransaction(s)
          /\ UNCHANGED <<lastNo, answered>>
       \/ /\ Posted(sess[s].key) = {}
          /\ ~BankMismatch(sess[s].posting)
          /\ sess' = [sess EXCEPT ![s] = [@ EXCEPT !.pc = "commit", !.id = nextId + 1]]
          /\ UNCHANGED <<seriesLock, lastNo, answered>>
    /\ UNCHANGED <<tables, period>>

\* The journal a committing session leaves behind, with the back-links a
\* reversal writes on both sides before its transaction ends.
NewJournal(s) ==
    [no |-> sess[s].no, key |-> sess[s].key, posting |-> sess[s].posting,
     period |-> sess[s].period, closing |-> sess[s].closing,
     reversedBy |-> 0, reverses |-> sess[s].target]

WithJournal(s) ==
    [j \in DOMAIN journal \cup {sess[s].id} |->
        IF j = sess[s].id THEN NewJournal(s)
        ELSE IF sess[s].op = "reverse" /\ j = sess[s].target
             THEN [journal[j] EXCEPT !.reversedBy = sess[s].id]
             ELSE journal[j]]

\* one bank_account_ledger_entry, its running balance from UPDATE ... RETURNING
BankEntry(s, b) ==
    LET n == Signed(b, sess[s].posting.fcy[b]) IN
    [journal |-> sess[s].id, ccy |-> sess[s].posting.ccy, amount |-> n,
     running |-> bankBalance[b] + n]

\* defects: debit-positive on every account; the foreign amount as base amount
UnsignedBalances(p) == [a \in Accounts |-> glBalance[a] + p.lcy[a]]
ForeignAsBase(p) == [b \in Banks |-> bankLcy[b] + Signed(b, p.fcy[b])]

\* UPD_BAL and UPD_BANK_BAL: relative updates of the stored balances
NewBalances(p) == [a \in Accounts |-> glBalance[a] + Signed(a, p.lcy[a])]
NewBankLcy(p) == [b \in Banks |-> bankLcy[b] + Signed(b, p.lcy[b])]

Commit(s) ==
    LET p == sess[s].posting IN
    /\ sess[s].pc = "commit"
    /\ journal' = WithJournal(s)
    /\ lastNo' = sess[s].no
    /\ glBalance' = NewBalances(p)
    /\ bankBalance' = [b \in Banks |-> bankBalance[b] + Signed(b, p.fcy[b])]
    /\ bankLcy' = NewBankLcy(p)
    /\ bankLedger' = [b \in Banks |->
                        IF b \in Touched(p) THEN Append(bankLedger[b], BankEntry(s, b))
                        ELSE bankLedger[b]]
    /\ answered' = answered \cup {<<sess[s].key, sess[s].id>>}
    /\ EndTransaction(s)
    /\ UNCHANGED <<nextId, period>>

\* The connection drops, the process dies or the two-minute limit strikes.
Crash(s) ==
    /\ InTransaction(s)
    /\ Rollback(s)

\* setPeriodStatus in lib/gl.ts, one autocommitted UPDATE
SetPeriodStatus(per) ==
    /\ period' = [period EXCEPT ![per] = IF @ = "OPEN" THEN "CLOSED" ELSE "OPEN"]
    /\ UNCHANGED <<tables, nextId, lastNo, seriesLock, sess, answered>>

Step(s) ==
    \/ ReadKey(s) \/ LockOriginal(s) \/ Check(s)
    \/ DrawNo(s) \/ Insert(s) \/ Commit(s)

Next ==
    \/ \E s \in Sessions :
         \/ StartPost(s) \/ StartReverse(s) \/ Crash(s)
         \/ ReadKey(s) \/ LockOriginal(s) \/ Check(s)
         \/ DrawNo(s) \/ Insert(s) \/ Commit(s)
    \/ \E per \in Periods : SetPeriodStatus(per)

Spec == Init /\ [][Next]_vars

\* PostgreSQL runs every statement it is sent, and grants a row lock to its
\* waiters in the order they queued.
FairSpec ==
    /\ Spec
    /\ \A s \in Sessions :
         /\ WF_vars(Step(s))
         /\ SF_vars(LockOriginal(s))
         /\ SF_vars(DrawNo(s))

-----------------------------------------------------------------------------
(* What the engine promises.                                               *)

\* "idempotency keys are never posted twice": however many replays of a
\* request overlap, one journal carries the key.
KeyPostedOnce ==
    \A j1, j2 \in DOMAIN journal :
        (journal[j1].key # NoKey /\ journal[j1].key = journal[j2].key) => j1 = j2

\* Two journals never carry one voucher number, although numbers of failed
\* transactions are handed out again and losers of a replay burn theirs.
NumberUnique ==
    \A j1, j2 \in DOMAIN journal : journal[j1].no = journal[j2].no => j1 = j2

\* Both at once: keys and numbers tell the committed journals apart.
JournalsDistinct == KeyPostedOnce /\ NumberUnique

\* Whatever a caller of postJournal was answered is a committed journal, and
\* every replay of its key was answered the same one.
ReplayAnswersOriginal ==
    /\ \A a \in answered : a[2] \in DOMAIN journal
    /\ \A a, b \in answered : (a[1] # NoKey /\ a[1] = b[1]) => a[2] = b[2]

\* Two users reversing the same journal post one reversal: the back-links
\* pair each reversed journal with exactly one journal that negates it, and
\* no reversal is reversed in turn.
ReversalPairs ==
    \A j \in DOMAIN journal :
        /\ journal[j].reversedBy # 0 =>
             /\ journal[j].reversedBy \in DOMAIN journal
             /\ journal[journal[j].reversedBy].reverses = j
             /\ journal[j].reverses = 0
        /\ journal[j].reverses # 0 =>
             /\ journal[j].reverses \in DOMAIN journal
             /\ journal[journal[j].reverses].reversedBy = j
             /\ journal[j].posting = Swapped(journal[journal[j].reverses].posting)

\* The stored balance of every account is what its committed journals add up
\* to: concurrent posts lose no update and a failed one leaves no trace.
BalanceIsSumOfJournals ==
    \A a \in Accounts :
        glBalance[a] =
            Signed(a, Sum([j \in DOMAIN journal |-> journal[j].posting.lcy[a]]))

\* "the ... bank subsidiary balances can never diverge from the GL".
BankAgreesWithGL ==
    \A b \in Banks : bankLcy[b] = glBalance[b]

\* Each bank ledger entry continues the running balance of the one before it
\* and the last one is the account's balance: entries are in commit order.
RunningBalanceChain ==
    \A b \in Banks :
        LET e == bankLedger[b]
            before(i) == IF i = 0 THEN 0 ELSE e[i].running IN
        /\ \A i \in 1 .. Len(e) : e[i].running = before(i - 1) + e[i].amount
        /\ bankBalance[b] = before(Len(e))

\* Both at once: every stored balance is explained by the rows it sums up.
BalancesExplained == BalanceIsSumOfJournals /\ RunningBalanceChain

\* A committed journal is never altered or removed: later steps only add
\* journals and set the back-link of one that had none.
JournalImmutable ==
    [][/\ DOMAIN journal \subseteq DOMAIN journal'
       /\ \A j \in DOMAIN journal :
            /\ [journal'[j] EXCEPT !.reversedBy = 0] = [journal[j] EXCEPT !.reversedBy = 0]
            /\ journal[j].reversedBy # 0 => journal'[j].reversedBy = journal[j].reversedBy]_vars

\* Every request ends, with an answer or an error: the row lock of the
\* original and the lock of the number series are never waited for in a circle.
EveryRequestEnds ==
    \A s \in Sessions : InTransaction(s) ~> ~InTransaction(s)

\* "the accounting period is OPEN": no ordinary journal appears in a period
\* that is closed when it appears.
NoPostingIntoClosedPeriod ==
    [][\A j \in DOMAIN journal' \ DOMAIN journal :
         journal'[j].closing \/ period[journal'[j].period] = "OPEN"]_vars

\* "A bank_account_ledger_entry is denominated in the bank account's own
\* currency".
BankEntryInOwnCurrency ==
    \A b \in Banks : \A i \in 1 .. Len(bankLedger[b]) :
        bankLedger[b][i].ccy = BankCurrency[b]
=============================================================================
