# Verification of the school back office

TLA+ models of the parts of this system that post money, number documents, approve
them, keep registers beside the ledger and work in the background, with TLC runs on
small instances and proofs checked by TLAPS. Every definition is translated from the
source; `PROJECT.json` (`map`) names the lines each stands for.

Contents: [the system](#1-the-system) · [plan](#2-plan) · [modules](#3-modules-and-code)
· [runs](#4-runs) · [disagreements found](#5-where-the-code-and-its-promises-part) ·
[fairness](#6-fairness) · [proofs](#7-proofs) · [limits](#8-what-is-not-modelled)

## 1. The system

A Next.js application over PostgreSQL, one schema per company. Server actions in
`app/actions` check a permission and call a domain service in `lib`; services read and
write with SQL, in transactions opened by `tx()` of `lib/db.ts` (READ COMMITTED, a
nested `tx` is a savepoint). There is one ledger, and one function that writes to it.

| Part | State | Operations | Interacts with |
| --- | --- | --- | --- |
| Posting engine (`accounting.ts`) | journals and lines, account and bank balances, bank ledger, periods | post, replay by key, reverse, open/close a period | everything that posts calls it; draws from the number series |
| Number series (`noSeries.ts`) | lines with last number, last date, open flag | draw one or a block, edit a line | every document |
| Customer ledger (`custLedger.ts`) | entries, detailed entries, customer balance | create, apply (discount, exchange difference), unapply | posting engine, receipts, sales |
| Receipts (`receipts.ts`) | header, lines, posted copy | create, edit, delete, submit, recall, approve, post | workflow, posting engine, customer ledger |
| Workflow (`workflow.ts`) | tasks at a step and level, delegations | submit, decide, delegate, recall, reopen | the status of every document kind |
| M-Pesa (`mpesa/index.ts`) | one row per payment | confirmation, push, callback, query, allocate, cancel, post | the payment network, receipts, job queue |
| Job queue (`jobQueue.ts`, `instrumentation.ts`) | entries with lease and next run; the in-memory set of each process | poll, Run now, change, delete | runs the jobs of all other parts |
| Outbox (`outbox.ts`) | messages with status and attempts | queue, claim, send, retry, cancel, purge | gateways, job queue |
| Fee runs (`fees/invoices.ts`) | runs, `fee_invoice` notes | create, post, delete | sales invoices, customer ledger |
| Documents of fifteen kinds (vouchers, claims, imprests, journal lines, leave, contracts ...) | header status, posted flag, contents | edit, delete, submit, recall, approve, reject, reopen, post | workflow, posting engine, the register the kind is about |
| Sales and purchase orders (`salesDocuments.ts`, `purchaseDocuments.ts`) | header, line quantities shipped and invoiced, interim account | make from a quotation, release, ship/receive, invoice, reopen | stock, customer/vendor ledger |
| Requisitions (`requisitions.ts`) | lines with decision and order number | decide, execute, close; issue from store | purchase orders, stock |
| Stock (`inventoryCosting.ts`, `itemJournal.ts`) | lots, stockkeeping roll-up, item ledger | movements under five costing methods | orders, store issues, inventory account |
| Fixed assets (`faJournal.ts`, `fixedAssetDepreciation.ts`, `fixedAssets.ts`) | depreciation book, FA ledger | enter, calculate, post, dispose | cost and depreciation accounts, purchase and sales documents |
| Payroll (`payroll.ts`) | periods, transaction lines, payslips | create, run, approve, close, roll over | imprests, exits, posting engine |
| Imprests and claims (`imprest.ts`, `staffClaims.ts`) | documents, employee ledger | issue, surrender, claim, recover through payroll | payroll, control account |
| Bank reconciliation (`bankMgmt.ts`) | reconciliations, last statement balance, entries closed | start, match, adjust, post | bank ledger |
| Leave (`leaveManagement.ts`) | leave ledger, calendars, applications, recalls | apply, recall, adjust, accrue, close | workflow |
| Hostel, library, transport | allocations, loans, work tickets | take, give back, withdraw, fine | fee accounts |
| Students (`students.ts`, `admissions.ts`) | status, class, enrolments, fee account, applications | admit, place, promote, leave, come back | customers |
| Exits (`employeeExits.ts`) | request, final dues, clearance lines | create, edit, approve, clear | payroll |
| Reminders (`reminders.ts`) | documents with a level, entry levels | draft, issue, delete | customer ledger, posting engine |
| Positions (`companyJobs.ts`, `employees.ts`) | positions with posts and reporting line, who holds them | open, edit, approve, retire; enter, activate, move, leave | workflow, exits |
| Pay (`employees.ts`, `salaryScales.ts`, `employeeContractChanges.ts`, `employeeEdits.ts`) | salary card, current contract, notches, edit request | save the card, confer a notch, approve a change, apply an edit | the payroll reads the contract |
| School calendar (`academics/setup.ts`) | years, terms, the current ones | save a year with its terms, set current, delete | classes, lessons, marks, fees refer to it |
| Timetable (`academics/timetable.ts`, `academics/teachers.ts`) | lessons, teachers, class teachers | save, copy a term, delete, flag and unflag, delete a class | the calendar |
| Report cards (`academics/assessments.ts`) | marks with labels, cards with remarks | enter marks, save, publish | the grading scale |
| Year end (`gl.ts`, `closeIncomeStatement.ts`) | fiscal years, closing journals | create year, close year, close income statement, reverse | posting engine |

The remaining components (VAT arithmetic, sign-in and permissions, web
services, configuration packages, reports, pages) are in `PROJECT.json` with the reason
each stays out.

**What is hard.** (a) Requests run concurrently under READ COMMITTED: many handlers
read a row, decide, and write it by id without a lock, so what they decided on may be
gone. (b) A handler may die between two of its transactions; M-Pesa posting, fee runs,
admissions, reminders, jobs and deliveries consist of several. (c) The payment network
repeats, delays and loses calls, and the status query answers the same question as the
callback. (d) Leases and "stuck for ten minutes" take time for evidence of death. (e)
Rounding: instalments, discounts, exchange differences, unit costs, depreciation. (f)
Long legal sequences: apply–unapply–apply, delegate–delegate back, recall–edit–resubmit,
ship–reopen–ship and invoice, run–reopen–run–close, close a year–post–close it again,
raise by contract–edit the card.

**What makes each part correct**, in a line:

- posting engine: a key is posted once, numbers are unique, stored balances are the sum
  of the journals, the bank ledger agrees with the G/L, a journal is never changed;
- number series: no number twice, no gap, nothing beyond the last number;
- customer ledger: its balance is the control account's, detailed entries explain what
  remains, application neither creates nor loses money;
- receipts: what is in the customer ledger is what was posted, and what is big was
  approved, for its amount;
- workflow: no document is stranded, no step is skipped, nobody alone clears a level
  they share;
- documents of every kind: applied once, and as they were approved;
- M-Pesa: a payment is credited once, and only if it was paid;
- job queue: one run of an entry at a time; what is ready runs;
- outbox: one sender at a time, SENT means sent, nothing is forgotten;
- fee runs: everybody is billed once, for exactly the bill;
- orders and reviews: goods move once, the party is billed once, a requisition line
  stands on one order;
- stock and assets: roll-ups, ledgers and accounts tell one story; depreciation stops at
  salvage value;
- payroll, imprests, exits: a loan is what the payslips have left of it, the control
  account is the employee ledger, dues are handed over once;
- beds, copies, buses, classes: one holder, within capacity; an application becomes one
  student;
- leave: no more is taken than was granted;
- reminders: each is charged for once, levels are passed in order;
- positions and pay: no reporting line in a circle, no more holders than posts, and the
  payroll pays what was decided last, wherever it was decided;
- academics: nobody is in two lessons at once, one term is current and it is one of the
  current year, what parents were shown stays shown;
- reconciliations and closings: no entry is counted twice, no result is transferred twice.

## 2. Plan

Order: what moves money first, then what decides about it, then what drives it, then
what keeps its own registers.

1. **done** PostingEngine, NoSeries: everything rests on them.
2. **done** CustLedger, Receipts, Workflow, Mpesa: from the payer to the ledger.
3. **done** JobQueue (with the abstract lock Exclusion), Outbox, FeeRun.
4. **done** DocumentLife with its table of kinds; Stock, Orders, Review,
   FixedAsset, Payroll, Imprest, YearEnd, joined in Registers; Places, BankRec, Leave,
   Students, Exits, Reminders, joined with NoSeries, Outbox and FeeRun in MCServices.
5. **done** Establishment, StaffPay, SchoolCalendar, Timetable, ReportCards, joined in
   Organisation.
6. *then* the composition of PostingEngine with CustLedger and Receipts (a reversal from
   the G/L against a posted receipt), the adjustment of exchange rates, budgets against
   concurrent commitments, attendance registers.

Abstract specifications. `Exclusion` (a lock) is implemented by JobQueue, checked and
proved. DocumentLife is itself the abstraction of fifteen kinds of handler, proved for
every table of kinds that has one of three protections.

Theorems: **done** for 1 to 5 (section 7): every invariant that a passing run checks is a
theorem, and so are the action properties; the liveness properties stay with TLC.

## 3. Modules and code

Conventions. A module's variables are the tables it is about; `sess`, `thread`, `office`,
`reviewer` ... is where each request is in its handler; *history* variables (marks, or so
described) only record. A handler is as many actions as it has separately committed or
unlocked steps: a read outside a lock is one action, the transaction that follows
another; a transaction whose statements cannot be seen apart is one action. A failure is
a branch of the action in which the code fails. Ids, names and texts are model values.
Names such as `AcquireAlways` beside `Acquire` are versions *with a defect*, used to see
that a property notices it; nothing else refers to them.

The ledgers and what drives them:

- **PostingEngine** — `postJournalInTx` statement by statement: `ReadKey`, `Check`
  (period, dates, lines), `DrawNo` (waits for the series line, holds it to the end),
  `Insert` (unique key), `Commit`; `StartReverse` and `LockOriginal` for
  `reverseJournal`; `Rollback` and `Crash` anywhere. Amounts are net per account, in the
  journal's and in base currency.
- **NoSeries** — `Ask`, `Draw` (one number or a block, under the line lock), `Commit` or
  `Abort`; `OpenForm` and `SaveForm` are the set-up form, saved some time after it was opened.
- **CustLedger** — one customer. `CreateEntry` posts a document with its entry.
  `StartApply`, `ApplyNext` (one target, with discount and exchange difference) and
  `FinishApply` are `applyCustomerEntries`, which keeps the rows it loaded in memory.
  `FailApply` breaks the loop off (a journal is refused, or the server stops: it runs
  outside a transaction); the history `wrote` of a session says that it has settled
  something by then. `ReverseFromGL` is `reverseJournalEntry` on the journal of a
  document, which looks for no entry. *Histories*: `disturbed` is the entries written
  while another application held them, or left by one that broke off; `reversed` those
  reversed. `Straight` names the customers whose applications book the exchange
  difference and the discount the way the code assumes. `SpecUnapply` adds `unapplyCustomerEntry`, one transaction and one action.
- **Receipts** — one receipt. `BeginRequest` is the read at the start of each handler,
  the other actions its transaction. The workflow's decision is `SetReceiptStatus`; who
  may decide is Workflow's business. `approved` is the amount of the approval in force.
- **Workflow** — one document, its tasks, and requests that read a task and later
  decide or delegate it. Definitions are constants: per amount the steps, per step the
  levels, per level the members.
- **Mpesa** — payments as the payer made them (`outcome`), rows, and the receipts
  credited. Each handler is a read and its later writes; a handler can die between
  them. Posting is create-and-post (a credit) and then the mark POSTED; the open receipt
  that a refused posting leaves behind is abstracted away.
- **JobQueue** — processes, their threads (polls and Run now), entries. `due` and
  `lease` are minutes left; `Tick` is a minute. **Exclusion** is the lock it implements,
  by the mapping `holds` = the pairs of a thread and the entry it runs.
- **Outbox** — rows, and sessions that claim, send and record. Ages are abstracted to
  whether the back-off, or the ten minutes, have passed; `SlowSends` says whether a
  gateway can take longer than that.
- **FeeRun** — runs with overlapping scopes, the notes in `fee_invoice` with their
  unique key, and what really stands on each fee account. A bill is an input (lines and
  a discount) that may change between preview and posting; rounding is computed as the
  code does. A student's transaction is one action, because its last insert decides by
  the unique key whether any of it happens. `ready` stands for whatever makes a
  student's posting fail until somebody puts it right.

Documents and their registers (composed in **Registers**):

- **DocumentLife** — one document; `Read` is any handler's look at the header, `Edit`,
  `Delete`, `Submit`, `Return`, `SetStatus`, `Approve`, `Post` the write that follows, by
  key. What sets the kinds apart (which handlers look at the posted flag, whether it is
  set, re-read under the row's lock, whether the header is deleted or the status is
  final, whether approval itself applies) is a row of `AllRows`, each field read
  off that kind's handlers. `late` collects the handlers that wrote to a header changed
  since they read it.
- **Stock** — `PlanMove`, `BeginMove`, `LookAgain`, `PostMove`: the order in which a
  journal line and a sales or purchase document read the lots and take the lock differs,
  and so do their races. `CostOutbound` is the lot arithmetic of each costing method.
- **Orders** — `OrderAccepts` is which handler takes which status, `MakeOrder` a
  quotation turned into an order, `PostOrder` ship/receive and invoice with the
  quantities of `ShipNow`, `InvoiceNow`, `FinishOrder` the deletion of a completed order.
- **Review** — `AskDecision`/`SetLineDecision`, `ReadReview`/`ReadTarget`/`ExecuteReview`
  with the order that is rewritten from what was read, `AskClose`/`ClosePr`.
- **Payroll** — `RunPeriod` with the instalment it takes off (`Reduced`), `ClosePeriod`
  with the line it rolls (`Rolled`) and the next period's name, reopening and the rest of
  the statuses in `SetPeriodStatus`.
- **Imprest** — `PostPaper` (issue, surrender, claim), `Transfer`/`MarkTransferred` (two
  statements outside a transaction), `RunPayslip`, `ClosePayroll` with the settlement
  joined on code and employee.
- **FixedAsset** — `Calculate` then `DraftLine` (a draft from a book that moves on),
  `BeginLine`/`PostFa` with roll-ups written relative and disposal written absolute.
- **YearEnd** — `ReadNetChanges`/`PostClosing` (one transaction that locks nothing it
  read), `ReverseClosing`, late postings, `CreateFiscalYear`, `CloseFiscalYear`.

Services with registers of their own (composed in **MCServices**, with NoSeries, Outbox
and FeeRun):

- **Places** — beds, copies and buses as one pattern (`placeKind` says which):
  `AskTake`/`TakePlace`, `AskBack`/`GiveBack`, `AskStatus`/`SetState`, the fine.
- **BankRec** — `AskStart`/`StartRec`, lines, `AskPost`/`PostRec`; journals arrive meanwhile.
- **Leave** — applications that check the balance when created, recalls, adjustments,
  accrual, and the closing that reads a balance and closes the ledger later.
- **Students** — `AskAdmit`/`Admit`/`CloseApplication` (two transactions, and a crash
  between), `AskPlace`/`ReadEnrolment`/`WritePlace`, `SetStudentStatus`,
  `AskSync`/`SyncFeeCustomer`.
- **Exits** — dates saved, dues deleted and dues inserted are three statements
  (`SaveDates`, `ReadDates`, `InsertDues`); `ClearSection` and `CommitSection` or
  `CommitExit` are one transaction seen by another between its look and its commit.
- **Reminders** — reminders and finance charge memos (`kind`). `ReadOverdue`,
  `InsertReminder`, `InsertLine` one by one; `IssueReminder` with the journal that its key makes single and the ledger entry that
  nothing does.

How the school is organised (composed in **Organisation**):

- **Establishment** — positions and people. `Check` is a handler's look, with what each
  asks for in `JobAccepts` and `PersonAccepts`; `WriteJob` and `WritePerson` are the
  UPDATE by id that follows. `LeadsTo` is the walk up the reporting line.
- **StaffPay** — one employee. `SaveCard`/`Confer` are the statements of
  `updateEmployee`, `ProcessEdit` the transaction that applies an edit request,
  `ApproveContractChange` the new contract, `SaveScale`/`ReachCards`/`ReachContracts` a
  notch that changes. *History* `decided` is the pay decided last.
- **SchoolCalendar** — `SaveYear` (a transaction that rewrites a year's terms),
  `SetCurrent`, `DeleteYear`; `Refer` is whatever starts to use a year or a term.
- **Timetable** — `Ask` with what each handler asks for in `PlanAccepts`, then
  `WriteLesson` or `WriteTeacher`; `AskCopy`/`CopyNext` copy a term lesson by lesson;
  `DropLessons`/`DropClass` are two statements.
- **ReportCards** — one student. `ReadScale`/`EnterMark` label a mark by a scale read
  before; `ReadReport`/`PublishClass` write back remarks read before; `PublishedOnce` is
  the COALESCE of the upsert.

**MCMoneyIn** joins CustLedger, Receipts and Mpesa; **MCUnattended** joins JobQueue,
Outbox and FeeRun under fairness.

## 4. Runs

`tlc -config <cfg> <module>`; `PROJECT.json` lists every run with its properties. All
bounds are CONSTANTS.

| Run | Bounds, and why they suffice | Shows |
| --- | --- | --- |
| posting_engine | 2 sessions, one key, 3 journal ids, two banks of different currency; a shilling journal on both, a dollar receipt, defective line lists | replays, reversals, failures and commits interleave in pairs (three ids allow an original, its reversal and one more): keys, numbers, answers, back-links, balances and the bank ledger; every request ends |
| money_in | *Ledger*, six customers. One clerk, 4 entries out of nine kinds of document: shillings with discounts, dollars at two rates. Two clerks crossing, 3 entries, both from payments or both from invoices. Applications broken off and journals reversed, 3 entries, one reversal in shillings and two in dollars. *Receipt*: 2 requests, amounts below, at and above the limit, 2 edits. *M-Pesa*: 2 handlers, a paybill payment and a push, 2 students, 2 rows, one death | balance, detail rows and remaining amounts agree after all orders of invoices, payments, discounts in and out of time and exchange differences; whatever crosses or breaks off, no entry is overdrawn; the card and the account differ by what was reversed. The ledger, the posted copy and the approval of a receipt agree unless two requests collided. What is credited was paid; a payment nobody else was handling is credited once, to whom its row shows |
| cust_unapply | one clerk, 2 entries, one unapply | a disagreement of section 5 |
| workflow_life | requester alone at a step and at a level, shared with one, or absent; an administrator, a substitute; 2 requests, 2 submissions, edits, recalls | nothing stranded, order of steps, who decided, approval in full |
| workflow_journal_twice | one level of two approvers, 2 requests | a disagreement of section 5 |
| unattended | *Jobs*: 2 processes that poll, 2 entries, lease 1, jobs of up to a minute, two changes by hand, one death. *Messages*: 2, 2 sessions, 2 attempts, one death. *Fees*: 2 students, 2 overlapping runs (in three instalments and whole), no run deleted, one death | one run at a time, the lock refined, a ready entry runs again and again; no message is forgotten; everybody is billed |
| services | 2 requests at each part. Numbers: last year's line, which ends, and this year's, single numbers and blocks of two, 3 numbers. Messages: 2, 2 attempts, one act of a person, one death. Fees: 2 students, 2 overlapping runs, two bills, one change, one death. Places: 2 things of each kind, 2 holders, limit 1, 3 holdings. Statements: 2 entries, 2 reconciliations. Leave: 3 calendars, 2 applications, 2 recalls, 2 grants. Students: 2 pupils, classes with one place, with two and of the next year. Exits: 2 requests, 2 sections, notice that costs nothing, one or two, one payroll period. Reminders: 2 entries, 3 levels, 2 of them to be used, 2 documents | each part's promise (section 1) |
| registers | 2 requests at each part. Documents: every kind, 2 contents, 2 applications. Stock: nothing or two lots of different cost, all five methods, 3 units moved. Orders: a quotation, two orders, 4 postings. Review: 2 lines, an order to append to and a new one. Payroll: a loan of 3 in instalments of 2, names that follow on or collide. Imprests: 2 documents, refunds and recoveries. Assets: cost 6 and salvage 1 over a life of two days, three methods, 2 drafts. Years: 2 years, 2 accounts by 2 dimension values, 3 closings | each part's promise (section 1) |
| payroll_again | as registers | a disagreement of section 5 |
| organisation | 2 requests at each part. Positions: 2 positions of no post or one, 2 people. Pay: 2 notches, 2 amounts, one employee. Calendar: a year of 2 terms and one of 1. Timetable: 2 classes, 2 teachers, 2 terms, 2 lessons, whose hours may lie within each other. Report cards: one exam, 2 scores, 2 scales, 2 remarks | each part's promise (section 1) |
| pay_card, current_term | as organisation | two disagreements of section 5 |

Two actors and two of what they compete for are the smallest instance in which each
race of these handlers exists: every check-then-write has one reader and one writer.
Where a third matters (a queue behind a lock holder, an original, its reversal and a
bystander; a level above two) there are three.

**One run for many parts.** The parts of `MCMoneyIn`, of `MCServices`, of `Registers`,
of `Organisation` and of `MCUnattended` share no variable. `part` (`moneyPart`, `division`,
`goesOn`) picks one at the start; the others stay at one of their
initial states, fixed so that they add nothing (`ServicesInit`, `RegistersInit`, ...). So the
run is the disjoint union of the parts' own state graphs, and an invariant of a part is
checked exactly as in a run of its own. In `MCUnattended` each fairness condition is on the
part's own actions conjoined with the choice of the part: a resting part has nothing to
be fair to.

**Properties that end in "unless".** Several promises of the code are broken by known
interleavings (section 5). So that everything else about them is still checked, with all
interleavings present, the property names the one way out, and a *history variable*
records only that: `overwritten` in NoSeries (a form was saved over later draws), `raced`
in Receipts (two posts overlapped; a change overlapped another request), `shared` in
Mpesa (two handlers were on one payment, or one died), `resent` in Outbox (a person put
back a message that was being sent), in FeeRun the run of each bill, which may have been
deleted, `late` in DocumentLife, `overtaken` in Orders, and the marks of the other
registers: each mark is set by the step that wrote to something changed since its
request looked, or by the sequence its comment names, and never otherwise. No action
reads a history variable. Each such property fails for every other cause, as its mutant
shows. The constraints `Undisturbed` of MCServices and MCRegisters and `Orderly` of
MCOrganisation stop where a mark has
been set of which a module promises nothing, or little, afterwards; a state with a mark
is still generated and checked, but not gone on from.

Where a property is a conjunction, its parts have names of their own: `NumbersSound`
(with `NeverTwiceUnlessOverwritten`, `NoGaps`, `DatesInOrder`), `OutboxSound` (with
`OneSenderUnlessPutBack`, `SentMeansSent`), `FeesSound`, `StockAgrees` (with
`ValueWithinRounding`), `EntriesSound` (with `DetailExplainsRemaining`,
`ApplicationConserves`), `Imprests`, `AssetSound`, `PurchasingSound` (`OrderedOnce` and
`ReviewSound`), `AcademicsSound` (`TimetableSound`, `CalendarSound` and `CardsSound`).

Some passing runs are narrower than their module. `money_in` applies dollar documents
from the payment's side only, and its crossing clerks start from the same side (from
opposite sides each adds to what the other has settled, without bound); `unattended`
assumes that no job takes longer than the lease; in `services` and `unattended` no
gateway takes longer than ten minutes. Read them as "correct but for
that", and section 5 as the reason.

Deadlock is checked except where the system may really stop: a ledger with every
document settled, a receipt posted or deleted (MoneyIn, CustUnapply), a document decided
for good (Workflow), documents applied, runs posted and registers at their bounds
(Services, Registers, Organisation, Unattended).

Symmetry is used only in runs without liveness, over requests, documents, contents and
things, which no definition tells apart. In MCRegisters the two income statement accounts
of YearEnd are the two model values that are documents elsewhere, so that one symmetry
set serves both: the parts never meet. MCOrganisation does the same with positions,
notches, classes and remarks, and takes the products of its permutations.

## 5. Where the code and its promises part

Five disagreements are runs (`findings` in `PROJECT.json` quotes statement and line):

- `cust_unapply`: `unapplyCustomerEntry` strikes the application and also adds its
  opposite, so what was applied is given back twice.
- `workflow_journal_twice`: two approvers of one level both finalise a manual journal.
- `payroll_again`: running a period again takes the instalment off the loan again, while
  the payslip shows it once (`lib/payroll.ts` calls a run "re-runnable").
- `pay_card`: an approved contract change is not written onto the salary card, although
  "a change to one is written onto the other" (`employees.ts:250`). An edit request copies
  the card, so applying one later takes the approved raise away again (`PaySound` without
  its exception for "undone"); a renewal that names no salary sets it to nothing.
- `current_term`: a year that is not the current one keeps a current term, against "only
  inside the current year" (`academics/setup.ts:110`).

The others are for whoever changes that code: each appears when the named property is put
into the named configuration in place of its own.

| Configuration | Violates | How |
| --- | --- | --- |
| MoneyIn, Customers <- UsdOnly | BalanceTiesToControl | from the invoice's side gain and loss change places |
| MoneyIn, Customers <- UsdDiscounts | BalanceTiesToControl | the discount's journal is in base currency whatever the entry's currency |
| Unattended, Lease = 2, Interval = 2 | UnattendedWhenDue | the list of due entries is worked through although entries changed |
| Workflow, Steps <- MCSteps, Grouped <- MCGrouped, Substitute <- ToRequester | SharedLevelDecidedByOther | a task is delegated to the requester |
| Workflow, Steps <- MCSteps, Grouped <- MCGrouped, Substitute <- MCSubstitute | DelegatorStaysOut | a second delegation forgets the first delegator |
| PostingEngine, SPECIFICATION Spec | NoPostingIntoClosedPeriod | the period is closed while the journal waits for its number |
| the same with Postings <- AllPostings | BankEntryInOwnCurrency | the currency test is skipped for base-currency journals |
| MoneyIn, without `disturbed = {}` in it | BalanceTiesToControl | two applications read the same entries without a lock; a refusal in the loop leaves the entries before it applied |
| MoneyIn | SubledgerMatchesJournal | two requests post one receipt |
| MoneyIn | BigReceiptsApproved | an edit checked before the approval is written after it |
| MoneyIn | CreditedOnce | callback and status query both post; a death between posting and marking |
| MoneyIn | SuccessIsKept | a push settled as failed before its success callback |
| MoneyIn | ReceiptFilledIn | a push settled by the query never gets its receipt number |
| Workflow | ApprovedByMatchingWorkflow | the task of a recalled submission approves the edited document |
| Unattended, MaxRun = 2 | OneRunAtATime | a job that outlives its lease |
| Services | NeverTwice | a form opened before a draw puts Last No. Used back |
| Services, SlowSends = TRUE | OneSender | a slow gateway |
| Services | CancelledStays | a message cancelled while being sent |
| Services | PostedStays, TotalIsInvoiced | the slower of two postings reopens a Posted run; a second posting forgets the total of the first |
| Services | Clearable | two due lines of a kind are approved; the payroll refuses the second for ever |
| Registers | InterimClears | goods received alone and then again with the invoice |
| Registers | ControlMirrorsLedger | two recoveries of one code settle crosswise |

Also read on the way, without a model of its own or within the "unless" of one:

- `issueReminder` overtaken by another posts one journal (its key) and two customer
  ledger entries; two drafts of one level can both be issued; the comment at
  `reminders.ts:109` says the level is "capped", but a customer at the maximum is skipped,
  and a maximum above the highest level repeats that level without end.
- Gratuity lines of an exit carry another description than the one the recalculation
  deletes, so each recalculation adds one (`employeeExits.ts:99` and `:136`).
- An execution of a review that leaves lines sets `pr_closed` to false, also on a
  requisition closed by hand since it was read (`requisitions.ts:565`).
- A person entered on a free post counts only once approved, and approval asks for no
  post: two can be entered on one and both approved (`employees.ts:495`; the mark "hired").
- Deleting a year asks for classes and enrolments, not for the fee structures and marks
  of its terms (`academics/setup.ts:161`; the mark "swept").
- Publishing a class's report cards writes back the remarks it read, over any saved since
  (`academics/assessments.ts:201`; the mark "behind").
- A leaver set back to active has no enrolment and may overfill the class
  (`students.ts:306`).

## 6. Fairness

Liveness is checked only under what the code's environment gives:

- posting_engine (`FairSpec`): a statement sent to PostgreSQL is run, and a row lock is
  granted to its waiters in the order they queued (strong fairness of taking the lock;
  weak of the rest). Nothing makes a caller call.
- unattended (`UnattendedSpec`). `JobsGoOn`: the timer of `instrumentation.ts` fires for ever (strong
  fairness of a poll: it may fall in a moment in which its process is busy or gone, but
  not always), minutes pass, a poll that has begun goes on; deaths are bounded. `MessagesGoOn`: the dispatch job recurs, a delivery under
  way goes on, back-offs run out. `RunsGoOn`: accounts are put right, a posting under way
  goes on, and an Open run that still has somebody to bill is posted again (strong
  fairness, as two runs compete for the clerks): the code's own comment makes this the
  user's part. Bills do not change.

## 7. Proofs

`PostingEngineProofs` (assumptions: only those stated of the constants)

- `TypeCorrect`, `JournalsDistinctAlways` (from `KeyPostedOnceAlways` and
  `NumberUniqueAlways`), `ReplayAnswersOriginalAlways`, `ReversalPairsAlways`,
  `BankAgreesWithGLAlways`, `JournalImmutableAlways`: for any sessions, keys, accounts,
  banks, postings.
- None of these is inductive. `IInv` adds what the running transactions know: an id in a
  session's hands is drawn and used by nobody else; a session past `DrawNo` holds the
  series lock, so its number is above every committed one; between `Insert` and `Commit`
  the key is still free, and a reversal's original, locked since `LockOriginal`, is
  still not reversed. Each action is shown to keep it; `Commit` does the real work.
- `BalancesExplainedAlways`: the cached balance of every account is the sum of its
  journal lines. `CommitSums` is the step: one journal more moves the stored balance and
  the sum by the same lines; `IInv` is needed to know that no line of it was there before.
- The type invariants of the three modules are proved and not runs' properties of their own.

`SumTheorems` (no assumptions) is what every proof about money rests on. The sums of the
models are folds over finite sets, which choose an element at each step. `SumIsFold`
shows by well-founded induction over inclusion that the fold is a function of subsets,
`SumWithout` that any element may be the one taken first. The rest follows: one term
more or one changed, disjoint unions, two sums added, a table summed by rows or by
columns (`SumsExchange`) or by pairs (`SumOfPairs`), a part outside of which all is zero,
a bound on each term as a bound on the sum, any other order of adding up (`AnyOrder`).
The same induction gives the greatest and the least element of a finite set of numbers.

`RegistersProofs`: the registers, each with an invariant of its own (assumptions:
`RowsAssumption`, that every kind of document has one of the three protections, a flag
that reopening and posting look at and posting sets, a header that posting deletes, or a
status nothing leads out of; `PrLinesAssumption`, that a requisition under review has
lines; and what the handlers refuse before anything is written: `StockAssumption`,
quantities above zero (`itemJournal.ts:177`); `AssetAssumption`, amounts above zero
(`faJournal.ts:173-175`), a salvage value not below zero (`fixedAssets.ts:193`) and no
posting dated before the depreciation starts; `LoanAssumption`, a loan of something, in
cents; `ImprestAssumption`, amounts above zero (`imprest.ts:279`, `imprest.ts:447`,
`staffClaims.ts:94`); `YearAssumption`, that an entry without a dimension value has one
of its own, "none", and that there is a first year)

- `TypeCorrect`, `AppliedOnceAlways`, `AppliedAsApprovedAlways`: for every such table of
  kinds, any number of requests and any contents. The fifteen kinds of this
  system are such a table: TLC evaluates the assumption on `AllRows` in the registers run.
- The invariant `DocInv` says what a request that has read still knows (`HeldAccepted`:
  its operation was accepted on the header it saw), and where each protection leaves an
  applied document (`FlagStays`, `FlagProtects`, `DeletionProtects`, `StatusProtects`);
  `ApprovedContent` ties the contents to what was let through. Without `HeldAccepted` a
  write could follow a read that was never taken.
- `PurchasingSoundAlways`: of orders, `OneInHand` says that only the last document is
  worked on and what its line shows is what was posted of it, and `ReadAccepted` what a
  request accepted on the document it read; of the review, `LineStands` that a processed
  line names an order there is, on which it stands once (`PlacesAdd`, `PlacesOfSet` count
  places in the sequences an execution writes).

- `StockAgreesAlways`: `StockInv` says of every planned move what it takes of which lot and
  for what (`MoveSound`), and of one that nothing overtook that the stock is still what it
  looked at (`MoveFresh`). Without the first the lots a posting writes could be any;
  without the second nothing follows for the roll-up. The value is carried as a distance:
  `Near` says that the inventory account and the lots are at most half a unit apart for
  each unit moved, and every costing method but Average and Standard is shown to add to
  the distance no more than its own quantity. The issue from approved quantities and the lots
  below zero are separate conjuncts because different marks release them.
- `AssetSoundAlways`: `BookAgrees` ties the roll-ups, the FA ledger and the two accounts;
  `LineOk` and `DeskOk` say what each drafted line and each posting request stands for:
  what was due on the book it names, or a book it found not disposed of. `OnTheLine` bounds the
  distance from the straight line by half a unit for each line posted so far, which is
  why the lines are counted in it: a bound that does not grow with them is not inductive. Nothing
  is assumed of Salvage against Cost (the form does not compare them): the theorem says
  that the value stays above Salvage or nothing was ever depreciated.
- `PayrollHoldsAlways`: to the property `PayInv` adds what a run relies on, that a payslip
  never run deducts nothing, that the line it may reduce is the last there is, and that a
  line not stopped still owes something; then deductions and the last line add up to the
  loan through every run, closing and reopening.
- `ImprestsAlways`: `ImpInv` follows a document nothing disturbed: not posted it has no
  balance and no line, outstanding it has the advance, settled its balance is what its
  lines on the payroll will take (`DueIn`, a sum over the lines). Two states have to be let
  through: a transfer between its line and its mark, and two requests that transfer one
  document, of which the second finds it changed. An idempotency key that was used shows
  in the flags of its document, so that a journal can only be withheld from a request
  that sees a changed document. Of a payslip it is enough that it is a
  beginning of the lines: each amount then settles the document of its own line.
- `YearEndSoundAlways`: every closing, posted or at work, is what it read less the closings
  then standing (`Exact`), cell by cell if by dimension and account by account if not.
  While no closing missed another the last one of a year saw all that stand
  (`NothingMissed`); a request at work sees by their number that one was posted since
  (`Ready`). What should be left of an account and what is left then differ by exactly
  what the last closing computed and took, which is nothing (`AfterTheLast`). That no
  account falls below zero follows from the same lemma, and has to be known of every closing
  at work as well (`NoneBelow`). Retained earnings are, per year, what its standing
  closings took, a sum exchanged three times between years, accounts and dimension values
  (`SentInAll`, `GivenInAll`, `AllAccountedFor`).

`JobQueueProofs` (assumption `MaxRun <= Lease`: no job outlives its lease; section 5 shows
it cannot be dropped)

- `TypeCorrect`, `LeaseExcludes`, `LeaseCovers` (the last two as invariants of the
  specification) and `QueueIsLock`: every step of the queue is a step of `Exclusion` or
  leaves it unchanged.
- `LeaseInv` has the clock in it: while a thread works, the minutes its run has taken and
  the minutes left of its lease add up to the lease it took. So a lease can only lapse
  after the longest run, and the UPDATE that takes a lapsed lease finds nobody at work.

`MoneyInProofs` (assumptions: only those stated of the constants)

- `EntriesSoundAlways`: for any customer, clerks, rates and length of history, all of
  EntriesSound. `BalanceTiesToControlAlways`: the balance on the card is the receivables
  account but for what was reversed, of every `Straight` customer; all six of the run
  are, and `UsdOnly` and `UsdDiscounts` of section 5 are the two ways not to be.
- `CustInv` says of a session what its loop holds in memory; of every entry what holds
  even when two applications crossed on it; of an undisturbed one that memory, table and
  rows agree; and of the books (`BooksSound`) that the sum of the rows, of the open
  entries and of the account move together. `wrote` is needed where a loop has settled
  targets and not yet itself. `PassBooks` is one pass of the loop: the amounts of two
  entries, two rows, a discount and an exchange difference, all at once.
- `PostedOnceUnlessTwoPostsAlways`, `BigReceiptsApprovedUnlessChangedAlways`: for any
  tellers and amounts. `PostsAlone` and `ChangesAlone` say what holds as long as no two
  requests collided: who posts has read an amount the header still has and that is still
  approved.
- `PaidIffCreditedAlways`, `RightUnlessDisturbedAlways`: for any payments, handlers and
  students. `Undisturbed` is what holds of a payment only one handler was ever on: one
  row, no credit while a handler may still write (`FirstClaims`), and a credit that its
  row shows or its handler is about to (`ShownOrMarking`).

`OrganisationProofs` (assumptions: those stated of the constants, and the hypothesis
`NeverToRequester` of `DecidedProperlyAlways`)

- `EstablishmentSoundAlways`: `LeadsTo` follows a reporting line for as many steps as there
  are positions. What is inductive is `NoLoop`, which speaks of sets: of any set of
  positions one reports outside of it. It survives the change of one line, and
  `LineExists` to `EstIsSound` go from sets to lines, with the least number of steps after
  which a line would return.
- `PaySoundAlways`: `Agrees` is the property at rest; `Underway` what of it holds between
  two steps of a request that nobody crossed. Without it nothing could be said of a
  notch whose pay has reached the card and not yet the contract.
- `AcademicsSoundAlways`: `CalendarInv` says what a request that has looked still knows
  when it writes (`Knows`) unless another wrote since, and that a term on file is one of
  a year on file, whatever the marks; `TimetableInv` and `CardsInv` are inductive almost
  as they stand.
- `TasksSoundAlways`: `WorkflowInv` gives a session that has read a task what it may still
  count on: the row is there and its step, amount and submission have not changed
  (`SameStep`), even when another session has decided it meanwhile. `DocumentKept` says
  of a pending document that no task of its submission was rejected and one is pending.
  `CreatedIs` is what createTaskForStep leaves, skipped steps included. That somebody may
  decide a task (`SomebodyMay`) rests on a group level having members, which
  `ConstantsAssumption` states: the levels are the sequences the members have.
- `DecidedProperlyAlways`: both halves are action properties. `OtherThanRequester` is where
  `NeverToRequester` is needed, that no user's tasks are handed to the requester; with
  `ToRequester` of section 5 the statement is false. `ApprovedOnlyInFull` follows the
  approval of a document back through every step of its workflow.

`ServicesProofs`: the nine parts of the services run, each with an invariant of its own
(assumptions: those stated of the constants, and in `OutboxSoundAlways` that no gateway
takes longer than ten minutes, which section 5 shows cannot be dropped)

- `NumbersSoundAlways`: the numbers of a line are its first n for some n (`SeriesOf`), and
  what is on file or on a form is one of them; a line no stale form put back is ahead of
  them all (`Ahead`).
- `OutboxSoundAlways`: `Accounted` bounds the attempts by the deaths of senders and gives
  a message that is being sent one sender, who has read the attempts on file.
- `HeldOnceAlways`: `AskedSound` is what a desk that has asked knows until it writes.
- `StatementIsReconciledAlways`: `OneOpen`; the open reconciliation's lines are entries
  nobody closed, and the last balance is the sum of those closed.
- `FeesSoundAlways`: `SeqAddsUp`, `SumOfSums` and the remainder that the last instalment
  takes give the net exactly; `BillSound` that every bill's note stands until its run is
  deleted. `PostedMeansBilledAlways`, an action property, needs `CountsRight`: the two
  counters of a request are the sizes of sets of students nobody has to name.
- `LeaveHoldsAlways`: `LeaveKept` says that taken plus left is at most granted, that a
  closing under way has read the balance that is there, and that at most one application
  waits, which the balance covers; `RecallsFit` counts the recalls that are not deleted.
- `StudentsSoundAlways`: `OfficesSound` says which enrolment a request has in hand;
  `FileFollows` that a student whose application is not yet ADMITTED has a request that
  is about to write it.
- `ExitsSoundAlways`: `CalculationSound` is one exit between DELETE and INSERT of its
  dues; `ClearingSound` that a clearance that saw the last section finds the others
  cleared when it commits; then the dues are one unbroken block of the payroll's lines.
- `RemindersSoundAlways`: `LevelStands` ties an entry's level to the highest issued
  reminder that lists it; `OneBelow` that a level, drafted or in a collector's hands, has
  an issued one below it; `Alike` that no two drafts of a level are about one entry.

None of these theorems assumes its marks away: a part of the property whose mark is set
promises nothing of what follows, as in the runs, and the theorem covers also those
behaviours, which the runs' constraints cut off.

Bounds that keep TLC's graph finite (`MaxLots`, `MaxPosted`, `MaxClosings`, `MaxLines` ...)
are guards of the model, and no theorem assumes them of any size. Three are what a
statement is about and not bounds: `MaxYears`, over which years are summed, the limit
`MaxOutstanding` and the quantity `QtyApproved`.

Only model-checked: liveness (`EveryRequestEnds`, `ReadyRuns`, `NothingForgotten`,
`EverybodyBilled`), which needs fairness and ENABLED and is beyond the prover, as is what
a recursive operator computes for every input; and the runs of section 5, which are
counterexamples and need no proof.

## 8. What is not modelled

- Permissions and sign-in: every model takes its callers as permitted to call.
- Which company a request runs in: a model is about one company. Changing a set-up under
  a running process (workflow definitions, group members, account types, the current
  leave calendar) is left out except for number lines, notches and grading scales.
- The lock order between services: PostingEngine has the locks of one journal. A register
  and the journal it posts meet only in the amount; so a reversal of that journal from
  the G/L is seen by CustLedger (`ReverseFromGL`) but by no other register.
- The vendor ledger, which mirrors the customer ledger function by function.
- Arithmetic of one document: taxes, statutories and formulas of a payslip, VAT and
  withholding, leave entitlements, date formulas, exchange rates.
- Formatting, searching, reports, mails' contents, audit and change logs, attachments.
- Components left out are in `PROJECT.json` as not_modelled with the reason; `hazards`
  there lists also those dangers no property covers yet, each with the reason.
