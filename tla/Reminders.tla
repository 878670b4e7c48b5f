----------------------------- MODULE Reminders ------------------------------
(* Reminders and finance charge memos of one customer: drafted from the     *)
(* overdue entries, one level above the highest reminded of before, and     *)
(* issued, which charges a fee by a journal and a customer ledger entry and *)
(* stamps the entries with the level.  Drafting reads, inserts the document *)
(* and then its lines, each in a statement of its own; issuing is one       *)
(* transaction that reads the document's status first; a deletion checks it *)
(* before.  A journal is posted once per document (PostingEngine's key).    *)
(*                                                                          *)
(* Not here: dates (an open entry is overdue), what interest amounts to,    *)
(* minimum amounts, customers without terms.                                *)
EXTENDS Naturals, Sequences, FiniteSets, FiniteSetsExt

CONSTANTS
    OpenEntries,      \* ledger entries of the customer besides the charges
    Collectors,    \* requests under way
    Levels,        \* levels of the reminder terms, 1 .. Levels
    MaxReminders,  \* Max. No. of Reminders
    MaxDocuments   \* bound

ASSUME ReminderAssumption == Levels \in Nat \ {0} /\ MaxReminders \in Nat

VARIABLES
    levelOf,      \* reminder level of each overdue entry
    dunning,      \* of each entry: "undue", "overdue", "paid"
    reminders,    \* kind, level, entries it is about, entries its lines name, status
    feeJournals,  \* documents with a journal
    feeEntries,   \* customer ledger entries: the document each charges for
    collector,    \* what each request has read
    reminderMarks \* "twice", "deleted", "partial", "draft": see the steps

remVars == <<levelOf, dunning, reminders, feeJournals, feeEntries, collector, reminderMarks>>

LowerOf(a, b) == IF a < b THEN a ELSE b
Reachable == 0 .. LowerOf(Levels, MaxReminders)  \* levels
Kinds == {"Reminder", "Memo"}  \* Memo: Finance Charge Memo
ReminderType ==
    [kind : Kinds, level : Reachable, about : SUBSET OpenEntries, entries : SUBSET OpenEntries,
     status : {"Open", "Issued", "Dropped", "Gone"}]
CollectorType ==
    [op : {"idle", "draft", "lines", "issue", "delete"}, doc : Nat, kind : Kinds,
     level : Reachable, left : SUBSET OpenEntries]
NoErrand == [op |-> "idle", doc |-> 0, kind |-> "Memo", level |-> 0, left |-> {}]

RemTypeOK ==
    /\ levelOf \in [OpenEntries -> Reachable] /\ dunning \in [OpenEntries -> {"undue", "overdue", "paid"}]
    /\ reminders \in Seq(ReminderType) /\ feeJournals \subseteq DOMAIN reminders
    /\ feeEntries \in Seq(DOMAIN reminders)
    /\ collector \in [Collectors -> CollectorType]
    /\ \A k \in Collectors :
          /\ collector[k].op \notin {"idle", "draft"} => collector[k].doc \in DOMAIN reminders
          /\ collector[k].op = "lines" => collector[k].left \subseteq reminders[collector[k].doc].about
    /\ reminderMarks \subseteq {"twice", "deleted", "partial", "draft"}

RemInit ==
    /\ levelOf = [e \in OpenEntries |-> 0] /\ dunning = [e \in OpenEntries |-> "undue"]
    /\ reminders = <<>> /\ feeJournals = {} /\ feeEntries = <<>>
    /\ collector = [k \in Collectors |-> NoErrand]
    /\ reminderMarks = {}

Holds(k, op) == collector[k].op = op
Tag(condition, name) == IF condition THEN {name} ELSE {}
Overdue == {e \in OpenEntries : dunning[e] = "overdue"}
PriorLevel == Max({0} \cup {levelOf[e] : e \in Overdue})

(* A reminder is drafted unless the highest level has reached the maximum,  *)
(* a finance charge memo whenever something is overdue: it is read ...      *)
ReadOverdue(k, kind) ==
    /\ Holds(k, "idle") /\ Overdue # {}
    /\ kind = "Reminder" => PriorLevel < MaxReminders
    /\ collector' = [collector EXCEPT ![k] =
         [NoErrand EXCEPT !.op = "draft", !.kind = kind, !.left = Overdue,
                          !.level = IF kind = "Reminder" THEN LowerOf(PriorLevel + 1, Levels) ELSE 0]]
    /\ UNCHANGED <<levelOf, dunning, reminders, feeJournals, feeEntries, reminderMarks>>

(* ... the document is inserted ("draft": beside another of the same level  *)
(* about the same entry, drafted before or issued since: nothing prevents   *)
(* it) ...                                                                  *)
InsertReminder(k) ==
    /\ Holds(k, "draft") /\ Len(reminders) < MaxDocuments
    /\ LET draft == collector[k]
       IN  /\ reminders' = Append(reminders, [kind |-> draft.kind, level |-> draft.level, about |-> draft.left,
                                              entries |-> {}, status |-> "Open"])
           /\ reminderMarks' = reminderMarks \cup
                Tag(\E i \in DOMAIN reminders :
                       /\ reminders[i].kind = "Reminder" /\ draft.kind = "Reminder"
                       /\ reminders[i].level = draft.level /\ reminders[i].status # "Dropped"
                       /\ reminders[i].about \cap draft.left # {}, "draft")
           /\ collector' = [collector EXCEPT ![k] =
                [NoErrand EXCEPT !.op = "lines", !.doc = Len(reminders) + 1, !.left = draft.left]]
    /\ UNCHANGED <<levelOf, dunning, feeJournals, feeEntries>>

(* ... and its lines, one after the other (a document deleted since takes   *)
(* none; "partial": it was issued before they were all there).              *)
InsertLine(k) ==
    /\ Holds(k, "lines")
    /\ LET i == collector[k].doc
           left == collector[k].left
       IN  \/ /\ reminders[i].status \in {"Open", "Issued"}
              /\ \E e \in left :
                    /\ reminders' = [reminders EXCEPT ![i].entries = @ \cup {e}]
                    /\ collector' = [collector EXCEPT ![k] =
                         IF left = {e} THEN NoErrand ELSE [NoErrand EXCEPT !.op = "lines", !.doc = i, !.left = left \ {e}]]
              /\ reminderMarks' = reminderMarks \cup Tag(reminders[i].status = "Issued", "partial")
           \/ /\ reminders[i].status \in {"Dropped", "Gone"}
              /\ collector' = [collector EXCEPT ![k] = NoErrand]
              /\ UNCHANGED <<reminders, reminderMarks>>
    /\ UNCHANGED <<levelOf, dunning, feeJournals, feeEntries>>

(* The process dies, perhaps between the lines; or, of two issues at once,  *)
(* the second is refused its journal's key, and rolled back.                *)
CollectorCrash(k) ==
    /\ ~Holds(k, "idle")
    /\ collector' = [collector EXCEPT ![k] = NoErrand]
    /\ reminderMarks' = reminderMarks \cup Tag(Holds(k, "lines"), "partial")
    /\ UNCHANGED <<levelOf, dunning, reminders, feeJournals, feeEntries>>

AskReminder(k, i, op) ==
    /\ Holds(k, "idle") /\ reminders[i].status = "Open"
    /\ collector' = [collector EXCEPT ![k] = [NoErrand EXCEPT !.op = op, !.doc = i]]
    /\ UNCHANGED <<levelOf, dunning, reminders, feeJournals, feeEntries, reminderMarks>>

(* The level of an entry once a reminder of level n lists it (first with a  *)
(* defect: a reminder of an earlier level takes it back).                   *)
LevelWritten(before, n) == n
LevelRaised(before, n) == IF before < n THEN n ELSE before

(* Issuing: the journal, unless there is one, the ledger entry, the levels  *)
(* ("twice": it is issued already; "deleted": it is gone, and the stamp on  *)
(* it finds no row).                                                        *)
IssueReminder(k) ==
    /\ Holds(k, "issue")
    /\ LET i == collector[k].doc
           gone == reminders[i].status \in {"Dropped", "Gone"}
       IN  /\ feeJournals' = feeJournals \cup {i}
           /\ feeEntries' = Append(feeEntries, i)
           /\ levelOf' = [e \in OpenEntries |->
                IF ~gone /\ e \in reminders[i].entries THEN LevelRaised(levelOf[e], reminders[i].level) ELSE levelOf[e]]
           /\ reminders' = IF gone THEN reminders ELSE [reminders EXCEPT ![i].status = "Issued"]
           /\ reminderMarks' = reminderMarks \cup Tag(reminders[i].status = "Issued", "twice") \cup Tag(gone, "deleted")
                \cup Tag(\E other \in Collectors : Holds(other, "lines") /\ collector[other].doc = i, "partial")
    /\ collector' = [collector EXCEPT ![k] = NoErrand]
    /\ UNCHANGED dunning

(* Deleting, whatever the status is by now ("deleted": it was issued).      *)
DeleteReminder(k) ==
    /\ Holds(k, "delete")
    /\ LET i == collector[k].doc
       IN  /\ reminders' = [reminders EXCEPT ![i].status = IF @ \in {"Issued", "Gone"} THEN "Gone" ELSE "Dropped"]
           /\ reminderMarks' = reminderMarks \cup Tag(reminders[i].status \in {"Issued", "Gone"}, "deleted")
    /\ collector' = [collector EXCEPT ![k] = NoErrand]
    /\ UNCHANGED <<levelOf, dunning, feeJournals, feeEntries>>

(* An entry falls due, or is paid (CustLedger).                             *)
MoveEntry(e) ==
    /\ dunning[e] # "paid"
    /\ dunning' = [dunning EXCEPT ![e] = IF @ = "undue" THEN "overdue" ELSE "paid"]
    /\ UNCHANGED <<levelOf, reminders, feeJournals, feeEntries, collector, reminderMarks>>

RemNext ==
    \/ \E k \in Collectors :
          \/ \E kind \in Kinds : ReadOverdue(k, kind)
          \/ InsertReminder(k) \/ InsertLine(k) \/ CollectorCrash(k)
          \/ \E i \in DOMAIN reminders, op \in {"issue", "delete"} : AskReminder(k, i, op)
          \/ IssueReminder(k) \/ DeleteReminder(k)
    \/ \E e \in OpenEntries : MoveEntry(e)

RemSpec == RemInit /\ [][RemNext]_remVars

----------------------------------------------------------------------------
Untagged(names) == names \cap reminderMarks = {}
IssuedOnes == {i \in DOMAIN reminders : reminders[i].status = "Issued"}
Listing(e) == {i \in IssuedOnes : e \in reminders[i].entries}

(* Through drafts, payments, issues and deletions: each issued document is  *)
(* charged for once, in the general and in the customer ledger, and nothing *)
(* else is; an entry's level is the highest of the issued reminders that    *)
(* list it; a reminder of a level is issued once an earlier one of the      *)
(* level below was; an entry is reminded of once at a level, and at none    *)
(* above the maximum.  Unless two requests met on a document, its lines     *)
(* were cut off, or it was drafted beside another of its level.             *)
RemindersSound ==
    /\ Untagged({"deleted"}) => feeJournals = IssuedOnes
    /\ Untagged({"twice", "deleted"}) =>
          \A i \in DOMAIN reminders :
             Cardinality({n \in DOMAIN feeEntries : feeEntries[n] = i}) = IF i \in IssuedOnes THEN 1 ELSE 0
    /\ Untagged({"deleted", "partial"}) =>
          \A e \in OpenEntries : levelOf[e] = Max({0} \cup {reminders[i].level : i \in Listing(e)})
    /\ Untagged({"deleted", "partial"}) =>
          \A i \in IssuedOnes : reminders[i].level > 1 =>
             \E j \in IssuedOnes : reminders[j].level = reminders[i].level - 1
    /\ Untagged({"draft"}) =>
          \A e \in OpenEntries : \A i, j \in Listing(e) :
             reminders[i].kind = "Reminder" /\ i # j => reminders[i].level # reminders[j].level
    /\ \A i \in DOMAIN reminders : reminders[i].level <= MaxReminders
=============================================================================
