------------------------------ MODULE Workflow ------------------------------
(***************************************************************************)
(* The approval engine of lib/workflow.ts for one document: submission     *)
(* matches a workflow by amount and creates the task of its first step; a  *)
(* decision clears a group level, opens the next step or finalises the     *)
(* document; a task can be delegated, the document recalled and edited.    *)
(*                                                                         *)
(* A decision reads the task before its transaction and never locks or     *)
(* re-reads it, so reading and committing are two steps here.              *)
(***************************************************************************)
EXTENDS Naturals, FiniteSets, Sequences, FiniteSetsExt

CONSTANTS
    Users, Requester, Nobody,
    Sessions,    \* requests being served at the same time
    Amounts,     \* what the conditions of the workflows tell apart
    Steps,       \* per amount: the matched workflow, per step its levels, per level its members
    Grouped,     \* per amount, per step: assigned to a user group?
    Substitute,  \* whom a user's tasks are handed to, Nobody if the chain ends
    Admins,      \* approval administrators
    HasStatus,   \* FALSE for a manual journal, which exists only as its task's payload
    MaxSubmits   \* bound on submissions

ASSUME ConstantsAssumption ==
    /\ IsFiniteSet(Users) /\ Requester \in Users /\ Nobody \notin Users
    /\ \A a \in Amounts :
        /\ Steps[a] \in Seq(Seq(SUBSET Users)) /\ Steps[a] # <<>>
        /\ Grouped[a] \in [DOMAIN Steps[a] -> BOOLEAN]
        /\ \A k \in DOMAIN Steps[a] :
            /\ Steps[a][k] # <<>> /\ \A l \in DOMAIN Steps[a][k] : Steps[a][k][l] # {}
            /\ ~Grouped[a][k] => Len(Steps[a][k]) = 1 /\ Cardinality(Steps[a][k][1]) = 1
    /\ Substitute \in [Users -> Users \cup {Nobody}]
    /\ Admins \subseteq Users /\ HasStatus \in BOOLEAN /\ MaxSubmits \in Nat

VARIABLES
    doc,       \* the document: amount, status, and how often it was submitted
    tasks,     \* workflow_task, in order of id
    sess,      \* what each request has read
    finalised, \* per submission: how often it was approved for good
    handed     \* history: per task, who delegated it away at its current level

vars == <<doc, tasks, sess, finalised, handed>>

\* "Pending" is the status Pending Approval.
Statuses == {"Open", "Pending", "Approved"}
DocType == [amount : Amounts, status : Statuses, sub : Nat]

TaskType ==
    [amount : Amounts, sub : Nat, step : Nat, level : Nat,
     status : {"PENDING", "APPROVED", "REJECTED"},
     by : Users \cup {Nobody},     \* decided_by
     from : Users \cup {Nobody},   \* delegated_by_user_id
     to : Users \cup {Nobody}]     \* delegated_to_user_id

SessionType ==
    [pc : {"idle", "decide", "delegate"}, id : Nat, task : TaskType,
     user : Users \cup {Nobody}, yes : BOOLEAN]

TypeOK ==
    /\ doc \in DocType
    /\ tasks \in Seq(TaskType)
    /\ \A t \in DOMAIN tasks :
         /\ tasks[t].step \in DOMAIN Steps[tasks[t].amount]
         /\ tasks[t].level \in DOMAIN Steps[tasks[t].amount][tasks[t].step]
    /\ sess \in [Sessions -> SessionType]
    /\ finalised \in [1 .. MaxSubmits -> Nat]
    /\ handed \in [DOMAIN tasks -> SUBSET Users]

-----------------------------------------------------------------------------
Members(task) == Steps[task.amount][task.step][task.level]

\* requesterClearsLevel: the requester is the only approver of this level
RequesterAlone(members) == members = {Requester}

\* eligibleUserIds: the members of the task's current level, not the requester
\* where somebody else is there, less who delegated it and plus the delegate
\* (first with a defect: the requester counts in a shared level)
EligibleShared(task) ==
    (Members(task) \ {task.from}) \cup ({task.to} \ {Nobody})

Eligible(task) ==
    LET members == IF Cardinality(Members(task)) > 1
                   THEN Members(task) \ {Requester} ELSE Members(task)
    IN (members \ {task.from}) \cup ({task.to} \ {Nobody})

\* levels k of a step from `first` on that somebody must decide
OpenLevels(amount, k, first) ==
    {l \in first .. Len(Steps[amount][k]) : ~RequesterAlone(Steps[amount][k][l])}

\* the first step from `first` on with a level the requester does not clear alone
OpenSteps(amount, first) ==
    {k \in first .. Len(Steps[amount]) : OpenLevels(amount, k, 1) # {}}

NewTask(amount, sub, k, level, status, by) ==
    [amount |-> amount, sub |-> sub, step |-> k, level |-> level, status |-> status,
     by |-> by, from |-> Nobody, to |-> Nobody]

\* createTaskForStep from step k on: steps the requester clears alone are
\* approved as they are created, the first other one is left pending.
Created(amount, sub, first) ==
    LET last == IF OpenSteps(amount, first) = {} THEN Len(Steps[amount])
                ELSE Min(OpenSteps(amount, first))
    IN [i \in 1 .. last - first + 1 |->
          LET k == first + i - 1 IN
          IF OpenLevels(amount, k, 1) = {}
          THEN NewTask(amount, sub, k, Len(Steps[amount][k]), "APPROVED", Requester)
          ELSE NewTask(amount, sub, k, Min(OpenLevels(amount, k, 1)), "PENDING", Nobody)]

\* no step from `first` on is left for anybody: the document is finalised
AllClear(amount, first) == OpenSteps(amount, first) = {}

NoTask == NewTask(CHOOSE a \in Amounts : TRUE, 0, 0, 0, "PENDING", Nobody)
Idle == [pc |-> "idle", id |-> 0, task |-> NoTask, user |-> Nobody, yes |-> FALSE]

Init ==
    /\ doc \in [amount : Amounts, status : {"Open"}, sub : {0}]
    /\ tasks = <<>> /\ handed = <<>>
    /\ sess = [s \in Sessions |-> Idle]
    /\ finalised = [n \in 1 .. MaxSubmits |-> 0]

-----------------------------------------------------------------------------
\* The document is edited while it is open.
Edit ==
    /\ HasStatus /\ doc.status = "Open"
    /\ \E a \in Amounts \ {doc.amount} : doc' = [doc EXCEPT !.amount = a]
    /\ UNCHANGED <<tasks, sess, finalised, handed>>

\* submitReceipt and its like: pending, and the first step's task created, in one
\* transaction. A journal has no row: each submission is a new draft.
Submit ==
    /\ doc.status = "Open" /\ doc.sub < MaxSubmits
    /\ LET sub == doc.sub + 1
           new == Created(doc.amount, sub, 1)
       IN /\ tasks' = tasks \o new
          /\ handed' = handed \o [i \in DOMAIN new |-> {}]
          /\ doc' = [doc EXCEPT !.sub = sub,
                !.status = IF ~HasStatus THEN "Open"
                           ELSE IF AllClear(doc.amount, 1) THEN "Approved" ELSE "Pending"]
          /\ finalised' = [finalised EXCEPT ![sub] = IF AllClear(doc.amount, 1) THEN 1 ELSE 0]
    /\ UNCHANGED sess

\* cancelReceiptApproval: the document is open again, its task is left alone.
Recall ==
    /\ HasStatus /\ doc.status = "Pending"
    /\ doc' = [doc EXCEPT !.status = "Open"]
    /\ UNCHANGED <<tasks, sess, finalised, handed>>

\* reopenReceipt
Reopen ==
    /\ HasStatus /\ doc.status = "Approved"
    /\ doc' = [doc EXCEPT !.status = "Open"]
    /\ UNCHANGED <<tasks, sess, finalised, handed>>

\* A user opens a task: it is read and their right to act on it checked.
ReadTask(s) ==
    /\ sess[s].pc = "idle"
    /\ \E t \in DOMAIN tasks, u \in Users, yes \in BOOLEAN, pc \in {"decide", "delegate"} :
        /\ tasks[t].status = "PENDING"
        /\ u \in Eligible(tasks[t]) \/ (pc = "delegate" /\ u \in Admins)
        /\ pc = "delegate" => yes
        /\ sess' = [sess EXCEPT ![s] =
             [pc |-> pc, id |-> t, task |-> tasks[t], user |-> u, yes |-> yes]]
    /\ UNCHANGED <<doc, tasks, finalised, handed>>

\* levels above the one read: approving clears one level of the step
LevelsAbove(task) == task.level + 1 .. Len(Steps[task.amount][task.step])

\* the cascade into a level of the requester's reads the task again, and is refused
\* (the decision rolled back) when another request has decided it meanwhile
CascadeRefused(s) ==
    LET r == sess[s] IN
    /\ LevelsAbove(r.task) # {}
    /\ RequesterAlone(Steps[r.task.amount][r.task.step][r.task.level + 1])
    /\ tasks[r.id].status # "PENDING"

Refuse(s) ==
    /\ sess[s].pc = "decide" /\ sess[s].yes /\ CascadeRefused(s)
    /\ sess' = [sess EXCEPT ![s] = Idle]
    /\ UNCHANGED <<doc, tasks, finalised, handed>>

ClearLevel(s) ==
    LET r == sess[s]
        open == OpenLevels(r.task.amount, r.task.step, r.task.level + 1)
    IN
    /\ r.pc = "decide" /\ r.yes /\ ~CascadeRefused(s)
    /\ open # {}
    /\ tasks' = [tasks EXCEPT ![r.id] =
          [@ EXCEPT !.level = Min(open), !.from = Nobody, !.to = Nobody]]
    /\ handed' = [handed EXCEPT ![r.id] = {}]
    /\ sess' = [sess EXCEPT ![s] = Idle]
    /\ UNCHANGED <<doc, finalised>>

\* who is written as decided_by: the requester when the levels above were only theirs
Decider(s) ==
    IF sess[s].yes /\ LevelsAbove(sess[s].task) # {} THEN Requester ELSE sess[s].user

Decided(s, status) ==
    [tasks EXCEPT ![sess[s].id] =
        [@ EXCEPT !.status = status, !.by = Decider(s), !.level =
            IF status = "APPROVED" THEN Len(Steps[sess[s].task.amount][sess[s].task.step])
            ELSE tasks[sess[s].id].level]]

LastLevel(s) == OpenLevels(sess[s].task.amount, sess[s].task.step, sess[s].task.level + 1) = {}

\* The last level of a step with steps after it: the next step's task is created.
NextStep(s) ==
    LET r == sess[s]
        new == Created(r.task.amount, r.task.sub, r.task.step + 1)
    IN
    /\ r.pc = "decide" /\ r.yes /\ ~CascadeRefused(s) /\ LastLevel(s)
    /\ ~AllClear(r.task.amount, r.task.step + 1)
    /\ tasks' = Decided(s, "APPROVED") \o new
    /\ handed' = handed \o [i \in DOMAIN new |-> {}]
    /\ sess' = [sess EXCEPT ![s] = Idle]
    /\ UNCHANGED <<doc, finalised>>

\* finalizeDocument: the document's own approve or reject, which refuses a document
\* that is not pending and rolls the decision back; a journal is posted or dropped.
\* (first with a defect: a document type missing from finalizeDocument)
FinaliseForgotten(s) ==
    LET r == sess[s] IN
    /\ r.pc = "decide"
    /\ r.yes => ~CascadeRefused(s) /\ LastLevel(s) /\ AllClear(r.task.amount, r.task.step + 1)
    /\ tasks' = Decided(s, IF r.yes THEN "APPROVED" ELSE "REJECTED")
    /\ sess' = [sess EXCEPT ![s] = Idle]
    /\ UNCHANGED <<doc, handed, finalised>>

Finalise(s) ==
    LET r == sess[s]
        new == IF r.yes THEN Created(r.task.amount, r.task.sub, r.task.step + 1) ELSE <<>>
    IN
    /\ r.pc = "decide"
    /\ r.yes => ~CascadeRefused(s) /\ LastLevel(s) /\ AllClear(r.task.amount, r.task.step + 1)
    /\ \/ /\ HasStatus => doc.status = "Pending"
          /\ tasks' = Decided(s, IF r.yes THEN "APPROVED" ELSE "REJECTED") \o new
          /\ handed' = handed \o [i \in DOMAIN new |-> {}]
          /\ doc' = [doc EXCEPT !.status =
                IF ~HasStatus THEN @ ELSE IF r.yes THEN "Approved" ELSE "Open"]
          /\ finalised' = IF r.yes THEN [finalised EXCEPT ![r.task.sub] = @ + 1] ELSE finalised
       \/ /\ HasStatus /\ doc.status # "Pending"
          /\ UNCHANGED <<doc, tasks, finalised, handed>>
    /\ sess' = [sess EXCEPT ![s] = Idle]

\* delegateWorkflowTask: from the delegate, or the assigned user, or - on a group
\* task - whoever pressed the button, to their substitute, approver or administrator.
HolderOf(r) ==
    IF r.task.to # Nobody THEN r.task.to
    ELSE IF Grouped[r.task.amount][r.task.step] THEN r.user
    ELSE CHOOSE u \in Members(r.task) : TRUE

Delegate(s) ==
    LET r == sess[s] IN
    /\ r.pc = "delegate"
    /\ IF Substitute[HolderOf(r)] \in {Nobody, HolderOf(r)}
       THEN UNCHANGED <<tasks, handed>>
       ELSE /\ tasks' = [tasks EXCEPT ![r.id] =
                  [@ EXCEPT !.from = HolderOf(r), !.to = Substitute[HolderOf(r)]]]
            /\ handed' = [handed EXCEPT ![r.id] = @ \cup {HolderOf(r)}]
    /\ sess' = [sess EXCEPT ![s] = Idle]
    /\ UNCHANGED <<doc, finalised>>

Decide(s) == ClearLevel(s) \/ NextStep(s) \/ Finalise(s) \/ Refuse(s)

Next ==
    \/ Edit \/ Submit \/ Recall \/ Reopen
    \/ \E s \in Sessions : ReadTask(s) \/ Decide(s) \/ Delegate(s)

Spec == Init /\ [][Next]_vars

-----------------------------------------------------------------------------
\* "the task goes APPROVED while the document stays Pending Approval for ever" is
\* what finalizeDocument warns of: a pending document always has a pending task
\* that somebody may decide.
NeverStranded ==
    doc.status = "Pending" =>
        \E t \in DOMAIN tasks : tasks[t].status = "PENDING" /\ Eligible(tasks[t]) # {}

\* A step is reached only through an approval of the step before it, in the same
\* workflow and submission.
StepsInOrder ==
    \A t \in DOMAIN tasks :
        tasks[t].step > 1 =>
            \E p \in DOMAIN tasks :
                /\ p < t /\ tasks[p].sub = tasks[t].sub /\ tasks[p].amount = tasks[t].amount
                /\ tasks[p].step = tasks[t].step - 1
                /\ tasks[p].status # "PENDING"

\* The tasks are well typed, were reached in order, and leave no document stranded.
TasksSound == TypeOK /\ StepsInOrder /\ NeverStranded

\* "a genuinely different approver still has to decide it": a level the requester
\* shares with others is never decided by the requester.
SharedLevelDecidedByOther ==
    [][\A s \in Sessions :
        (Decide(s) /\ tasks' # tasks /\ sess[s].yes
            /\ Members(sess[s].task) # {Requester}) => sess[s].user # Requester]_vars

\* A manual journal is posted once for its approval.
JournalPostedOnce == \A n \in DOMAIN finalised : finalised[n] <= 1

\* An approved document went through every step of the workflow its amount matches.
ApprovedByMatchingWorkflow ==
    doc.status = "Approved" =>
        \A k \in DOMAIN Steps[doc.amount] :
            \E t \in DOMAIN tasks :
                /\ tasks[t].sub = doc.sub /\ tasks[t].amount = doc.amount
                /\ tasks[t].step = k /\ tasks[t].status = "APPROVED"

\* A decision on a task of the present submission approves the document only when every
\* step of the workflow its amount matches is approved in that submission, whatever
\* tasks earlier submissions left behind.
ApprovedInFull ==
    [][doc.status # "Approved" /\ doc'.status = "Approved" =>
         \/ \E s \in Sessions : sess'[s] # sess[s] /\ sess[s].task.sub < doc.sub
         \/ \A k \in DOMAIN Steps[doc'.amount] :
              \E t \in DOMAIN tasks' :
                /\ tasks'[t].sub = doc'.sub /\ tasks'[t].amount = doc'.amount
                /\ tasks'[t].step = k /\ tasks'[t].status = "APPROVED"]_vars

\* Both promises about who decides and how much it takes.
DecidedProperly == SharedLevelDecidedByOther /\ ApprovedInFull

\* "The delegator loses eligibility on this task ... until the task is decided".
DelegatorStaysOut ==
    \A t \in DOMAIN tasks :
        tasks[t].status = "PENDING" => (handed[t] \ {tasks[t].to}) \cap Eligible(tasks[t]) = {}
=============================================================================
