---------------------------- MODULE Establishment ----------------------------
(* The positions of the school and who holds them: a position is opened,    *)
(* edited, approved, reopened, retired; an employee is entered on one, sent *)
(* for approval, and moved later by an edit of the record.  Every handler   *)
(* checks and then writes by id, and locks nothing in between; ids are      *)
(* never used again.                                                        *)
(*                                                                          *)
(* Not here: titles, grades, the lines of a position, the stages of an edit *)
(* of a record (a kind of DocumentLife), the task of an approval (Workflow).*)
EXTENDS Naturals, FiniteSets

CONSTANTS
    Jobs, NoJob,   \* company_job rows to be; none
    PostNumbers,   \* no_of_posts a form may say
    People,        \* employee rows to be
    HrDesks        \* requests under way

ASSUME EstAssumption ==
    /\ IsFiniteSet(Jobs) /\ NoJob \notin Jobs
    /\ IsFiniteSet(People) /\ PostNumbers \subseteq Nat

VARIABLES
    jobs,       \* status ("Pending": Pending Approval), reports_to_job_id, no_of_posts
    people,     \* employee.status and company_job_id
    hrDesk,     \* the request each desk has checked, and not written yet
    hrMarks     \* "late", "hired", "cut"

estVars == <<jobs, people, hrDesk, hrMarks>>

EstInit ==
    /\ jobs = [j \in Jobs |-> [status |-> "None", parent |-> NoJob, posts |-> 0]]
    /\ people = [p \in People |-> [status |-> "None", post |-> NoJob]]
    /\ hrDesk = [k \in HrDesks |-> [op |-> "none"]]
    /\ hrMarks = {}

OnFile(j) == jobs[j].status \notin {"None", "Deleted"}
ParentOnFile(r) == r.parent # NoJob => OnFile(r.parent)
Below(j) == {c \in Jobs : OnFile(c) /\ jobs[c].parent = j}
Holders(j) == {p \in People : people[p].post = j}
Active(j) == {p \in Holders(j) : people[p].status = "ACTIVE"}

(* From top the reporting lines lead up to j.  (The code gives up after a   *)
(* hundred steps.)                                                          *)
LeadsTo(top, j) ==
    LET line[i \in 0 .. Cardinality(Jobs)] ==
            IF i = 0 THEN top
            ELSE IF line[i - 1] = NoJob THEN NoJob ELSE jobs[line[i - 1]].parent
    IN  \E i \in 0 .. Cardinality(Jobs) : line[i] = j

(* Only an approved position with a free post takes somebody.  Those whose  *)
(* record is not approved yet do not count.                                 *)
CanTake(j) == jobs[j].status = "Approved" /\ Cardinality(Active(j)) < jobs[j].posts
MayHold(p, j) == j # NoJob /\ people[p].post # j => CanTake(j)

(* (with a defect: a position is retired although others report to it)      *)
RetiresAbove(r) ==
    r.op = "retire" /\ jobs[r.job].status = "Approved" /\ Active(r.job) = {}

Retires(r) ==
    /\ r.op = "retire" /\ jobs[r.job].status = "Approved" /\ Active(r.job) = {}
    /\ \A c \in Below(r.job) : jobs[c].status = "Retired"

(* What each handler of a position asks for.                                *)
JobAccepts(r) ==
    \/ r.op = "create" /\ jobs[r.job].status = "None" /\ ParentOnFile(r)
    \/ r.op = "edit" /\ jobs[r.job].status = "Open" /\ ~LeadsTo(r.parent, r.job) /\ ParentOnFile(r)
    \/ r.op = "delete" /\ jobs[r.job].status = "Open" /\ Holders(r.job) = {} /\ Below(r.job) = {}
    \/ r.op = "submit" /\ jobs[r.job].status = "Open"
                       /\ (jobs[r.job].parent # NoJob => jobs[jobs[r.job].parent].status = "Approved")
    \/ r.op \in {"return", "approve"} /\ jobs[r.job].status = "Pending"
    \/ r.op = "reopen" /\ jobs[r.job].status \in {"Approved", "Retired"}
    \/ Retires(r)

(* What each handler of an employee asks for; "move" applies an edit of the *)
(* record, and "leave" is the last clearance of an exit.                    *)
PersonAccepts(r) ==
    \/ r.op = "enter" /\ people[r.person].status = "None" /\ MayHold(r.person, r.job)
    \/ r.op = "change" /\ people[r.person].status = "NEW" /\ MayHold(r.person, r.job)
    \/ r.op = "send" /\ people[r.person].status = "NEW"
    \/ r.op \in {"withdraw", "activate"} /\ people[r.person].status = "PENDING_APPROVAL"
    \/ r.op = "move" /\ people[r.person].status \in {"ACTIVE", "PENDING_FINAL_PAYMENT"} /\ MayHold(r.person, r.job)
    \/ r.op = "leave" /\ people[r.person].status = "ACTIVE"

JobRequests ==
    [op : {"create", "edit"}, job : Jobs, parent : Jobs \cup {NoJob}, posts : PostNumbers]
    \cup [op : {"delete", "submit", "return", "approve", "reopen", "retire"}, job : Jobs]
PersonRequests ==
    [op : {"enter", "change", "move"}, person : People, job : Jobs \cup {NoJob}]
    \cup [op : {"send", "withdraw", "activate", "leave"}, person : People]

(* An insert gets an id of its own.                                         *)
OwnId(r) ==
    \A k \in HrDesks : hrDesk[k].op = r.op =>
        /\ r.op = "create" => hrDesk[k].job # r.job
        /\ r.op = "enter" => hrDesk[k].person # r.person

Check(k) ==
    /\ hrDesk[k].op = "none"
    /\ \/ \E r \in JobRequests : JobAccepts(r) /\ OwnId(r) /\ hrDesk' = [hrDesk EXCEPT ![k] = r]
       \/ \E r \in PersonRequests : PersonAccepts(r) /\ OwnId(r) /\ hrDesk' = [hrDesk EXCEPT ![k] = r]
    /\ UNCHANGED <<jobs, people, hrMarks>>

JobStatusAfter == [submit |-> "Pending", return |-> "Open", approve |-> "Approved",
                   reopen |-> "Open", retire |-> "Retired"]

(* A foreign key refuses a parent that is gone, and is emptied when the     *)
(* parent goes; an update of a position that is gone finds no row.          *)
JobsAfter(r) ==
    CASE r.op \in {"create", "edit"} ->
            [jobs EXCEPT ![r.job] = [status |-> IF r.op = "create" THEN "Open" ELSE @.status,
                                     parent |-> r.parent, posts |-> r.posts]]
      [] r.op = "delete" ->
            [j \in Jobs |-> IF j = r.job THEN [status |-> "Deleted", parent |-> NoJob, posts |-> 0]
                            ELSE IF jobs[j].parent = r.job THEN [jobs[j] EXCEPT !.parent = NoJob] ELSE jobs[j]]
      [] OTHER -> [jobs EXCEPT ![r.job].status = JobStatusAfter[r.op]]

NoRow(r) ==
    \/ jobs[r.job].status = "Deleted"
    \/ r.op \in {"create", "edit"} /\ ~ParentOnFile(r)

Heard(condition, name) == IF condition THEN {name} ELSE {}

(* ("late": the handler would not accept it any more; "cut": there are more *)
(* holders than the edit leaves posts)                                      *)
WriteJob(k) ==
    /\ hrDesk[k] \in JobRequests
    /\ LET r == hrDesk[k]
       IN IF NoRow(r) THEN UNCHANGED <<jobs, hrMarks>>
          ELSE /\ jobs' = JobsAfter(r)
               /\ hrMarks' = hrMarks \cup Heard(~JobAccepts(r), "late")
                    \cup Heard(r.op = "edit" /\ r.posts < Cardinality(Active(r.job)), "cut")
    /\ hrDesk' = [hrDesk EXCEPT ![k] = [op |-> "none"]]
    /\ UNCHANGED people

PersonStatusAfter == [enter |-> "NEW", send |-> "PENDING_APPROVAL", activate |-> "ACTIVE",
                      withdraw |-> "NEW", leave |-> "PENDING_FINAL_PAYMENT"]

(* ("hired": who is activated was entered on a post that is not free any    *)
(* more: nobody asks when the record is approved)                           *)
WritePerson(k) ==
    /\ hrDesk[k] \in PersonRequests
    /\ LET r == hrDesk[k]
       IN /\ people' = [people EXCEPT ![r.person] =
                [status |-> IF r.op \in {"change", "move"} THEN @.status ELSE PersonStatusAfter[r.op],
                 post |-> IF r.op \in {"enter", "change", "move"} THEN r.job ELSE @.post]]
          /\ hrMarks' = hrMarks \cup Heard(~PersonAccepts(r), "late")
               \cup Heard(r.op = "activate" /\ people[r.person].post # NoJob
                          /\ ~CanTake(people[r.person].post), "hired")
    /\ hrDesk' = [hrDesk EXCEPT ![k] = [op |-> "none"]]
    /\ UNCHANGED jobs

EstNext == \E k \in HrDesks : Check(k) \/ WriteJob(k) \/ WritePerson(k)

EstSpec == EstInit /\ [][EstNext]_estVars

----------------------------------------------------------------------------
(* The establishment hangs together unless a handler wrote what it had      *)
(* checked too early: no reporting line comes back to where it began; a     *)
(* position in force or on its way does not report to a retired one or to   *)
(* one that is gone; no more people are at work on a position than it has   *)
(* posts, unless its posts were cut below them or somebody was activated on *)
(* a post that was not free any more; nobody is at work on a position that  *)
(* is retired or gone, with the second exception only.                      *)
EstablishmentSound ==
    "late" \notin hrMarks =>
    \A j \in Jobs :
       /\ jobs[j].parent # NoJob => ~LeadsTo(jobs[j].parent, j)
       /\ jobs[j].status \in {"Approved", "Pending"} /\ jobs[j].parent # NoJob =>
             OnFile(jobs[j].parent) /\ jobs[jobs[j].parent].status # "Retired"
       /\ hrMarks = {} => Cardinality(Active(j)) <= jobs[j].posts
       /\ "hired" \notin hrMarks /\ jobs[j].status \in {"Retired", "Deleted"} => Active(j) = {}
=============================================================================
