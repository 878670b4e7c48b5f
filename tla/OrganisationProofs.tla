------------------------- MODULE OrganisationProofs -------------------------
(***************************************************************************)
(* Proofs about how the school is organised and how it decides: positions  *)
(* and who holds them, what an employee is paid, the calendar, the         *)
(* timetable, report cards, and the approval of a document, for any number *)
(* of requests, positions, employees, years, terms, teachers, classes,     *)
(* lessons, users and steps of a workflow.                                 *)
(*                                                                         *)
(* Each part has its own inductive invariant (EstInv, PayInv, CalendarInv, *)
(* TimetableInv, CardsInv, WorkflowInv), which says of a request under way *)
(* what it read and which of it is still so, and of the tables what holds  *)
(* whatever the marks say.  The parts of Organisation share no state: a    *)
(* step of the whole is a step of at most one of them, so each invariant   *)
(* is kept by all.                                                         *)
(***************************************************************************)
EXTENDS Organisation, Workflow, FiniteSetTheorems, WellFoundedInduction, TLAPS
-----------------------------------------------------------------------------
(* Establishment: positions, their reporting lines and their holders.       *)

JobRow == [status : {"None", "Open", "Pending", "Approved", "Retired", "Deleted"},
           parent : Jobs \cup {NoJob}, posts : Nat]
PersonRow == [status : {"None", "NEW", "PENDING_APPROVAL", "ACTIVE", "PENDING_FINAL_PAYMENT"},
              post : Jobs \cup {NoJob}]

EstTypes == jobs \in [Jobs -> JobRow] /\ people \in [People -> PersonRow]

\* No positions report to each other in a circle: of any of them one reports outside.
NoLoop == \A C \in SUBSET Jobs : C # {} => \E c \in C : jobs[c].parent \notin C

ParentsThere == \A j \in Jobs : jobs[j].parent # NoJob => OnFile(jobs[j].parent)

ParentsInForce ==
    \A j \in Jobs : jobs[j].status \in {"Approved", "Pending"} /\ jobs[j].parent # NoJob =>
        jobs[jobs[j].parent].status # "Retired"

NobodyNowhere == \A j \in Jobs : jobs[j].status \in {"None", "Deleted"} => Holders(j) = {}

PostsKept == hrMarks = {} => \A j \in Jobs : Cardinality(Active(j)) <= jobs[j].posts

NobodyOnRetired ==
    "hired" \notin hrMarks => \A j \in Jobs : jobs[j].status \in {"Retired", "Deleted"} => Active(j) = {}

EstInv ==
    /\ EstTypes /\ ParentsThere
    /\ "late" \notin hrMarks => NoLoop /\ ParentsInForce /\ NobodyNowhere /\ PostsKept /\ NobodyOnRetired

\* The active employees of a job are finitely many, so the count of them is a number.
LEMMA ActiveFinite == \A j : IsFiniteSet(Active(j)) /\ Cardinality(Active(j)) \in Nat /\ Active(j) \subseteq Holders(j)
<1>1. \A j : Active(j) \subseteq People /\ Active(j) \subseteq Holders(j)
  BY DEF Active, Holders
<1> QED
  BY <1>1, EstAssumption, FS_Subset, FS_CardinalityType

\* No employee and no request: the establishment starts sound.
LEMMA EstInitInv == EstInit => EstInv
<1> SUFFICES ASSUME EstInit PROVE EstInv
  OBVIOUS
<1>1. EstTypes /\ ParentsThere /\ ParentsInForce /\ NobodyOnRetired
  BY DEF EstInit, EstTypes, JobRow, PersonRow, ParentsThere, ParentsInForce, NobodyOnRetired
<1>2. NoLoop
  BY EstAssumption DEF EstInit, NoLoop
<1>3. \A j \in Jobs : Holders(j) = {} /\ Active(j) = {} /\ jobs[j].posts = 0
  BY EstAssumption DEF EstInit, Holders, Active
<1>4. NobodyNowhere /\ PostsKept
  BY <1>3, FS_EmptySet DEF NobodyNowhere, PostsKept
<1> QED
  BY <1>1, <1>2, <1>4 DEF EstInv

-----------------------------------------------------------------------------
(* Reporting lines.  LeadsTo follows a line as many steps as there are      *)
(* positions; the function it is defined by exists, and a line that comes   *)
(* back leaves a circle.                                                    *)

\* Of natural numbers there is a least one.
LEMMA LeastOf == ASSUME NEW S \in SUBSET Nat, S # {} PROVE \E n \in S : \A m \in S : n <= m
<1>1. PICK s \in S : TRUE
  OBVIOUS
<1> DEFINE R == StrictSubsetOrdering(0 .. s)
           U == {T \in SUBSET (0 .. s) : \E m \in S : m <= s /\ T = 0 .. m}
<1>2. IsWellFoundedOn(R, SUBSET (0 .. s))
  <2>1. IsFiniteSet(0 .. s)
    BY FS_Interval
  <2> QED
    BY <2>1, FS_StrictSubsetOrderingWellFounded, FS_FiniteSubsetsOfFinite
<1>3. \A m \in S : m <= s => 0 .. m \in U
  OBVIOUS
<1>4. U \subseteq SUBSET (0 .. s) /\ U # {}
  BY <1>1, <1>3
<1>5. PICK T \in U : \A V \in U : ~ (<<V, T>> \in R)
  <2> HIDE DEF U, R
  <2> QED
    BY <1>2, <1>4, WFMin
<1>6. PICK n \in S : n <= s /\ T = 0 .. n
  OBVIOUS
<1>7. ASSUME NEW m \in S, m < n PROVE FALSE
  <2>1. 0 .. m \in U /\ m <= s
    BY <1>3, <1>6, <1>7
  <2>2. 0 .. m \subseteq 0 .. n /\ 0 .. m # 0 .. n
    <3>1. n \in 0 .. n /\ n \notin 0 .. m
      BY <1>7
    <3>2. 0 .. m \subseteq 0 .. n
      BY <1>7
    <3> QED
      BY <3>1, <3>2
  <2>3. <<0 .. m, T>> \in R
    BY <1>6, <2>1, <2>2 DEF StrictSubsetOrdering
  <2> QED
    BY <1>5, <2>1, <2>3
<1> QED
  BY <1>7

Upward(x) == IF x = NoJob THEN NoJob ELSE jobs[x].parent

\* The lines of n steps up from a position.
LinesOf(top, n) ==
    {f \in [0 .. n -> Jobs \cup {NoJob}] : f[0] = top /\ \A i \in 0 .. n : i # 0 => f[i] = Upward(f[i - 1])}

\* A reporting line drawn above a job only passes through jobs there are.
LEMMA LineExists ==
    ASSUME EstTypes, NEW top \in Jobs \cup {NoJob}
    PROVE  \A n \in Nat : LinesOf(top, n) # {}
<1> DEFINE Bad == {n \in Nat : LinesOf(top, n) = {}}
<1>1. SUFFICES ASSUME Bad # {} PROVE FALSE
  OBVIOUS
<1>2. PICK n \in Bad : \A m \in Bad : n <= m
  <2>1. Bad \in SUBSET Nat
    OBVIOUS
  <2> HIDE DEF Bad
  <2> QED
    BY <1>1, <2>1, LeastOf
<1>3. n \in Nat /\ LinesOf(top, n) = {}
  OBVIOUS
<1>4. CASE n = 0
  <2>1. [i \in 0 .. 0 |-> top] \in LinesOf(top, 0)
    BY DEF LinesOf
  <2> QED
    BY <1>3, <1>4, <2>1
<1>5. CASE n # 0
  <2>1. n - 1 \in Nat /\ n - 1 \notin Bad
    BY <1>2, <1>3, <1>5
  <2>2. PICK f \in LinesOf(top, n - 1) : TRUE
    BY <2>1
  <2>3. PICK g : g = [i \in 0 .. n |-> IF i = n THEN Upward(f[n - 1]) ELSE f[i]]
    OBVIOUS
  <2>4. /\ f \in [0 .. n - 1 -> Jobs \cup {NoJob}] /\ f[0] = top
        /\ \A i \in 0 .. n - 1 : i # 0 => f[i] = Upward(f[i - 1])
    BY <2>2 DEF LinesOf
  <2>5. \A x \in Jobs \cup {NoJob} : Upward(x) \in Jobs \cup {NoJob}
    BY DEF Upward, EstTypes, JobRow
  <2>6. g \in [0 .. n -> Jobs \cup {NoJob}]
    BY <1>3, <1>5, <2>3, <2>4, <2>5
  <2>7. g[0] = top
    BY <1>3, <1>5, <2>3, <2>4
  <2>8. ASSUME NEW i \in 0 .. n, i # 0 PROVE g[i] = Upward(g[i - 1])
    <3>1. i - 1 \in 0 .. n /\ i - 1 # n /\ g[i - 1] = f[i - 1]
      BY <1>3, <2>3, <2>8
    <3>2. CASE i = n
      BY <2>3, <3>1, <3>2
    <3>3. CASE i # n
      BY <1>3, <2>3, <2>4, <2>8, <3>1, <3>3
    <3> QED
      BY <3>2, <3>3
  <2> QED
    BY <1>3, <2>6, <2>7, <2>8 DEF LinesOf
<1> QED
  BY <1>4, <1>5

Depth == Cardinality(Jobs)

\* What LeadsTo says: a line of that length passes through j.
LEMMA LeadsToIs ==
    ASSUME EstTypes, NEW top \in Jobs \cup {NoJob}
    PROVE  \E f \in LinesOf(top, Depth) : \A j : LeadsTo(top, j) <=> \E i \in 0 .. Depth : f[i] = j
<1> DEFINE Eq(f) == f = [i \in 0 .. Depth |-> IF i = 0 THEN top ELSE IF f[i - 1] = NoJob THEN NoJob ELSE jobs[f[i - 1]].parent]
           line == CHOOSE f : Eq(f)
<1>1. Depth \in Nat
  BY EstAssumption, FS_CardinalityType DEF Depth
<1>2. PICK g \in LinesOf(top, Depth) : TRUE
  BY <1>1, LineExists
<1>3. Eq(g)
  BY <1>1, <1>2 DEF LinesOf, Upward
<1>4. Eq(line)
  <2> HIDE DEF Eq
  <2> QED
    BY <1>3
<1>5. line \in LinesOf(top, Depth)
  <2> HIDE DEF line
  <2>1. Eq(line)
    BY <1>4
  <2>2. ASSUME NEW i \in 0 .. Depth PROVE line[i] = g[i]
    <3> DEFINE Bad == {k \in 0 .. Depth : line[k] # g[k]}
    <3>1. SUFFICES ASSUME Bad # {} PROVE FALSE
      BY <2>2
    <3>2. PICK k \in Bad : \A m \in Bad : k <= m
      <4>1. Bad \in SUBSET Nat
        BY <1>1
      <4> HIDE DEF Bad
      <4> QED
        BY <3>1, <4>1, LeastOf
    <3>3. k # 0
      BY <1>1, <1>3, <2>1, <3>2
    <3>4. k - 1 \in 0 .. Depth /\ line[k - 1] = g[k - 1]
      BY <1>1, <3>2, <3>3
    <3>5. /\ line[k] = IF line[k - 1] = NoJob THEN NoJob ELSE jobs[line[k - 1]].parent
          /\ g[k] = IF g[k - 1] = NoJob THEN NoJob ELSE jobs[g[k - 1]].parent
      BY <1>3, <2>1, <3>2, <3>3
    <3> QED
      BY <3>2, <3>4, <3>5
  <2>3. line = g
    <3>1. DOMAIN g = 0 .. Depth
      BY <1>2 DEF LinesOf
    <3>2. line = [i \in 0 .. Depth |-> line[i]] /\ g = [i \in 0 .. Depth |-> g[i]]
      BY <2>1, <3>1, <1>2 DEF LinesOf
    <3> HIDE DEF Eq
    <3> QED
      BY <2>2, <3>2
  <2> QED
    BY <1>2, <2>3
<1>6. \A j : LeadsTo(top, j) <=> \E i \in 0 .. Depth : line[i] = j
  BY DEF LeadsTo, Depth
<1> QED
  BY <1>5, <1>6

\* A line that comes back to its beginning leaves a circle.
LEMMA NoWayBack ==
    ASSUME EstTypes, NoLoop, NEW j \in Jobs, jobs[j].parent # NoJob
    PROVE  ~LeadsTo(jobs[j].parent, j)
<1> SUFFICES ASSUME LeadsTo(jobs[j].parent, j) PROVE FALSE
  OBVIOUS
<1>1. PICK top \in Jobs : top = jobs[j].parent
  BY DEF EstTypes, JobRow
<1>2. PICK f \in LinesOf(top, Depth) : \E i \in 0 .. Depth : f[i] = j
  BY <1>1, LeadsToIs
<1>3. PICK n \in 0 .. Depth : f[n] = j
  BY <1>2
<1>4. /\ f \in [0 .. Depth -> Jobs \cup {NoJob}] /\ f[0] = top
      /\ \A i \in 0 .. Depth : i # 0 => f[i] = Upward(f[i - 1])
  BY <1>2 DEF LinesOf
<1>5. Depth \in Nat
  BY EstAssumption, FS_CardinalityType DEF Depth
<1>6. ASSUME NEW i \in 0 .. n PROVE f[i] \in Jobs
  <2> DEFINE Ends == {k \in Nat : k <= n /\ f[n - k] = NoJob}
  <2>1. SUFFICES ASSUME Ends # {} PROVE FALSE
    <3>1. n - i \in Nat /\ n - i <= n /\ n - (n - i) = i
      BY <1>5, <1>6
    <3>2. n - i \notin Ends => f[n - (n - i)] # NoJob
      BY <3>1
    <3> HIDE DEF Ends
    <3>3. Ends = {} => f[i] # NoJob
      BY <3>1, <3>2
    <3> QED
      BY <1>4, <1>5, <1>6, <3>3
  <2>2. PICK k \in Ends : \A m \in Ends : k <= m
    <3>1. Ends \in SUBSET Nat
      OBVIOUS
    <3> HIDE DEF Ends
    <3> QED
      BY <2>1, <3>1, LeastOf
  <2>3. k # 0
    BY <1>3, <1>5, <2>2, EstAssumption
  <2>4. n - k + 1 \in 0 .. Depth /\ n - k + 1 # 0 /\ (n - k + 1) - 1 = n - k /\ n - (k - 1) = n - k + 1
    BY <1>5, <2>2, <2>3
  <2>5. f[n - k + 1] = NoJob
    BY <1>4, <2>2, <2>4 DEF Upward
  <2>6. k - 1 \in Ends
    BY <2>2, <2>3, <2>4, <2>5
  <2> QED
    BY <2>2, <2>6
<1>7. PICK C : C = {f[i] : i \in 0 .. n}
  OBVIOUS
<1>8. C \in SUBSET Jobs /\ C # {}
  BY <1>5, <1>6, <1>7
<1>9. ASSUME NEW c \in C PROVE jobs[c].parent \in C
  <2>1. PICK i \in 0 .. n : c = f[i]
    BY <1>7
  <2>2. CASE i = n
    BY <1>1, <1>3, <1>4, <1>5, <1>7, <2>1, <2>2
  <2>3. CASE i # n
    <3>1. i + 1 \in 0 .. Depth /\ i + 1 # 0 /\ (i + 1) - 1 = i /\ i + 1 \in 0 .. n
      BY <1>5, <2>3
    <3>2. f[i + 1] = Upward(f[i])
      BY <1>4, <3>1
    <3> QED
      BY <1>6, <1>7, <2>1, <3>1, <3>2, EstAssumption DEF Upward
  <2> QED
    BY <2>2, <2>3
<1> QED
  BY <1>8, <1>9 DEF NoLoop

\* A circle through all the positions of a set but one, whose reporting line does not
\* come to that one, is a circle already.
LEMMA NoWayThrough ==
    ASSUME EstTypes, NoLoop, NEW j \in Jobs, NEW top \in Jobs, ~LeadsTo(top, j),
           NEW C \in SUBSET Jobs, top \in C, \A c \in C \ {j} : jobs[c].parent \in C
    PROVE  FALSE
<1>1. PICK f \in LinesOf(top, Depth) : \A i \in 0 .. Depth : f[i] # j
  BY LeadsToIs
<1>2. /\ f \in [0 .. Depth -> Jobs \cup {NoJob}] /\ f[0] = top
      /\ \A i \in 0 .. Depth : i # 0 => f[i] = Upward(f[i - 1])
  BY <1>1 DEF LinesOf
<1>3. Depth \in Nat
  BY EstAssumption, FS_CardinalityType DEF Depth
<1>4. ASSUME NEW i \in 0 .. Depth PROVE f[i] \in C
  <2> DEFINE Out == {k \in 0 .. Depth : f[k] \notin C}
  <2>1. SUFFICES ASSUME Out # {} PROVE FALSE
    BY <1>4
  <2>2. PICK k \in Out : \A m \in Out : k <= m
    <3>1. Out \in SUBSET Nat
      BY <1>3
    <3> HIDE DEF Out
    <3> QED
      BY <2>1, <3>1, LeastOf
  <2>3. k # 0
    BY <1>2, <2>2
  <2>4. k - 1 \in 0 .. Depth /\ f[k - 1] \in C \ {j}
    BY <1>1, <1>3, <2>2, <2>3
  <2>5. f[k] = jobs[f[k - 1]].parent
    BY <1>2, <2>2, <2>3, <2>4, EstAssumption DEF Upward
  <2> QED
    BY <2>2, <2>4, <2>5
<1>5. PICK a, b \in 0 .. Depth : a < b /\ f[a] = f[b]
  <2>1. IsFiniteSet(0 .. Depth) /\ Cardinality(0 .. Depth) = Depth + 1
    BY <1>3, FS_Interval
  <2>2. f \in [0 .. Depth -> Jobs]
    BY <1>2, <1>4
  <2>3. \E x, y \in 0 .. Depth : x # y /\ f[x] = f[y]
    BY <1>3, <2>1, <2>2, EstAssumption, FS_PigeonHole DEF Depth
  <2> QED
    BY <1>3, <2>3
<1>6. PICK D : D = {f[i] : i \in a .. b - 1}
  OBVIOUS
<1>7. D \in SUBSET Jobs /\ D # {}
  BY <1>3, <1>4, <1>5, <1>6
<1>8. ASSUME NEW d \in D PROVE jobs[d].parent \in D
  <2>1. PICK i \in a .. b - 1 : d = f[i]
    BY <1>6
  <2>2. i + 1 \in 0 .. Depth /\ i + 1 # 0 /\ (i + 1) - 1 = i /\ i \in 0 .. Depth
    BY <1>3, <1>5
  <2>3. f[i + 1] = jobs[d].parent
    BY <1>2, <1>4, <2>1, <2>2, EstAssumption DEF Upward
  <2>4. CASE i = b - 1
    BY <1>3, <1>5, <1>6, <2>1, <2>2, <2>3, <2>4
  <2>5. CASE i # b - 1
    BY <1>3, <1>5, <1>6, <2>1, <2>2, <2>3, <2>5
  <2> QED
    BY <2>4, <2>5
<1> QED
  BY <1>7, <1>8 DEF NoLoop

-----------------------------------------------------------------------------
\* What a request to a position writes, and what is asked of it, one kind at a time.
JobPlaced(r, j) ==
    /\ r.op \in {"create", "edit"} /\ r.job = j /\ r.parent \in Jobs \cup {NoJob} /\ r.posts \in Nat
    /\ r.parent # NoJob => OnFile(r.parent)
    /\ jobs' = [jobs EXCEPT ![j] = [status |-> IF r.op = "create" THEN "Open" ELSE @.status,
                                    parent |-> r.parent, posts |-> r.posts]]

JobDeleted(r, j) ==
    /\ r.op = "delete" /\ r.job = j
    /\ jobs' = [c \in Jobs |-> IF c = j THEN [status |-> "Deleted", parent |-> NoJob, posts |-> 0]
                               ELSE IF jobs[c].parent = j THEN [jobs[c] EXCEPT !.parent = NoJob] ELSE jobs[c]]

JobMoved(r, j) ==
    /\ r.op \in {"submit", "return", "approve", "reopen", "retire"} /\ r.job = j
    /\ jobs' = [jobs EXCEPT ![j].status = JobStatusAfter[r.op]]

\* What the forms of the establishment write to a job, status and parent included.
LEMMA JobWrites ==
    ASSUME EstInv, NEW k \in HrDesks, NEW r, r = hrDesk[k], WriteJob(k), ~NoRow(r)
    PROVE  /\ people' = people /\ hrMarks \subseteq hrMarks' /\ r.job \in Jobs
           /\ "late" \notin hrMarks' => JobAccepts(r)
           /\ hrMarks' = {} /\ r.op = "edit" => Cardinality(Active(r.job)) <= r.posts
           /\ jobs[r.job].status # "Deleted"
           /\ JobPlaced(r, r.job) \/ JobDeleted(r, r.job) \/ JobMoved(r, r.job)
<1>1. /\ r \in JobRequests /\ jobs' = JobsAfter(r) /\ people' = people
      /\ hrMarks' = hrMarks \cup Heard(~JobAccepts(r), "late")
            \cup Heard(r.op = "edit" /\ r.posts < Cardinality(Active(r.job)), "cut")
  BY DEF WriteJob
<1>2. r.job \in Jobs
  BY <1>1 DEF JobRequests
<1>3. "late" \notin hrMarks' => JobAccepts(r)
  BY <1>1 DEF Heard
<1>4. ASSUME hrMarks' = {}, r.op = "edit" PROVE Cardinality(Active(r.job)) <= r.posts
  <2>1. r.posts \in Nat
    BY <1>1, <1>4, EstAssumption DEF JobRequests
  <2>2. ~(r.posts < Cardinality(Active(r.job)))
    BY <1>1, <1>4 DEF Heard
  <2> QED
    BY <2>1, <2>2, ActiveFinite
<1>5. CASE r.op \in {"create", "edit"}
  <2>1. r.parent \in Jobs \cup {NoJob} /\ r.posts \in Nat
    BY <1>1, <1>5, EstAssumption DEF JobRequests
  <2>2. r.parent # NoJob => OnFile(r.parent)
    BY <1>5 DEF NoRow, ParentOnFile
  <2>3. JobsAfter(r) = [jobs EXCEPT ![r.job] = [status |-> IF r.op = "create" THEN "Open" ELSE @.status,
                                                parent |-> r.parent, posts |-> r.posts]]
    BY <1>5 DEF JobsAfter
  <2>4. JobPlaced(r, r.job)
    BY <1>1, <1>5, <2>1, <2>2, <2>3 DEF JobPlaced
  <2> QED
    BY <1>1, <1>2, <1>3, <1>4, <2>4 DEF NoRow
<1>6. CASE r.op = "delete"
  <2>1. JobDeleted(r, r.job)
    BY <1>1, <1>6 DEF JobsAfter, JobDeleted
  <2> QED
    BY <1>1, <1>2, <1>3, <1>4, <2>1 DEF NoRow
<1>7. CASE r.op \in {"submit", "return", "approve", "reopen", "retire"}
  <2>1. JobMoved(r, r.job)
    BY <1>1, <1>7 DEF JobsAfter, JobMoved
  <2> QED
    BY <1>1, <1>2, <1>3, <1>4, <2>1 DEF NoRow
<1> QED
  BY <1>1, <1>5, <1>6, <1>7 DEF JobRequests

\* The people of a position do not change when positions do.
LEMMA SamePeople == ASSUME people' = people PROVE \A j : Holders(j)' = Holders(j) /\ Active(j)' = Active(j)
BY DEF Holders, Active

\* Placing a job under a parent keeps the lines without a cycle.
LEMMA JobPlacedStep ==
    ASSUME EstInv, NEW r, NEW j \in Jobs, JobPlaced(r, j), people' = people, hrMarks \subseteq hrMarks',
           "late" \notin hrMarks' => JobAccepts(r),
           hrMarks' = {} /\ r.op = "edit" => Cardinality(Active(j)) <= r.posts,
           jobs[j].status # "Deleted"
    PROVE  EstInv'
<1>1. /\ jobs \in [Jobs -> JobRow] /\ r.parent \in Jobs \cup {NoJob} /\ r.posts \in Nat /\ r.job = j
      /\ r.op \in {"create", "edit"}
  BY DEF EstInv, EstTypes, JobPlaced
<1>2. /\ jobs'[j] = [status |-> IF r.op = "create" THEN "Open" ELSE jobs[j].status, parent |-> r.parent, posts |-> r.posts]
      /\ \A c \in Jobs \ {j} : jobs'[c] = jobs[c]
      /\ jobs' \in [Jobs -> JobRow]
  BY <1>1 DEF JobPlaced, JobRow
<1>3. \A c \in Jobs : OnFile(c) => OnFile(c)'
  BY <1>1, <1>2 DEF OnFile
<1>4. ParentsThere'
  BY <1>1, <1>2, <1>3, EstAssumption DEF ParentsThere, JobPlaced, EstInv, JobRow
<1>5. ASSUME "late" \notin hrMarks'
      PROVE  NoLoop' /\ ParentsInForce' /\ NobodyNowhere' /\ PostsKept' /\ NobodyOnRetired'
  <2>1. /\ JobAccepts(r) /\ NoLoop /\ ParentsInForce /\ NobodyNowhere /\ PostsKept /\ NobodyOnRetired
    BY <1>5 DEF EstInv
  <2>2. \/ r.op = "create" /\ jobs[j].status = "None"
        \/ r.op = "edit" /\ jobs[j].status = "Open" /\ ~LeadsTo(r.parent, j)
    BY <1>1, <2>1 DEF JobAccepts, Retires
  <2>3. jobs'[j].status = "Open" /\ jobs'[j].parent = r.parent /\ jobs'[j].posts = r.posts
    BY <1>2, <2>2
  <2>4. NoLoop'
    <3> SUFFICES ASSUME NEW C \in SUBSET Jobs, C # {}, \A c \in C : jobs'[c].parent \in C PROVE FALSE
      BY DEF NoLoop
    <3>1. \A c \in C \ {j} : jobs[c].parent \in C
      BY <1>2
    <3>2. j \in C
      BY <2>1, <3>1 DEF NoLoop
    <3>3. r.parent \in C
      BY <2>3, <3>2
    <3>4. CASE r.op = "edit"
      BY <2>1, <2>2, <3>1, <3>3, <3>4, NoWayThrough DEF EstInv
    <3>5. CASE r.op = "create"
      <4>1. jobs[j].status = "None" /\ r.parent # j
        BY <2>2, <3>3, <3>5, EstAssumption DEF JobPlaced, OnFile
      <4>2. \A c \in C \ {j} : jobs[c].parent \in C \ {j}
        BY <3>1, <4>1, EstAssumption DEF EstInv, ParentsThere, OnFile
      <4>3. C \ {j} \in SUBSET Jobs /\ C \ {j} # {}
        BY <3>3, <4>1
      <4> QED
        BY <2>1, <4>2, <4>3 DEF NoLoop
    <3> QED
      BY <1>1, <3>4, <3>5
  <2>5. ParentsInForce'
    <3> SUFFICES ASSUME NEW c \in Jobs, jobs'[c].status \in {"Approved", "Pending"}, jobs'[c].parent # NoJob
                 PROVE  jobs'[jobs'[c].parent].status # "Retired"
      BY DEF ParentsInForce
    <3>1. c # j /\ jobs'[c] = jobs[c]
      BY <1>2, <2>3
    <3>2. jobs[c].parent \in Jobs /\ jobs[jobs[c].parent].status # "Retired"
      BY <1>1, <2>1, <3>1 DEF ParentsInForce, JobRow
    <3> QED
      BY <1>2, <2>3, <3>1, <3>2
  <2>6. NobodyNowhere' /\ NobodyOnRetired'
    BY <1>2, <2>1, <2>3, SamePeople DEF NobodyNowhere, NobodyOnRetired
  <2>7. ASSUME hrMarks' = {}, NEW c \in Jobs PROVE Cardinality(Active(c)) <= jobs'[c].posts
    <3>1. CASE c # j
      BY <1>2, <2>1, <2>7, <3>1 DEF PostsKept
    <3>2. CASE c = j /\ r.op = "edit"
      BY <2>3, <2>7, <3>2
    <3>3. CASE c = j /\ r.op = "create"
      <4>1. Active(c) = {}
        BY <2>1, <2>2, <3>3, ActiveFinite DEF NobodyNowhere
      <4> QED
        BY <1>1, <2>3, <3>3, <4>1, FS_EmptySet
    <3> QED
      BY <1>1, <3>1, <3>2, <3>3
  <2>8. PostsKept'
    BY <2>7, SamePeople DEF PostsKept
  <2> QED
    BY <2>4, <2>5, <2>6, <2>8
<1> QED
  BY <1>2, <1>4, <1>5 DEF EstInv, EstTypes

\* A deleted job had nobody in it and no job under it, so nothing refers to it afterwards.
LEMMA JobDeletedStep ==
    ASSUME EstInv, NEW r, NEW j \in Jobs, JobDeleted(r, j), people' = people, hrMarks \subseteq hrMarks',
           "late" \notin hrMarks' => JobAccepts(r)
    PROVE  EstInv'
<1>1. jobs \in [Jobs -> JobRow] /\ r.op = "delete" /\ r.job = j
  BY DEF EstInv, EstTypes, JobDeleted
<1>2. /\ jobs'[j] = [status |-> "Deleted", parent |-> NoJob, posts |-> 0]
      /\ \A c \in Jobs \ {j} : /\ jobs'[c].status = jobs[c].status /\ jobs'[c].posts = jobs[c].posts
                               /\ jobs'[c].parent = IF jobs[c].parent = j THEN NoJob ELSE jobs[c].parent
      /\ jobs' \in [Jobs -> JobRow]
  <2>1. \A c \in Jobs : jobs[c] \in JobRow
    BY <1>1
  <2>2. \A c \in Jobs : jobs'[c] = IF c = j THEN [status |-> "Deleted", parent |-> NoJob, posts |-> 0]
                               ELSE IF jobs[c].parent = j THEN [jobs[c] EXCEPT !.parent = NoJob] ELSE jobs[c]
    BY DEF JobDeleted
  <2>3. \A c \in Jobs \ {j} : /\ jobs'[c].status = jobs[c].status /\ jobs'[c].posts = jobs[c].posts
                              /\ jobs'[c].parent = IF jobs[c].parent = j THEN NoJob ELSE jobs[c].parent
    BY <2>1, <2>2 DEF JobRow
  <2>4. ASSUME NEW c \in Jobs PROVE jobs'[c] \in JobRow
    <3>1. [status |-> "Deleted", parent |-> NoJob, posts |-> 0] \in JobRow
      BY DEF JobRow
    <3>2. [jobs[c] EXCEPT !.parent = NoJob] \in JobRow
      BY <2>1 DEF JobRow
    <3> QED
      BY <2>1, <2>2, <3>1, <3>2
  <2>5. jobs' = [c \in Jobs |-> jobs'[c]]
    BY DEF JobDeleted
  <2> QED
    BY <2>2, <2>3, <2>4, <2>5
<1>3. ParentsThere'
  BY <1>1, <1>2, EstAssumption DEF ParentsThere, OnFile, EstInv, JobRow
<1>4. ASSUME "late" \notin hrMarks'
      PROVE  NoLoop' /\ ParentsInForce' /\ NobodyNowhere' /\ PostsKept' /\ NobodyOnRetired'
  <2>1. /\ JobAccepts(r) /\ NoLoop /\ ParentsInForce /\ NobodyNowhere /\ PostsKept /\ NobodyOnRetired
    BY <1>4 DEF EstInv
  <2>2. Holders(j) = {} /\ Active(j) = {}
    BY <1>1, <2>1, ActiveFinite DEF JobAccepts, Retires
  <2>3. NoLoop'
    <3> SUFFICES ASSUME NEW C \in SUBSET Jobs, C # {}, \A c \in C : jobs'[c].parent \in C PROVE FALSE
      BY DEF NoLoop
    <3>1. \A c \in C : jobs[c].parent \in C
      BY <1>2, EstAssumption
    <3> QED
      BY <2>1, <3>1 DEF NoLoop
  <2>4. ParentsInForce'
    BY <1>1, <1>2, <2>1 DEF ParentsInForce, JobRow
  <2>5. NobodyNowhere' /\ NobodyOnRetired'
    BY <1>2, <2>1, <2>2, SamePeople DEF NobodyNowhere, NobodyOnRetired
  <2>6. PostsKept'
    <3>1. ASSUME hrMarks' = {}, NEW c \in Jobs PROVE Cardinality(Active(c)) <= jobs'[c].posts
      <4>1. CASE c = j
        <5>1. Cardinality(Active(c)) = 0
          BY <2>2, <4>1, FS_EmptySet
        <5>2. jobs'[c].posts = 0
          BY <1>2, <4>1
        <5> QED
          BY <5>1, <5>2
      <4>2. CASE c # j
        BY <1>2, <2>1, <3>1, <4>2 DEF PostsKept
      <4> QED
        BY <4>1, <4>2
    <3> QED
      BY <3>1, SamePeople DEF PostsKept
  <2> QED
    BY <2>3, <2>4, <2>5, <2>6
<1> QED
  BY <1>2, <1>3, <1>4 DEF EstInv, EstTypes

\* A change of a job that leaves its place alone keeps every line.
LEMMA JobMovedStep ==
    ASSUME EstInv, NEW r, NEW j \in Jobs, JobMoved(r, j), people' = people, hrMarks \subseteq hrMarks',
           "late" \notin hrMarks' => JobAccepts(r)
    PROVE  EstInv'
<1>1. /\ jobs \in [Jobs -> JobRow] /\ r.job = j
      /\ r.op \in {"submit", "return", "approve", "reopen", "retire"}
  BY DEF EstInv, EstTypes, JobMoved
<1>2. PICK status : /\ status = JobStatusAfter[r.op]
                    /\ status \in {"Pending", "Open", "Approved", "Retired"}
                    /\ r.op = "retire" <=> status = "Retired"
                    /\ status = "Pending" => r.op = "submit"
                    /\ status = "Approved" => r.op = "approve"
  BY <1>1 DEF JobStatusAfter
<1>3. /\ jobs'[j].status = status /\ \A c \in Jobs \ {j} : jobs'[c].status = jobs[c].status
      /\ \A c \in Jobs : jobs'[c].parent = jobs[c].parent /\ jobs'[c].posts = jobs[c].posts
      /\ jobs' \in [Jobs -> JobRow]
  <2>1. jobs' = [jobs EXCEPT ![j].status = status]
    BY <1>2 DEF JobMoved
  <2> QED
    BY <1>1, <1>2, <2>1 DEF JobRow
<1>4. ParentsThere'
  BY <1>1, <1>2, <1>3, EstAssumption DEF ParentsThere, OnFile, EstInv, JobRow
<1>5. ASSUME "late" \notin hrMarks'
      PROVE  NoLoop' /\ ParentsInForce' /\ NobodyNowhere' /\ PostsKept' /\ NobodyOnRetired'
  <2>1. /\ JobAccepts(r) /\ NoLoop /\ ParentsInForce /\ NobodyNowhere /\ PostsKept /\ NobodyOnRetired
    BY <1>5 DEF EstInv
  <2>2. /\ r.op = "submit" => (jobs[j].parent # NoJob => jobs[jobs[j].parent].status = "Approved")
        /\ r.op = "submit" => jobs[j].status = "Open"
        /\ r.op = "approve" => jobs[j].status = "Pending"
        /\ r.op = "retire" => Active(j) = {} /\ \A c \in Below(j) : jobs[c].status = "Retired"
    BY <1>1, <2>1 DEF JobAccepts, Retires
  <2>3. NoLoop'
    BY <1>3, <2>1 DEF NoLoop
  <2>4. ParentsInForce'
    <3> SUFFICES ASSUME NEW c \in Jobs, jobs'[c].status \in {"Approved", "Pending"}, jobs'[c].parent # NoJob
                 PROVE  jobs'[jobs'[c].parent].status # "Retired"
      BY DEF ParentsInForce
    <3>1. PICK p \in Jobs : p = jobs[c].parent /\ p = jobs'[c].parent
      BY <1>1, <1>3 DEF JobRow
    <3>2. jobs[c].status \in {"Approved", "Pending"} \/ (c = j /\ r.op = "submit")
      BY <1>2, <1>3, <2>2
    <3>3. jobs[p].status # "Retired"
      BY <2>1, <2>2, <3>1, <3>2, EstAssumption DEF ParentsInForce
    <3>4. CASE p = j /\ status = "Retired"
      <4>1. c # j
        BY <1>3, <3>4
      <4>2. jobs[c].status \in {"Approved", "Pending"}
        BY <3>2, <4>1
      <4>3. c \in Below(j)
        BY <3>1, <3>4, <4>2 DEF Below, OnFile
      <4> QED
        BY <1>2, <2>2, <3>4, <4>2, <4>3
    <3>5. CASE p # j \/ status # "Retired"
      BY <1>3, <3>1, <3>3, <3>5
    <3> QED
      BY <3>4, <3>5
  <2>5. NobodyNowhere' /\ NobodyOnRetired'
    BY <1>2, <1>3, <2>1, <2>2, SamePeople DEF NobodyNowhere, NobodyOnRetired
  <2>6. PostsKept'
    BY <1>3, <2>1, SamePeople DEF PostsKept
  <2> QED
    BY <2>3, <2>4, <2>5, <2>6
<1> QED
  BY <1>3, <1>4, <1>5 DEF EstInv, EstTypes

\* Who is entered, moved or changed takes a free post of a position in force; whoever
\* is newly at work has one, unless nobody asked ("hired").
LEMMA PersonStep == ASSUME EstInv, NEW k \in HrDesks, WritePerson(k) PROVE EstInv'
<1>1. PICK r : r = hrDesk[k]
  OBVIOUS
<1>2. r \in PersonRequests /\ jobs' = jobs
  BY <1>1 DEF WritePerson
<1>3. PICK p : p = r.person
  OBVIOUS
<1>4. p \in People
  BY <1>2, <1>3 DEF PersonRequests
<1>5. PICK new : new = [status |-> IF r.op \in {"change", "move"} THEN people[p].status ELSE PersonStatusAfter[r.op],
                        post |-> IF r.op \in {"enter", "change", "move"} THEN r.job ELSE people[p].post]
  OBVIOUS
<1>6. /\ people' = [people EXCEPT ![p] = new]
      /\ hrMarks' = hrMarks \cup Heard(~PersonAccepts(r), "late")
            \cup Heard(r.op = "activate" /\ people[p].post # NoJob /\ ~CanTake(people[p].post), "hired")
  BY <1>1, <1>3, <1>5 DEF WritePerson
<1>7. people \in [People -> PersonRow] /\ jobs \in [Jobs -> JobRow]
  BY DEF EstInv, EstTypes
<1>8. new \in PersonRow
  <2>1. new.status \in {"None", "NEW", "PENDING_APPROVAL", "ACTIVE", "PENDING_FINAL_PAYMENT"}
    BY <1>2, <1>4, <1>5, <1>7 DEF PersonRequests, PersonStatusAfter, PersonRow
  <2>2. new.post \in Jobs \cup {NoJob}
    BY <1>2, <1>4, <1>5, <1>7 DEF PersonRequests, PersonRow
  <2> QED
    BY <1>5, <2>1, <2>2 DEF PersonRow
<1>9. /\ people' \in [People -> PersonRow] /\ people'[p] = new
      /\ \A q \in People \ {p} : people'[q] = people[q]
  BY <1>4, <1>6, <1>7, <1>8
<1>10. ParentsThere'
  BY <1>2 DEF EstInv, ParentsThere, OnFile
<1>11. ASSUME "late" \notin hrMarks'
       PROVE  NoLoop' /\ ParentsInForce' /\ NobodyNowhere' /\ PostsKept' /\ NobodyOnRetired'
  <2>1. /\ PersonAccepts(r) /\ hrMarks \subseteq hrMarks'
        /\ NoLoop /\ ParentsInForce /\ NobodyNowhere /\ PostsKept /\ NobodyOnRetired
    BY <1>6, <1>11 DEF Heard, EstInv
  <2>2. NoLoop' /\ ParentsInForce'
    BY <1>2, <2>1 DEF NoLoop, ParentsInForce
  <2>3. new.post # NoJob /\ new.post # people[p].post => CanTake(new.post)
    BY <1>3, <1>5, <2>1 DEF PersonAccepts, MayHold
  <2>4. new.status = "ACTIVE" => \/ people[p].status = "ACTIVE"
                                 \/ r.op = "activate" /\ new.post = people[p].post
    BY <1>2, <1>3, <1>5, <2>1 DEF PersonAccepts, PersonStatusAfter, PersonRequests
  <2>5. "hired" \notin hrMarks' /\ new.status = "ACTIVE" /\ new.post # NoJob
          => (people[p].status = "ACTIVE" /\ new.post = people[p].post) \/ CanTake(new.post)
    BY <1>6, <2>3, <2>4 DEF Heard
  <2>6. \A j : CanTake(j) => jobs[j].status = "Approved"
    BY DEF CanTake
  <2>7. NobodyNowhere'
    <3> SUFFICES ASSUME NEW j \in Jobs, jobs[j].status \in {"None", "Deleted"}, NEW q \in Holders(j)' PROVE FALSE
      BY <1>2 DEF NobodyNowhere
    <3>1. q \in People /\ people'[q].post = j /\ Holders(j) = {}
      BY <2>1 DEF Holders, NobodyNowhere
    <3>2. q = p /\ new.post = j /\ people[p].post # j
      BY <1>4, <1>9, <3>1 DEF Holders
    <3> QED
      BY <2>3, <2>6, <3>2, EstAssumption
  <2>8. ASSUME "hired" \notin hrMarks', NEW j \in Jobs, NEW q \in Active(j)', q \notin Active(j)
        PROVE  q = p /\ CanTake(j)
    <3>1. q \in People /\ people'[q].post = j /\ people'[q].status = "ACTIVE"
      BY <2>8 DEF Active, Holders
    <3>2. q = p /\ new.post = j /\ new.status = "ACTIVE" /\ ~(people[p].status = "ACTIVE" /\ people[p].post = j)
      BY <1>4, <1>9, <2>8, <3>1 DEF Active, Holders
    <3> QED
      BY <2>5, <2>8, <3>2, EstAssumption
  <2>9. NobodyOnRetired'
    BY <1>2, <2>1, <2>6, <2>8 DEF NobodyOnRetired
  <2>10. ASSUME hrMarks' = {}, NEW j \in Jobs PROVE Cardinality(Active(j)') <= jobs[j].posts
    <3>1. /\ IsFiniteSet(Active(j)) /\ Cardinality(Active(j)) \in Nat /\ Cardinality(Active(j)) <= jobs[j].posts
      BY <2>1, <2>10, ActiveFinite DEF PostsKept
    <3>2. jobs[j].posts \in Nat
      BY <1>7 DEF JobRow
    <3>3. CASE Active(j)' \subseteq Active(j)
      <4>1. Cardinality(Active(j)') <= Cardinality(Active(j)) /\ Cardinality(Active(j)') \in Nat
        BY <3>1, <3>3, FS_Subset, FS_CardinalityType
      <4> QED
        BY <3>1, <3>2, <4>1
    <3>4. CASE ~(Active(j)' \subseteq Active(j))
      <4>1. CanTake(j) /\ Active(j)' \subseteq Active(j) \cup {p} /\ p \notin Active(j)
        BY <2>8, <2>10, <3>4
      <4>2. Cardinality(Active(j)) < jobs[j].posts
        BY <4>1 DEF CanTake
      <4>3. IsFiniteSet(Active(j) \cup {p}) /\ Cardinality(Active(j) \cup {p}) = Cardinality(Active(j)) + 1
        BY <3>1, <4>1, FS_AddElement
      <4>4. Cardinality(Active(j)') <= Cardinality(Active(j)) + 1 /\ Cardinality(Active(j)') \in Nat
        BY <4>1, <4>3, FS_Subset, FS_CardinalityType
      <4> QED
        BY <3>1, <3>2, <4>2, <4>4
    <3> QED
      BY <3>3, <3>4
  <2>11. PostsKept'
    BY <1>2, <2>10 DEF PostsKept
  <2> QED
    BY <2>2, <2>7, <2>9, <2>11
<1> QED
  BY <1>2, <1>7, <1>9, <1>10, <1>11 DEF EstInv, EstTypes

\* Every step of the establishment keeps its invariant.
LEMMA EstStepInv == EstInv /\ [EstNext]_estVars => EstInv'
<1> SUFFICES ASSUME EstInv, [EstNext]_estVars PROVE EstInv'
  OBVIOUS
<1>1. ASSUME UNCHANGED <<jobs, people, hrMarks>> PROVE EstInv'
  BY <1>1 DEF EstInv, EstTypes, ParentsThere, NoLoop, ParentsInForce, NobodyNowhere, PostsKept, NobodyOnRetired,
     OnFile, Holders, Active
<1>2. ASSUME NEW k \in HrDesks, WriteJob(k) PROVE EstInv'
  <2>1. PICK r : r = hrDesk[k]
    OBVIOUS
  <2>2. CASE NoRow(r)
    BY <1>1, <1>2, <2>1, <2>2 DEF WriteJob
  <2>3. CASE ~NoRow(r)
    BY <1>2, <2>1, <2>3, JobWrites, JobPlacedStep, JobDeletedStep, JobMovedStep
  <2> QED
    BY <2>2, <2>3
<1> QED
  BY <1>1, <1>2, PersonStep DEF EstNext, Check, estVars

\* The invariant is at least the property.
LEMMA EstIsSound == EstInv => EstablishmentSound
<1> SUFFICES ASSUME EstInv, "late" \notin hrMarks, NEW j \in Jobs
    PROVE  /\ jobs[j].parent # NoJob => ~LeadsTo(jobs[j].parent, j)
           /\ jobs[j].status \in {"Approved", "Pending"} /\ jobs[j].parent # NoJob =>
                 OnFile(jobs[j].parent) /\ jobs[jobs[j].parent].status # "Retired"
           /\ hrMarks = {} => Cardinality(Active(j)) <= jobs[j].posts
           /\ "hired" \notin hrMarks /\ jobs[j].status \in {"Retired", "Deleted"} => Active(j) = {}
  BY DEF EstablishmentSound
<1> QED
  BY NoWayBack DEF EstInv, ParentsThere, ParentsInForce, PostsKept, NobodyOnRetired

-----------------------------------------------------------------------------
(* StaffPay: card, contract, notch and what was decided last.               *)

PayDeskType ==
    {AtRest}
    \cup [op : {"card", "confer"}, scale : Scales \cup {NoScale}, pay : Pays \cup {0}, before : Scales \cup {NoScale}]
    \cup [op : {"confer"}, scale : Scales \cup {NoScale}, pay : {0}]
    \cup [op : {"activate"}, pay : Nat]
    \cup [op : {"cards", "contracts"}, scale : Scales, pay : Pays]

PayTypes ==
    /\ card \in [status : {"NEW", "PENDING_APPROVAL", "ACTIVE"}, scale : Scales \cup {NoScale}, pay : Nat]
    /\ contract \in Nat \cup {NoContract} /\ scalePay \in [Scales -> Pays]
    /\ edit \in [stage : {"None", "Open", "Approved"}, scale : Scales \cup {NoScale}, pay : Nat, typed : BOOLEAN]
    /\ payDesk \in [PayDesks -> PayDeskType]
    /\ decided \in [pay : Nat, notch : BOOLEAN]

\* What the employee is paid, and how card, notch and the last decision agree with it.
Paid == IF contract = NoContract THEN card.pay ELSE contract

CardAgrees == "raised" \notin staffMarks => card.pay = Paid
DecisionAgrees == "undone" \notin staffMarks => Paid = decided.pay
NotchAgrees ==
    "undone" \notin staffMarks /\ decided.notch => card.scale \in Scales /\ scalePay[card.scale] = Paid

Agrees == CardAgrees /\ DecisionAgrees /\ NotchAgrees

\* Between two steps of a request that nobody crossed: a new notch has reached nobody,
\* or the card and not the contract; an approval has the pay of the card.
Underway(r) ==
    /\ r.op = "activate" => r.pay = card.pay /\ Agrees
    /\ r.op = "cards" =>
          /\ CardAgrees /\ DecisionAgrees /\ scalePay[r.scale] = r.pay
          /\ card.scale = r.scale \/ NotchAgrees
    /\ r.op = "contracts" =>
          IF card.scale = r.scale
          THEN card.pay = r.pay /\ decided = [pay |-> r.pay, notch |-> TRUE] /\ scalePay[r.scale] = r.pay
          ELSE Agrees

Uncrossed == staffMarks \cap {"crossed", "blank"} = {}
OthersRest(k) == \A other \in PayDesks \ {k} : payDesk[other] = AtRest

PayInv ==
    /\ PayTypes
    /\ Uncrossed =>
          /\ Settled => Agrees
          /\ \A k \in PayDesks : Mid(k) /\ OthersRest(k) => Underway(payDesk[k])

\* The staff pay starts with no contract and no request.
LEMMA PayInitInv == StaffInit => PayInv
BY StaffPayAssumption DEF StaffInit, PayInv, PayTypes, PayDeskType, Settled, Mid, AtRest, NoEdit, Agrees,
   CardAgrees, DecisionAgrees, NotchAgrees, Paid

-----------------------------------------------------------------------------
\* A notch confers its pay or gives way to the one that was typed.
LEMMA ConferredIs ==
    ASSUME PayTypes, NEW scale \in Scales \cup {NoScale}, NEW typed \in Pays \cup {0}
    PROVE  /\ Conferred(scale, typed) \in Nat
           /\ Conferred(scale, typed) # typed => scale \in Scales /\ Conferred(scale, typed) = scalePay[scale]
<1>1. typed \in Nat
  BY StaffPayAssumption
<1>2. scale \in Scales => scalePay[scale] \in Nat
  BY StaffPayAssumption DEF PayTypes
<1> QED
  BY <1>1, <1>2 DEF Conferred

\* Every step of the staff pay keeps the types.
LEMMA PayTypesStep == PayTypes /\ [StaffNext]_staffVars => PayTypes'
<1> SUFFICES ASSUME PayTypes, [StaffNext]_staffVars PROVE PayTypes'
  OBVIOUS
<1>0. PayTypes
  OBVIOUS
<1>1. CASE MoveRecord \/ OpenEdit \/ SettleEdit
  <2>1. CASE MoveRecord
    BY <2>1 DEF MoveRecord, PayTypes
  <2>2. CASE OpenEdit
    BY <2>2 DEF OpenEdit, PayTypes
  <2>3. CASE SettleEdit
    <3>1. edit' = NoEdit \/ edit' = [edit EXCEPT !.stage = "Approved"]
      BY <2>3 DEF SettleEdit
    <3>2. edit' \in [stage : {"None", "Open", "Approved"}, scale : Scales \cup {NoScale}, pay : Nat, typed : BOOLEAN]
      <4>1. NoEdit \in [stage : {"None", "Open", "Approved"}, scale : Scales \cup {NoScale}, pay : Nat, typed : BOOLEAN]
        BY DEF NoEdit
      <4>2. [edit EXCEPT !.stage = "Approved"]
               \in [stage : {"None", "Open", "Approved"}, scale : Scales \cup {NoScale}, pay : Nat, typed : BOOLEAN]
        BY DEF PayTypes
      <4> QED
        BY <3>1, <4>1, <4>2
    <3> QED
      BY <2>3, <3>2 DEF SettleEdit, PayTypes
  <2> QED
    BY <1>1, <2>1, <2>2, <2>3
<1>2. ASSUME NEW scale \in Scales \cup {NoScale}, NEW pay \in Pays, ChangeEdit(scale, pay) PROVE PayTypes'
  BY <1>2, StaffPayAssumption DEF ChangeEdit, PayTypes
<1>3. ASSUME NEW k \in PayDesks, NEW scale \in Scales \cup {NoScale}, NEW pay \in Pays \cup {0}, AskCard(k, scale, pay)
      PROVE  PayTypes'
  <2>1. [op |-> "card", scale |-> scale, pay |-> pay, before |-> card.scale] \in PayDeskType
    BY DEF PayDeskType, PayTypes
  <2> QED
    BY <1>3, <2>1 DEF AskCard, Goes, PayTypes
<1>4. ASSUME NEW k \in PayDesks, SaveCard(k) PROVE PayTypes'
  <2> DEFINE r == payDesk[k]
  <2>1. r \in [op : {"card", "confer"}, scale : Scales \cup {NoScale}, pay : Pays \cup {0}, before : Scales \cup {NoScale}]
    BY <1>4 DEF SaveCard, PayTypes, PayDeskType, AtRest
  <2>2. [r EXCEPT !.op = "confer"] \in PayDeskType /\ AtRest \in PayDeskType /\ r.pay \in Nat
    BY <2>1, StaffPayAssumption DEF PayDeskType
  <2>3. payDesk' \in [PayDesks -> PayDeskType]
    BY <1>4, <2>2 DEF SaveCard, Goes, Rests, PayTypes
  <2> QED
    BY <1>4, <2>1, <2>2, <2>3 DEF SaveCard, Synced, PayTypes
<1>5. ASSUME NEW k \in PayDesks, Confer(k) PROVE PayTypes'
  <2> DEFINE r == payDesk[k]
  <2>1. r.scale \in Scales \cup {NoScale} /\ r.pay \in Pays \cup {0}
    BY <1>5 DEF Confer, PayTypes, PayDeskType, AtRest
  <2>2. Conferred(r.scale, r.pay) \in Nat
    BY <1>0, <2>1, ConferredIs
  <2> QED
    BY <1>5, <2>1, <2>2 DEF Confer, Synced, PayTypes, PayDeskType, Goes, Rests
<1>6. ASSUME NEW k \in PayDesks, AskActivate(k) PROVE PayTypes'
  <2>1. [op |-> "activate", pay |-> card.pay] \in PayDeskType
    BY DEF PayDeskType, PayTypes
  <2> QED
    BY <1>6, <2>1 DEF AskActivate, Goes, PayTypes
<1>7. ASSUME NEW k \in PayDesks, Activate(k) PROVE PayTypes'
  <2>1. payDesk[k].pay \in Nat
    BY <1>7 DEF Activate, PayTypes, PayDeskType, AtRest
  <2> QED
    BY <1>7, <2>1 DEF Activate, PayTypes, PayDeskType, Goes, Rests
<1>8. ASSUME NEW k \in PayDesks, NEW pay \in Pays \cup {0}, ApproveContractChange(k, pay) PROVE PayTypes'
  BY <1>8, StaffPayAssumption DEF ApproveContractChange, PayTypes
<1>9. ASSUME NEW k \in PayDesks, ProcessEdit(k) PROVE PayTypes'
  BY <1>9 DEF ProcessEdit, Synced, PayTypes, NoEdit
<1>10. ASSUME NEW k \in PayDesks, NEW s \in Scales, NEW pay \in Pays, SaveScale(k, s, pay) PROVE PayTypes'
  <2>1. [op |-> "cards", scale |-> s, pay |-> pay] \in PayDeskType
    BY DEF PayDeskType
  <2> QED
    BY <1>10, <2>1 DEF SaveScale, Goes, PayTypes
<1>11. ASSUME NEW k \in PayDesks, ReachCards(k) PROVE PayTypes'
  <2> DEFINE r == payDesk[k]
  <2>1. r \in [op : {"cards", "contracts"}, scale : Scales, pay : Pays]
    BY <1>11 DEF ReachCards, PayTypes, PayDeskType, AtRest
  <2>2. [r EXCEPT !.op = "contracts"] \in PayDeskType /\ r.pay \in Nat
    BY <2>1, StaffPayAssumption DEF PayDeskType
  <2>3. card' \in [status : {"NEW", "PENDING_APPROVAL", "ACTIVE"}, scale : Scales \cup {NoScale}, pay : Nat]
    <3>1. card' = [card EXCEPT !.pay = r.pay] \/ card' = card
      BY <1>11 DEF ReachCards
    <3> HIDE DEF r
    <3> QED
      BY <2>2, <3>1 DEF PayTypes
  <2>4. decided' \in [pay : Nat, notch : BOOLEAN]
    <3>1. decided' = [pay |-> r.pay, notch |-> TRUE] \/ decided' = decided
      BY <1>11 DEF ReachCards
    <3>2. [pay |-> r.pay, notch |-> TRUE] \in [pay : Nat, notch : BOOLEAN]
      BY <2>2
    <3> QED
      BY <3>1, <3>2 DEF PayTypes
  <2>5. payDesk' \in [PayDesks -> PayDeskType]
    BY <1>11, <2>2 DEF ReachCards, Goes, PayTypes
  <2> QED
    BY <1>11, <2>3, <2>4, <2>5 DEF ReachCards, PayTypes
<1>12. ASSUME NEW k \in PayDesks, ReachContracts(k) PROVE PayTypes'
  <2>1. payDesk[k] \in [op : {"cards", "contracts"}, scale : Scales, pay : Pays]
    BY <1>12 DEF ReachContracts, PayTypes, PayDeskType, AtRest
  <2>2. payDesk[k].pay \in Nat
    BY <2>1, StaffPayAssumption
  <2> QED
    BY <1>12, <2>2 DEF ReachContracts, Synced, PayTypes, PayDeskType, Goes, Rests
<1>13. ASSUME NEW k \in PayDesks, AskReapply(k) PROVE PayTypes'
  <2>1. [op |-> "confer", scale |-> card.scale, pay |-> 0] \in PayDeskType
    BY DEF PayDeskType, PayTypes
  <2> QED
    BY <1>13, <2>1 DEF AskReapply, Goes, PayTypes
<1>14. CASE UNCHANGED staffVars
  BY <1>14 DEF staffVars, PayTypes
<1> QED
  BY <1>1, <1>2, <1>3, <1>4, <1>5, <1>6, <1>7, <1>8, <1>9, <1>10, <1>11, <1>12, <1>13, <1>14 DEF StaffNext

-----------------------------------------------------------------------------
\* Who writes while nobody is between two steps leaves no mark of a crossing.
LEMMA WroteAlone ==
    ASSUME NEW k \in PayDesks, NEW more, Wrote(k, more), Uncrossed'
    PROVE  /\ Uncrossed /\ OthersRest(k) /\ staffMarks' = staffMarks \cup more
BY DEF Wrote, Uncrossed, OthersRest, Mid

\* A request that begins: what it has looked up is what there is.
LEMMA PayAsks ==
    ASSUME PayInv, PayTypes', NEW k \in PayDesks, ~Mid(k), NEW step, step # AtRest, Goes(k, step),
           UNCHANGED <<card, contract, scalePay, edit, decided, staffMarks>>,
           Agrees => Underway(step)
    PROVE  PayInv'
<1>1. payDesk'[k] = step /\ \A j \in PayDesks \ {k} : payDesk'[j] = payDesk[j]
  BY DEF Goes, PayInv, PayTypes
<1>2. ~Settled'
  BY <1>1 DEF Settled, Mid
<1>3. (Agrees <=> Agrees') /\ \A r : Underway(r) <=> Underway(r)'
  BY DEF Agrees, CardAgrees, DecisionAgrees, NotchAgrees, Paid, Underway
<1>4. ASSUME Uncrossed', NEW j \in PayDesks, (Mid(j) /\ OthersRest(j))' PROVE Underway(payDesk[j])'
  <2>1. j = k
    BY <1>1, <1>4 DEF OthersRest
  <2>2. Settled /\ Uncrossed
    BY <1>1, <1>4, <2>1 DEF OthersRest, Settled, Mid, Uncrossed
  <2> QED
    BY <1>1, <1>3, <2>1, <2>2 DEF PayInv
<1> QED
  BY <1>2, <1>4 DEF PayInv

\* A request that ends leaves everything in agreement.
LEMMA PayEnds ==
    ASSUME PayInv, PayTypes', NEW k \in PayDesks, NEW more, Wrote(k, more),
           \A j \in PayDesks \ {k} : payDesk'[j] = payDesk[j], payDesk'[k] = AtRest,
           Uncrossed' /\ Uncrossed /\ OthersRest(k) /\ staffMarks' = staffMarks \cup more => Agrees'
    PROVE  PayInv'
<1>1. ASSUME Uncrossed' PROVE Agrees' /\ \A j \in PayDesks : ~Mid(j)'
  <2>1. Uncrossed /\ OthersRest(k) /\ staffMarks' = staffMarks \cup more
    BY <1>1, WroteAlone
  <2> QED
    BY <1>1, <2>1 DEF OthersRest, Mid
<1> QED
  BY <1>1 DEF PayInv

\* A request that goes on leaves what it knows.
LEMMA PayGoesOn ==
    ASSUME PayInv, PayTypes', NEW k \in PayDesks, NEW more, Wrote(k, more), NEW step, step # AtRest, Goes(k, step),
           Uncrossed' /\ Uncrossed /\ OthersRest(k) /\ staffMarks' = staffMarks \cup more => Underway(step)'
    PROVE  PayInv'
<1>1. payDesk'[k] = step /\ \A j \in PayDesks \ {k} : payDesk'[j] = payDesk[j]
  BY DEF Goes, PayInv, PayTypes
<1>2. ~Settled'
  BY <1>1 DEF Settled, Mid
<1>3. ASSUME Uncrossed' PROVE Underway(step)' /\ \A j \in PayDesks \ {k} : ~Mid(j)'
  <2>1. Uncrossed /\ OthersRest(k) /\ staffMarks' = staffMarks \cup more
    BY <1>3, WroteAlone
  <2> QED
    BY <1>1, <1>3, <2>1 DEF OthersRest, Mid
<1>4. ASSUME Uncrossed', NEW j \in PayDesks, Mid(j)' PROVE Underway(payDesk[j])'
  <2>1. j = k
    BY <1>3, <1>4
  <2> QED
    BY <1>1, <1>3, <1>4, <2>1
<1> QED
  BY <1>2, <1>4 DEF PayInv

\* Every step of the staff pay keeps its invariant.
LEMMA PayStepInv == PayInv /\ [StaffNext]_staffVars => PayInv'
<1> SUFFICES ASSUME PayInv, [StaffNext]_staffVars PROVE PayInv'
  OBVIOUS
<1> USE DEF AtRest
<1>0. PayTypes /\ PayTypes'
  BY PayTypesStep DEF PayInv
<1>1. CASE MoveRecord \/ OpenEdit \/ SettleEdit \/ UNCHANGED staffVars
      \/ \E scale \in Scales \cup {NoScale}, pay \in Pays : ChangeEdit(scale, pay)
  <2>1. card'.pay = card.pay /\ card'.scale = card.scale /\ UNCHANGED <<contract, scalePay, payDesk, decided, staffMarks>>
    BY <1>0, <1>1 DEF MoveRecord, OpenEdit, SettleEdit, ChangeEdit, staffVars, PayTypes
  <2>2. (Agrees <=> Agrees') /\ \A r : Underway(r) <=> Underway(r)'
    BY <2>1 DEF Agrees, CardAgrees, DecisionAgrees, NotchAgrees, Paid, Underway
  <2> QED
    BY <1>0, <2>1, <2>2 DEF PayInv, Settled, Mid, OthersRest, Uncrossed
<1>3. ASSUME NEW k \in PayDesks, NEW scale \in Scales \cup {NoScale}, NEW pay \in Pays \cup {0}, AskCard(k, scale, pay)
      PROVE  PayInv'
  BY <1>0, <1>3, PayAsks DEF AskCard, Underway
<1>4. ASSUME NEW k \in PayDesks, SaveCard(k) PROVE PayInv'
  <2> DEFINE r == payDesk[k]
  <2>1. r.pay \in Nat
    BY <1>4, <1>0, StaffPayAssumption DEF SaveCard, PayTypes, PayDeskType
  <2>2. Agrees'
    BY <1>0, <1>4, <2>1, StaffPayAssumption DEF SaveCard, Synced, PayTypes, Agrees, CardAgrees, DecisionAgrees, NotchAgrees, Paid
  <2>3. CASE r.scale = r.before
    BY <1>0, <1>4, <2>2, <2>3, PayEnds DEF SaveCard, Rests, Goes, PayTypes
  <2>4. CASE r.scale # r.before
    <3>0. PICK step : step = [r EXCEPT !.op = "confer"]
      OBVIOUS
    <3>1. step.op = "confer" /\ step # AtRest
      BY <1>0, <1>4, <3>0 DEF SaveCard, PayTypes, PayDeskType
    <3>2. Goes(k, step) /\ Wrote(k, {})
      BY <1>4, <2>4, <3>0 DEF SaveCard
    <3>3. Underway(step)'
      BY <3>1 DEF Underway
    <3> QED
      BY <1>0, <3>1, <3>2, <3>3, PayGoesOn
  <2> QED
    BY <2>3, <2>4
<1>5. ASSUME NEW k \in PayDesks, Confer(k) PROVE PayInv'
  <2> DEFINE r == payDesk[k]
  <2>1. r.scale \in Scales \cup {NoScale} /\ r.pay \in Pays \cup {0}
    BY <1>0, <1>5 DEF Confer, PayTypes, PayDeskType
  <2>2. PICK pay : pay = Conferred(r.scale, r.pay)
    OBVIOUS
  <2>3. pay \in Nat /\ (pay # r.pay => r.scale \in Scales /\ pay = scalePay[r.scale])
    BY <1>0, <2>1, <2>2, ConferredIs
  <2>4. /\ card' = [card EXCEPT !.scale = r.scale, !.pay = pay] /\ contract' = Synced(pay)
        /\ decided' = [pay |-> pay, notch |-> pay # r.pay] /\ scalePay' = scalePay
    BY <1>5, <2>2 DEF Confer
  <2>5. Paid' = pay /\ card'.pay = pay /\ card'.scale = r.scale
    BY <1>0, <2>3, <2>4, StaffPayAssumption DEF Synced, Paid, PayTypes
  <2>6. Agrees'
    BY <2>3, <2>4, <2>5 DEF Agrees, CardAgrees, DecisionAgrees, NotchAgrees
  <2> QED
    BY <1>0, <1>5, <2>6, PayEnds DEF Confer, Rests, Goes, PayTypes
<1>6. ASSUME NEW k \in PayDesks, AskActivate(k) PROVE PayInv'
  BY <1>0, <1>6, PayAsks DEF AskActivate, Underway
<1>7. ASSUME NEW k \in PayDesks, Activate(k) PROVE PayInv'
  <2>1. ASSUME Uncrossed, OthersRest(k), staffMarks' = staffMarks \cup {} PROVE Agrees'
    <3>1. Underway(payDesk[k]) /\ payDesk[k].op = "activate"
      BY <1>7, <2>1 DEF PayInv, Mid, Activate
    <3>2. payDesk[k].pay = card.pay /\ Agrees
      BY <3>1 DEF Underway
    <3>3. Paid' = Paid /\ card'.pay = card.pay /\ card'.scale = card.scale /\ UNCHANGED <<scalePay, decided, staffMarks>>
      BY <1>0, <1>7, <2>1, <3>2, StaffPayAssumption DEF Activate, Paid, PayTypes
    <3> QED
      BY <3>2, <3>3 DEF Agrees, CardAgrees, DecisionAgrees, NotchAgrees
  <2> QED
    BY <1>0, <1>7, <2>1, PayEnds DEF Activate, Rests, Goes, PayTypes
<1>8. ASSUME NEW k \in PayDesks, NEW pay \in Pays \cup {0}, ApproveContractChange(k, pay) PROVE PayInv'
  <2> DEFINE more == (IF pay # card.pay THEN {"raised"} ELSE {}) \cup (IF pay = 0 THEN {"blank"} ELSE {})
  <2>1. ASSUME Uncrossed', Uncrossed, OthersRest(k), staffMarks' = staffMarks \cup more PROVE Agrees'
    <3>1. pay # 0 /\ pay \in Nat
      BY <2>1, StaffPayAssumption DEF Uncrossed
    <3>2. Paid' = pay /\ decided' = [pay |-> pay, notch |-> FALSE] /\ card' = card
      BY <1>8, <3>1, StaffPayAssumption DEF ApproveContractChange, Paid
    <3> QED
      BY <2>1, <3>1, <3>2 DEF Agrees, CardAgrees, DecisionAgrees, NotchAgrees
  <2>2. Wrote(k, more) /\ payDesk' = payDesk /\ payDesk[k] = AtRest
    BY <1>8 DEF ApproveContractChange, Mid
  <2> QED
    BY <1>0, <2>1, <2>2, PayEnds
<1>9. ASSUME NEW k \in PayDesks, ProcessEdit(k) PROVE PayInv'
  <2> DEFINE more == IF ~edit.typed /\ (edit.pay # decided.pay \/ edit.scale # card.scale) THEN {"undone"} ELSE {}
  <2>1. ASSUME Uncrossed', Uncrossed, OthersRest(k), staffMarks' = staffMarks \cup more PROVE Agrees'
    <3>1. Agrees
      BY <1>9, <2>1 DEF ProcessEdit, PayInv, Settled, OthersRest, Mid
    <3>2. Paid' = edit.pay /\ card'.pay = edit.pay /\ card'.scale = edit.scale /\ scalePay' = scalePay
      BY <1>0, <1>9, StaffPayAssumption DEF ProcessEdit, Synced, Paid, PayTypes
    <3>3. CASE edit.typed
      BY <1>9, <3>2, <3>3 DEF ProcessEdit, Agrees, CardAgrees, DecisionAgrees, NotchAgrees
    <3>4. CASE ~edit.typed
      <4>1. decided' = decided /\ ("undone" \notin staffMarks' =>
               "undone" \notin staffMarks /\ edit.pay = decided.pay /\ edit.scale = card.scale)
        BY <1>9, <2>1, <3>4 DEF ProcessEdit
      <4> QED
        BY <3>1, <3>2, <4>1 DEF Agrees, CardAgrees, DecisionAgrees, NotchAgrees
    <3> QED
      BY <3>3, <3>4
  <2>2. Wrote(k, more) /\ payDesk' = payDesk /\ payDesk[k] = AtRest
    BY <1>9 DEF ProcessEdit, Mid
  <2> QED
    BY <1>0, <2>1, <2>2, PayEnds
<1>10. ASSUME NEW k \in PayDesks, NEW s \in Scales, NEW pay \in Pays, SaveScale(k, s, pay) PROVE PayInv'
  <2> DEFINE step == [op |-> "cards", scale |-> s, pay |-> pay]
  <2>1. Goes(k, step) /\ Wrote(k, {}) /\ step # AtRest
    BY <1>10 DEF SaveScale
  <2>2. ASSUME Uncrossed, OthersRest(k), staffMarks' = staffMarks \cup {} PROVE Underway(step)'
    <3>1. Agrees
      BY <1>10, <2>2 DEF SaveScale, PayInv, Settled, OthersRest, Mid
    <3>2. UNCHANGED <<card, contract, decided, staffMarks>> /\ scalePay' = [scalePay EXCEPT ![s] = pay]
      BY <1>10, <2>2 DEF SaveScale
    <3>3. scalePay'[s] = pay /\ \A x \in Scales : x # s => scalePay'[x] = scalePay[x]
      BY <1>0, <3>2 DEF PayTypes
    <3>4. CardAgrees' /\ DecisionAgrees' /\ (card'.scale = s \/ NotchAgrees')
      BY <3>1, <3>2, <3>3 DEF Agrees, CardAgrees, DecisionAgrees, NotchAgrees, Paid
    <3> QED
      BY <3>3, <3>4 DEF Underway
  <2> HIDE DEF step
  <2> QED
    BY <1>0, <2>1, <2>2, PayGoesOn
<1>11. ASSUME NEW k \in PayDesks, ReachCards(k) PROVE PayInv'
  <2>r. PICK r : r = payDesk[k]
    OBVIOUS
  <2>s. PICK step : step = [r EXCEPT !.op = "contracts"]
    OBVIOUS
  <2>0. r \in [op : {"cards", "contracts"}, scale : Scales, pay : Pays]
    BY <1>11, <1>0, <2>r DEF ReachCards, PayTypes, PayDeskType
  <2>1. Goes(k, step) /\ Wrote(k, {}) /\ step # AtRest /\ step.op = "contracts" /\ step.scale = r.scale /\ step.pay = r.pay
    BY <1>11, <2>0, <2>r, <2>s DEF ReachCards
  <2>2. ASSUME Uncrossed, OthersRest(k), staffMarks' = staffMarks \cup {} PROVE Underway(step)'
    <3>1. Underway(r) /\ r.op = "cards"
      BY <1>11, <2>2, <2>r DEF PayInv, Mid, ReachCards
    <3>2. CardAgrees /\ DecisionAgrees /\ scalePay[r.scale] = r.pay /\ (card.scale = r.scale \/ NotchAgrees)
      BY <3>1 DEF Underway
    <3>3. CASE card.scale = r.scale
      <4>1. card' = [card EXCEPT !.pay = r.pay] /\ decided' = [pay |-> r.pay, notch |-> TRUE] /\ scalePay' = scalePay
        BY <1>11, <2>r, <3>3 DEF ReachCards
      <4>2. card'.pay = r.pay /\ card'.scale = r.scale
        BY <1>0, <3>3, <4>1 DEF PayTypes
      <4> QED
        BY <2>1, <3>2, <4>1, <4>2 DEF Underway
    <3>4. CASE card.scale # r.scale
      <4>1. UNCHANGED <<card, contract, scalePay, decided, staffMarks>>
        BY <1>11, <2>2, <2>r, <3>4 DEF ReachCards
      <4>2. Agrees'
        BY <3>2, <3>4, <4>1 DEF Agrees, CardAgrees, DecisionAgrees, NotchAgrees, Paid
      <4> QED
        BY <2>1, <3>4, <4>1, <4>2 DEF Underway
    <3> QED
      BY <3>3, <3>4
  <2> QED
    BY <1>0, <2>1, <2>2, PayGoesOn
<1>12. ASSUME NEW k \in PayDesks, ReachContracts(k) PROVE PayInv'
  <2> DEFINE r == payDesk[k]
  <2>0. r \in [op : {"cards", "contracts"}, scale : Scales, pay : Pays] /\ r.pay \in Nat
    <3>1. r \in [op : {"cards", "contracts"}, scale : Scales, pay : Pays]
      BY <1>12, <1>0 DEF ReachContracts, PayTypes, PayDeskType
    <3> QED
      BY <3>1, StaffPayAssumption
  <2>1. ASSUME Uncrossed, OthersRest(k), staffMarks' = staffMarks \cup {} PROVE Agrees'
    <3>1. Underway(r) /\ r.op = "contracts"
      BY <1>12, <2>1 DEF PayInv, Mid, ReachContracts
    <3>2. UNCHANGED <<card, scalePay, decided, staffMarks>>
      BY <1>12, <2>1 DEF ReachContracts
    <3>3. CASE card.scale = r.scale
      <4>1. card.pay = r.pay /\ decided = [pay |-> r.pay, notch |-> TRUE] /\ scalePay[r.scale] = r.pay
        BY <3>1, <3>3 DEF Underway
      <4>2. contract' = Synced(r.pay)
        BY <1>12, <3>3 DEF ReachContracts
      <4>3. Paid' = r.pay
        BY <2>0, <3>2, <4>1, <4>2, StaffPayAssumption DEF Paid, Synced
      <4> QED
        BY <2>0, <3>2, <3>3, <4>1, <4>3 DEF Agrees, CardAgrees, DecisionAgrees, NotchAgrees
    <3>4. CASE card.scale # r.scale
      <4>1. Agrees
        BY <3>1, <3>4 DEF Underway
      <4>2. contract' = contract
        BY <1>12, <3>4 DEF ReachContracts
      <4> QED
        BY <3>2, <4>1, <4>2 DEF Agrees, CardAgrees, DecisionAgrees, NotchAgrees, Paid
    <3> QED
      BY <3>3, <3>4
  <2> QED
    BY <1>0, <1>12, <2>1, PayEnds DEF ReachContracts, Rests, Goes, PayTypes
<1>13. ASSUME NEW k \in PayDesks, AskReapply(k) PROVE PayInv'
  BY <1>0, <1>13, PayAsks DEF AskReapply, Underway
<1> QED
  BY <1>1, <1>3, <1>4, <1>5, <1>6, <1>7, <1>8, <1>9, <1>10, <1>11, <1>12, <1>13 DEF StaffNext

\* The invariant is at least the property.
LEMMA PayIsSound == PayInv => PaySound
BY DEF PayInv, PaySound, Free, Uncrossed, Agrees, CardAgrees, DecisionAgrees, NotchAgrees, Paid

-----------------------------------------------------------------------------
(* ReportCards: marks with their labels, the card as it was shown.          *)

CardsInv ==
    /\ report.published \in BOOLEAN /\ DOMAIN marks = Exams
    /\ CardsSound

\* The report cards start without marks.
LEMMA CardsInitInv == ReportInit => CardsInv
BY DEF ReportInit, CardsInv, CardsSound, NoReport

\* Saving and publishing write the card and note who published it first.
LEMMA UpsertKeeps ==
    ASSUME CardsInv, NEW k \in Markers, NEW text, NEW publish \in BOOLEAN,
           Upsert(text, publish, k), FirstOut(publish, k)
    PROVE  /\ report'.published \in BOOLEAN /\ report'.text = text
           /\ report'.published <=> firstOut' # NoText
           /\ report'.published => report'.by = firstOut'
BY ReportAssumption DEF CardsInv, CardsSound, Upsert, PublishedOnce, FirstOut

\* Every step of the report cards keeps their invariant.
LEMMA CardsStep == CardsInv /\ [ReportNext]_reportVars => CardsInv'
<1> SUFFICES ASSUME CardsInv, [ReportNext]_reportVars PROVE CardsInv'
  OBVIOUS
<1>1. ASSUME NEW k \in Markers, ReadScale(k) \/ ReadReport(k) PROVE CardsInv'
  BY <1>1 DEF ReadScale, ReadReport, CardsInv, CardsSound, Band
<1>2. ASSUME NEW k \in Markers, PublishClass(k) PROVE CardsInv'
  <2>1. /\ report'.published \in BOOLEAN /\ report'.text = marker[k][2]
        /\ report'.published <=> firstOut' # NoText
        /\ report'.published => report'.by = firstOut'
    BY <1>2, UpsertKeeps DEF PublishClass
  <2>2. "behind" \notin cardMarks' => report'.text = said'
    BY <1>2, <2>1 DEF PublishClass, CardsInv, CardsSound
  <2> QED
    BY <1>2, <2>1, <2>2 DEF PublishClass, CardsInv, CardsSound, Band
<1>3. ASSUME NEW k \in Markers, NEW e \in Exams, NEW score \in Scores \cup {NoMark}, EnterMark(k, e, score)
      PROVE  CardsInv'
  <2>1. /\ DOMAIN marks' = Exams
        /\ \A x \in Exams : x # e => marks'[x] = marks[x]
        /\ marks'[e] # NoMark => /\ score # NoMark
                                 /\ marks'[e].label = Band(score, marker[k][2])
                                 /\ marks'[e].score = score /\ marks'[e].under = passLevel
    BY <1>3 DEF EnterMark, CardsInv
  <2>2. ASSUME "stale" \notin cardMarks', NEW x \in Exams, marks'[x] # NoMark
        PROVE  marks'[x].label = Band(marks'[x].score, marks'[x].under)
    BY <1>3, <2>1, <2>2 DEF EnterMark, CardsInv, CardsSound, Band
  <2> QED
    BY <1>3, <2>1, <2>2 DEF EnterMark, CardsInv, CardsSound, Band
<1>4. ASSUME NEW k \in Markers, NEW text, NEW publish \in BOOLEAN, SaveReport(k, text, publish) PROVE CardsInv'
  <2>1. /\ report'.published \in BOOLEAN /\ report'.text = text
        /\ report'.published <=> firstOut' # NoText
        /\ report'.published => report'.by = firstOut'
    BY <1>4, UpsertKeeps DEF SaveReport
  <2> QED
    BY <1>4, <2>1 DEF SaveReport, CardsInv, CardsSound, Band
<1>5. ASSUME NEW level, SaveBands(level) PROVE CardsInv'
  BY <1>5 DEF SaveBands, CardsInv, CardsSound, Band
<1>6. CASE UNCHANGED reportVars
  BY <1>6 DEF reportVars, CardsInv, CardsSound, Band
<1> QED
  BY <1>1, <1>2, <1>3, <1>4, <1>5, <1>6 DEF ReportNext

-----------------------------------------------------------------------------
(* SchoolCalendar: years and terms, the current ones, and what refers to    *)
(* them.                                                                    *)

RegistrarType ==
    {NoRequestYet}
    \cup {[op |-> "save", year |-> y, current |-> c, rows |-> r, flagged |-> f] :
            y \in Years, c \in BOOLEAN, r \in SUBSET YearTerms, f \in SUBSET YearTerms}
    \cup [op : {"current"}, term : YearTerms] \cup [op : {"delete"}, year : Years]

\* What a request that has looked still knows when it writes, as nobody wrote since.
Knows(r) ==
    /\ r.op = "save" => termUsed \cap (TermsOf(r.year) \cap terms) \subseteq r.rows
    /\ r.op = "current" => r.term \in terms
    /\ r.op = "delete" => r.year \notin yearUsed

Tidy(r) == r.op = "save" => r.rows \subseteq TermsOf(r.year) /\ r.flagged \subseteq r.rows

OneYear == \A y, z \in currentYears : y = z
OneTerm == (\A s, t \in currentTerms : s = t) /\ \A t \in currentTerms : YearOf[t] \in currentYears
NothingLost == yearUsed \subseteq years /\ termUsed \subseteq terms

CalendarInv ==
    /\ years \subseteq Years /\ terms \subseteq YearTerms
    /\ currentYears \subseteq Years /\ currentTerms \subseteq YearTerms
    /\ registrar \in [Registrars -> RegistrarType]
    /\ \A k \in Registrars : Tidy(registrar[k])
    /\ \A t \in terms : YearOf[t] \in years
    /\ "together" \notin calMarks =>
          /\ \A k \in Registrars : Knows(registrar[k])
          /\ OneYear
          /\ {"elsewhere", "kept"} \cap calMarks = {} => OneTerm
          /\ "swept" \notin calMarks => NothingLost

\* The calendar starts without years or terms.
LEMMA CalendarInitInv == CalendarInit => CalendarInv
BY DEF CalendarInit, CalendarInv, RegistrarType, Tidy, Knows, NoRequestYet, OneYear, OneTerm, NothingLost

\* Of some terms of a year the first is one term.
LEMMA FirstIsOne ==
    ASSUME NEW y, NEW ts \in SUBSET TermsOf(y), NEW s \in FirstOf(ts), NEW t \in FirstOf(ts)
    PROVE  s = t
BY CalendarAssumption DEF FirstOf, TermsOf

\* Whoever looks changes nothing and learns what holds.
LEMMA LooksStep ==
    ASSUME CalendarInv, NEW k \in Registrars, NEW r \in RegistrarType, Tidy(r),
           Knows(r), registrar' = [registrar EXCEPT ![k] = r],
           UNCHANGED <<years, terms, currentYears, currentTerms, yearUsed, termUsed, calMarks>>
    PROVE  CalendarInv'
BY DEF CalendarInv, Knows, Tidy, OneYear, OneTerm, NothingLost, TermsOf

\* Whoever writes was the only one under way, unless it is marked.
LEMMA AloneKnows ==
    ASSUME CalendarInv, NEW k \in Registrars, registrar' = [registrar EXCEPT ![k] = NoRequestYet],
           "together" \notin calMarks', calMarks \subseteq calMarks', Together(k) \subseteq calMarks'
    PROVE  /\ \A j \in Registrars : registrar'[j] = NoRequestYet
           /\ Knows(registrar[k]) /\ OneYear
           /\ {"elsewhere", "kept"} \cap calMarks' = {} => OneTerm
           /\ "swept" \notin calMarks' => NothingLost
<1>1. "together" \notin calMarks /\ Waiting \ {k} = {}
  BY DEF Together, Noticed
<1>2. \A j \in Registrars : registrar'[j] = NoRequestYet
  BY <1>1 DEF Waiting, CalendarInv
<1> QED
  BY <1>1, <1>2 DEF CalendarInv

\* A registrar who asked for nothing has read nothing that could be stale.
LEMMA IdleKnows == Knows(NoRequestYet) /\ Tidy(NoRequestYet) /\ NoRequestYet \in RegistrarType
BY DEF Knows, Tidy, NoRequestYet, RegistrarType

\* A year saved with its terms keeps the calendar.
LEMMA SaveYearStep == ASSUME CalendarInv, NEW k \in Registrars, SaveYear(k) PROVE CalendarInv'
<1> DEFINE r == registrar[k]
           first == FirstOf(r.flagged)
<1>1. /\ r.op = "save" /\ r.year \in Years /\ r.current \in BOOLEAN
      /\ r.rows \subseteq TermsOf(r.year) /\ r.flagged \subseteq r.rows
      /\ TermsOf(r.year) \subseteq YearTerms
  <2>1. r \in RegistrarType /\ r.op = "save" /\ Tidy(r)
    BY DEF SaveYear, CalendarInv
  <2>2. r.year \in Years /\ r.current \in BOOLEAN
    BY <2>1 DEF RegistrarType, NoRequestYet
  <2> QED
    BY <2>1, <2>2 DEF Tidy, TermsOf
<1>2. first \subseteq r.rows
  BY <1>1 DEF FirstOf
<1>3. /\ years' = years \cup {r.year} /\ terms' = (terms \ TermsOf(r.year)) \cup r.rows
      /\ currentYears' = IF r.current THEN {r.year} ELSE currentYears \ {r.year}
      /\ currentTerms' = first \cup
            (IF r.current /\ first # {} THEN {} ELSE currentTerms \ TermsOf(r.year))
      /\ calMarks' = calMarks \cup Together(k)
            \cup Noticed(~r.current /\ first # {}, "elsewhere")
            \cup Noticed(r.current /\ first = {} /\ currentTerms \ TermsOf(r.year) # {}, "kept")
      /\ registrar' = [registrar EXCEPT ![k] = NoRequestYet]
      /\ UNCHANGED <<yearUsed, termUsed>>
  BY DEF SaveYear
<1>4. /\ years' \subseteq Years /\ terms' \subseteq YearTerms
      /\ currentYears' \subseteq Years /\ currentTerms' \subseteq YearTerms
      /\ \A t \in terms' : YearOf[t] \in years'
  BY <1>1, <1>2, <1>3 DEF CalendarInv, TermsOf
<1>5. registrar' \in [Registrars -> RegistrarType] /\ \A j \in Registrars : Tidy(registrar'[j])
  BY <1>3, IdleKnows DEF CalendarInv
<1>6. ASSUME "together" \notin calMarks'
      PROVE  /\ \A j \in Registrars : Knows(registrar[j])'
             /\ OneYear'
             /\ ({"elsewhere", "kept"} \cap calMarks = {})' => OneTerm'
             /\ ("swept" \notin calMarks)' => NothingLost'
  <2>1. /\ \A j \in Registrars : registrar'[j] = NoRequestYet
        /\ Knows(r) /\ OneYear
        /\ {"elsewhere", "kept"} \cap calMarks' = {} => OneTerm
        /\ "swept" \notin calMarks' => NothingLost
    BY <1>3, <1>6, AloneKnows
  <2>2. \A j \in Registrars : Knows(registrar[j])'
    BY <2>1 DEF Knows, NoRequestYet
  <2>3. OneYear'
    BY <1>3, <2>1 DEF OneYear
  <2>4. ASSUME ({"elsewhere", "kept"} \cap calMarks)' = {} PROVE OneTerm'
    <3>1. OneTerm /\ (~r.current => first = {})
          /\ (r.current /\ first = {} => currentTerms \ TermsOf(r.year) = {})
      BY <1>3, <2>1, <2>4 DEF Noticed
    <3>2. CASE first = {}
      BY <1>1, <1>3, <3>1, <3>2 DEF CalendarInv, OneTerm, TermsOf
    <3>3. CASE first # {}
      <4>1. currentTerms' = first /\ currentYears' = {r.year}
        BY <1>3, <3>1, <3>3
      <4>2. \A s, t \in first : s = t
        BY <1>1, FirstIsOne
      <4>3. \A t \in first : YearOf[t] = r.year
        BY <1>1, <1>2 DEF TermsOf
      <4> QED
        BY <4>1, <4>2, <4>3 DEF OneTerm
    <3> QED
      BY <3>2, <3>3
  <2>5. ("swept" \notin calMarks)' => NothingLost'
    BY <1>1, <1>3, <2>1 DEF NothingLost, Knows
  <2> QED
    BY <2>2, <2>3, <2>4, <2>5
<1> QED
  BY <1>4, <1>5, <1>6 DEF CalendarInv

\* Naming the current year or term keeps the calendar.
LEMMA SetCurrentStep == ASSUME CalendarInv, NEW k \in Registrars, SetCurrent(k) PROVE CalendarInv'
<1> DEFINE r == registrar[k]
<1>1. r.op = "current" /\ r.term \in YearTerms
  <2>1. r \in RegistrarType /\ r.op = "current"
    BY DEF SetCurrent, CalendarInv
  <2> QED
    BY <2>1 DEF RegistrarType, NoRequestYet
<1>2. /\ currentYears' = {YearOf[r.term]} \cap years /\ currentTerms' = {r.term} \cap terms
      /\ calMarks' = calMarks \cup Together(k)
      /\ registrar' = [registrar EXCEPT ![k] = NoRequestYet]
      /\ UNCHANGED <<years, terms, yearUsed, termUsed>>
  BY DEF SetCurrent
<1>3. /\ (years \subseteq Years)' /\ (terms \subseteq YearTerms)' /\ (currentYears \subseteq Years)' /\ (currentTerms \subseteq YearTerms)'
      /\ (\A t \in terms : YearOf[t] \in years)'
      /\ (registrar \in [Registrars -> RegistrarType])' /\ (\A j \in Registrars : Tidy(registrar[j]))'
  BY <1>2, IdleKnows DEF CalendarInv
<1>4. ASSUME "together" \notin calMarks'
      PROVE  /\ \A j \in Registrars : Knows(registrar[j])'
             /\ OneYear'
             /\ ({"elsewhere", "kept"} \cap calMarks = {})' => OneTerm'
             /\ ("swept" \notin calMarks)' => NothingLost'
  <2>1. /\ \A j \in Registrars : registrar'[j] = NoRequestYet
        /\ Knows(r) /\ OneYear
        /\ {"elsewhere", "kept"} \cap calMarks' = {} => OneTerm
        /\ "swept" \notin calMarks' => NothingLost
    BY <1>2, <1>4, AloneKnows
  <2>2. \A j \in Registrars : Knows(registrar[j])'
    BY <2>1 DEF Knows, NoRequestYet
  <2>3. r.term \in terms /\ YearOf[r.term] \in years
    BY <1>1, <2>1 DEF Knows, CalendarInv
  <2>4. OneYear' /\ OneTerm'
    BY <1>2, <2>3 DEF OneYear, OneTerm
  <2> QED
    BY <1>2, <2>1, <2>2, <2>4 DEF NothingLost
<1> QED
  BY <1>3, <1>4 DEF CalendarInv

\* A deleted year was in no use.
LEMMA DeleteYearStep == ASSUME CalendarInv, NEW k \in Registrars, DeleteYear(k) PROVE CalendarInv'
<1> DEFINE r == registrar[k]
<1>1. r.op = "delete"
  BY DEF DeleteYear
<1>2. /\ years' = years \ {r.year} /\ currentYears' = currentYears \ {r.year}
      /\ terms' = terms \ TermsOf(r.year) /\ currentTerms' = currentTerms \ TermsOf(r.year)
      /\ calMarks' = calMarks \cup Together(k) \cup Noticed(termUsed \cap TermsOf(r.year) # {}, "swept")
      /\ registrar' = [registrar EXCEPT ![k] = NoRequestYet]
      /\ UNCHANGED <<yearUsed, termUsed>>
  BY DEF DeleteYear
<1>3. /\ (years \subseteq Years)' /\ (terms \subseteq YearTerms)' /\ (currentYears \subseteq Years)' /\ (currentTerms \subseteq YearTerms)'
      /\ (\A t \in terms : YearOf[t] \in years)'
      /\ (registrar \in [Registrars -> RegistrarType])' /\ (\A j \in Registrars : Tidy(registrar[j]))'
  BY <1>2, IdleKnows DEF CalendarInv, TermsOf
<1>4. ASSUME "together" \notin calMarks'
      PROVE  /\ \A j \in Registrars : Knows(registrar[j])'
             /\ OneYear'
             /\ ({"elsewhere", "kept"} \cap calMarks = {})' => OneTerm'
             /\ ("swept" \notin calMarks)' => NothingLost'
  <2>1. /\ \A j \in Registrars : registrar'[j] = NoRequestYet
        /\ Knows(r) /\ OneYear
        /\ {"elsewhere", "kept"} \cap calMarks' = {} => OneTerm
        /\ "swept" \notin calMarks' => NothingLost
    BY <1>2, <1>4, AloneKnows
  <2>2. \A j \in Registrars : Knows(registrar[j])'
    BY <2>1 DEF Knows, NoRequestYet
  <2>3. OneYear'
    BY <1>2, <2>1 DEF OneYear
  <2>4. OneTerm => OneTerm'
    BY <1>2 DEF CalendarInv, OneTerm, TermsOf
  <2>5. ("swept" \notin calMarks)' => NothingLost'
    BY <1>1, <1>2, <2>1 DEF NothingLost, Knows, Noticed
  <2> QED
    BY <2>1, <2>2, <2>3, <2>4, <2>5
<1> QED
  BY <1>3, <1>4 DEF CalendarInv

\* A reference is made to a year or a term there is.
LEMMA ReferStep == ASSUME CalendarInv, Refer PROVE CalendarInv'
<1>1. /\ (years \subseteq Years)' /\ (terms \subseteq YearTerms)' /\ (currentYears \subseteq Years)' /\ (currentTerms \subseteq YearTerms)'
      /\ (\A t \in terms : YearOf[t] \in years)'
      /\ (registrar \in [Registrars -> RegistrarType])' /\ (\A j \in Registrars : Tidy(registrar[j]))'
  BY DEF Refer, CalendarInv, Tidy, TermsOf
<1>2. ASSUME "together" \notin calMarks'
      PROVE  /\ \A j \in Registrars : Knows(registrar[j])'
             /\ OneYear'
             /\ ({"elsewhere", "kept"} \cap calMarks = {})' => OneTerm'
             /\ ("swept" \notin calMarks)' => NothingLost'
  <2>1. calMarks' = calMarks /\ Waiting = {}
    BY <1>2 DEF Refer, Noticed
  <2>2. \A j \in Registrars : registrar'[j] = NoRequestYet
    BY <2>1 DEF Refer, Waiting, CalendarInv
  <2>3. \A j \in Registrars : Knows(registrar[j])'
    BY <2>2 DEF Knows, NoRequestYet
  <2> QED
    BY <1>2, <2>1, <2>3 DEF Refer, CalendarInv, OneYear, OneTerm, NothingLost
<1> QED
  BY <1>1, <1>2 DEF CalendarInv

\* Every step of the calendar keeps its invariant.
LEMMA CalendarStepInv == CalendarInv /\ [CalendarNext]_calendarVars => CalendarInv'
<1> SUFFICES ASSUME CalendarInv, [CalendarNext]_calendarVars PROVE CalendarInv'
  OBVIOUS
<1>1. ASSUME NEW k \in Registrars, NEW y \in Years, NEW current \in BOOLEAN, NEW rows \in SUBSET TermsOf(y),
             NEW flagged \in SUBSET rows, AskSave(k, y, current, rows, flagged)
      PROVE  CalendarInv'
  <2> DEFINE r == [op |-> "save", year |-> y, current |-> current, rows |-> rows, flagged |-> flagged]
  <2>1. r \in RegistrarType
    <3>1. rows \in SUBSET YearTerms /\ flagged \in SUBSET YearTerms
      BY DEF TermsOf
    <3> QED
      BY <3>1 DEF RegistrarType
  <2>2. Tidy(r) /\ Knows(r)
    BY <1>1 DEF Tidy, Knows, AskSave
  <2> HIDE DEF r
  <2>3. registrar' = [registrar EXCEPT ![k] = r] /\ UNCHANGED <<years, terms, currentYears, currentTerms, yearUsed, termUsed, calMarks>>
    BY <1>1 DEF AskSave, r
  <2> QED
    BY <2>1, <2>2, <2>3, LooksStep
<1>2. ASSUME NEW k \in Registrars, NEW t \in YearTerms, AskCurrent(k, t) PROVE CalendarInv'
  <2> DEFINE r == [op |-> "current", term |-> t]
  <2>1. r \in RegistrarType /\ Tidy(r) /\ Knows(r)
    BY <1>2 DEF Tidy, Knows, AskCurrent, RegistrarType
  <2> HIDE DEF r
  <2>2. registrar' = [registrar EXCEPT ![k] = r] /\ UNCHANGED <<years, terms, currentYears, currentTerms, yearUsed, termUsed, calMarks>>
    BY <1>2 DEF AskCurrent, r
  <2> QED
    BY <2>1, <2>2, LooksStep
<1>3. ASSUME NEW k \in Registrars, NEW y \in Years, AskDelete(k, y) PROVE CalendarInv'
  <2> DEFINE r == [op |-> "delete", year |-> y]
  <2>1. r \in RegistrarType /\ Tidy(r) /\ Knows(r)
    BY <1>3 DEF Tidy, Knows, AskDelete, RegistrarType
  <2> HIDE DEF r
  <2>2. registrar' = [registrar EXCEPT ![k] = r] /\ UNCHANGED <<years, terms, currentYears, currentTerms, yearUsed, termUsed, calMarks>>
    BY <1>3 DEF AskDelete, r
  <2> QED
    BY <2>1, <2>2, LooksStep
<1>4. CASE UNCHANGED calendarVars
  BY <1>4 DEF calendarVars, CalendarInv, Knows, Tidy, OneYear, OneTerm, NothingLost, TermsOf
<1> QED
  BY <1>1, <1>2, <1>3, <1>4, SaveYearStep, SetCurrentStep, DeleteYearStep, ReferStep DEF CalendarNext

\* Of a set whose elements are all one there is at most one.
LEMMA AtMostOne == ASSUME NEW S, \A x, y \in S : x = y PROVE Cardinality(S) <= 1
<1>1. CASE S = {}
  BY <1>1, FS_EmptySet
<1>2. CASE S # {}
  <2>1. PICK x \in S : TRUE
    BY <1>2
  <2>2. S = {x}
    BY <2>1
  <2> QED
    BY <2>2, FS_Singleton
<1> QED
  BY <1>1, <1>2

\* The invariant is at least the property.
LEMMA CalendarIsSound == CalendarInv => CalendarSound
BY AtMostOne DEF CalendarInv, CalendarSound, OneYear, OneTerm, NothingLost

-----------------------------------------------------------------------------
(* Timetable: lessons that do not meet.                                     *)

TimetableInv ==
    /\ DOMAIN lessons = LessonIds /\ DOMAIN classTeacher = Classes /\ open \subseteq Classes
    /\ TimetableSound

\* The timetable starts empty.
LEMMA TimetableInitInv == TimetableInit => TimetableInv
BY DEF TimetableInit, TimetableInv, TimetableSound, Given

\* Lessons that go disturb nobody.
LEMMA LessonsGo ==
    ASSUME TimetableInv, NEW S \in SUBSET Given,
           lessons' = [i \in LessonIds |-> IF i \in S THEN Gone ELSE lessons[i]]
    PROVE  /\ DOMAIN lessons' = LessonIds /\ Given' = Given \ S
           /\ \A i \in Given' : lessons'[i] = lessons[i]
BY DEF Given, NotYet, Gone, TimetableInv

\* Two lessons clash with each other or not at all.
LEMMA ClashBothWays == ASSUME NEW l, NEW m, Clash(l, m) PROVE Clash(m, l)
BY DEF Clash, Meet

\* A lesson is written against the lessons there are.
LEMMA WriteLessonStep == ASSUME TimetableInv, NEW k \in Planners, WriteLesson(k) PROVE TimetableInv'
<1>1. PICK r : r = planner[k]
  OBVIOUS
<1>2. CASE lessons[r.id] = Gone
  BY <1>1, <1>2 DEF WriteLesson, TimetableInv, TimetableSound, Given
<1>3. CASE lessons[r.id] # Gone
  <2>1. /\ lessons' = [lessons EXCEPT ![r.id] = r.lesson] /\ TooLate(~PlanAccepts(r))
        /\ UNCHANGED <<teaching, classTeacher, open>> /\ r.op = "lesson"
    BY <1>1, <1>3 DEF WriteLesson
  <2>2. DOMAIN lessons' = LessonIds
    BY <2>1 DEF TimetableInv
  <2>3. ASSUME "late" \notin planMarks' PROVE TimetableSound'
    <3>1. "late" \notin planMarks /\ SlotFree(r.id, r.lesson)
      BY <2>1, <2>3 DEF TooLate, PlanAccepts
    <3>2. \A i \in Given' : i # r.id => i \in Given /\ lessons'[i] = lessons[i]
      BY <2>1 DEF Given, TimetableInv
    <3>3. r.id \in Given' => lessons'[r.id] = r.lesson
      BY <2>1 DEF Given, TimetableInv
    <3>4. ASSUME NEW i \in Given', NEW j \in Given', i # j PROVE ~Clash(lessons'[i], lessons'[j])
      <4>1. CASE i = r.id
        BY <3>1, <3>2, <3>3, <3>4, <4>1 DEF SlotFree
      <4>2. CASE j = r.id
        <5>1. ~Clash(r.lesson, lessons[i]) /\ lessons'[i] = lessons[i] /\ lessons'[j] = r.lesson
          BY <3>1, <3>2, <3>3, <3>4, <4>2 DEF SlotFree
        <5> QED
          BY <5>1, ClashBothWays
      <4>3. CASE i # r.id /\ j # r.id
        BY <3>1, <3>2, <3>4, <4>3 DEF TimetableInv, TimetableSound
      <4> QED
        BY <4>1, <4>2, <4>3
    <3>5. \A i \in Given' : lessons'[i].class \in open' /\ lessons'[i].teacher \in teaching'
      BY <2>1, <3>1, <3>2, <3>3 DEF SlotFree, TimetableInv, TimetableSound
    <3> QED
      BY <2>1, <3>1, <3>4, <3>5 DEF TimetableInv, TimetableSound
  <2> QED
    BY <2>1, <2>2, <2>3 DEF TimetableInv, TimetableSound
<1> QED
  BY <1>2, <1>3

\* A class teacher is written against the teachers' other classes.
LEMMA WriteTeacherStep == ASSUME TimetableInv, NEW k \in Planners, WriteTeacher(k) PROVE TimetableInv'
<1>1. PICK r : r = planner[k]
  OBVIOUS
<1>2. CASE r.op = "unflag"
  <2> DEFINE S == {i \in Given : lessons[i].teacher = r.teacher}
  <2>1. /\ teaching' = teaching \ {r.teacher} /\ TooLate(~PlanAccepts(r)) /\ UNCHANGED <<classTeacher, open>>
        /\ lessons' = [i \in LessonIds |-> IF i \in S THEN Gone ELSE lessons[i]]
    BY <1>1, <1>2 DEF WriteTeacher
  <2>2. /\ DOMAIN lessons' = LessonIds /\ Given' = Given \ S
        /\ \A i \in Given' : lessons'[i] = lessons[i]
    BY <2>1, LessonsGo
  <2>3. "late" \notin planMarks' => "late" \notin planMarks /\ \A c \in open : classTeacher[c] # r.teacher
    BY <1>2, <2>1 DEF TooLate, PlanAccepts
  <2> QED
    BY <2>1, <2>2, <2>3 DEF TimetableInv, TimetableSound
<1>3. CASE r.op = "class teacher"
  <2>1. /\ classTeacher' = [classTeacher EXCEPT ![r.class] = r.teacher] /\ TooLate(~PlanAccepts(r))
        /\ UNCHANGED <<lessons, teaching, open>>
    BY <1>1, <1>3 DEF WriteTeacher
  <2>2. "late" \notin planMarks' => "late" \notin planMarks /\ (r.teacher # NoOne => r.teacher \in teaching)
    BY <1>3, <2>1 DEF TooLate, PlanAccepts
  <2> QED
    BY <2>1, <2>2 DEF TimetableInv, TimetableSound, Given
<1> QED
  BY <1>1, <1>2, <1>3 DEF WriteTeacher

\* Every step of the timetable keeps its invariant.
LEMMA TimetableStepInv == TimetableInv /\ [TimetableNext]_timetableVars => TimetableInv'
<1> SUFFICES ASSUME TimetableInv, [TimetableNext]_timetableVars PROVE TimetableInv'
  OBVIOUS
<1>1. ASSUME UNCHANGED <<lessons, teaching, classTeacher, open, planMarks>> PROVE TimetableInv'
  BY <1>1 DEF TimetableInv, TimetableSound, Given
<1>2. ASSUME NEW k \in Planners, NEW class \in open, DropLessons(k, class) PROVE TimetableInv'
  <2> DEFINE S == {i \in Given : lessons[i].class = class}
  <2>1. /\ lessons' = [i \in LessonIds |-> IF i \in S THEN Gone ELSE lessons[i]]
        /\ UNCHANGED <<teaching, classTeacher, open, planMarks>>
    BY <1>2 DEF DropLessons
  <2>2. /\ DOMAIN lessons' = LessonIds /\ Given' = Given \ S
        /\ \A i \in Given' : lessons'[i] = lessons[i]
    BY <2>1, LessonsGo
  <2> QED
    BY <2>1, <2>2 DEF TimetableInv, TimetableSound
<1>3. ASSUME NEW k \in Planners, DropClass(k) PROVE TimetableInv'
  BY <1>3 DEF DropClass, TooLate, TimetableInv, TimetableSound, Given
<1>4. ASSUME NEW x \in LessonIds, RemoveLesson(x) PROVE TimetableInv'
  <2>1. /\ lessons' = [i \in LessonIds |-> IF i \in {x} THEN Gone ELSE lessons[i]] /\ x \in Given
        /\ UNCHANGED <<teaching, classTeacher, open, planMarks>>
    BY <1>4 DEF RemoveLesson, TimetableInv
  <2>2. /\ DOMAIN lessons' = LessonIds /\ Given' = Given \ {x}
        /\ \A i \in Given' : lessons'[i] = lessons[i]
    BY <2>1, LessonsGo
  <2> QED
    BY <2>1, <2>2 DEF TimetableInv, TimetableSound
<1>5. ASSUME NEW t \in Teachers, FlagTeacher(t) PROVE TimetableInv'
  BY <1>5 DEF FlagTeacher, TimetableInv, TimetableSound, Given
<1>6. ASSUME NEW k \in Planners, Ask(k) \/ CopyNext(k) PROVE TimetableInv'
  BY <1>1, <1>6 DEF Ask, CopyNext
<1>7. ASSUME NEW k \in Planners, NEW class \in open, NEW from \in LessonTerms, NEW to \in LessonTerms,
             AskCopy(k, class, from, to)
      PROVE  TimetableInv'
  BY <1>1, <1>7 DEF AskCopy
<1> QED
  BY <1>1, <1>2, <1>3, <1>4, <1>5, <1>6, <1>7, WriteLessonStep, WriteTeacherStep DEF TimetableNext, timetableVars

-----------------------------------------------------------------------------
(* The whole: a step of it is a step of one part, or leaves the part alone. *)

\* The parts start together.
LEMMA OrganisationStarts ==
    OrganisationInit =>
        EstInv /\ PayInv /\ CalendarInv /\ TimetableInv /\ CardsInv
BY EstInitInv, PayInitInv, CalendarInitInv, TimetableInitInv, CardsInitInv DEF OrganisationInit

\* A step of the whole is a step of one part or none of it.
LEMMA StepsOfTheParts ==
    ASSUME [OrganisationNext]_organisationVars
    PROVE  /\ [EstNext]_estVars /\ [StaffNext]_staffVars /\ [CalendarNext]_calendarVars
           /\ [TimetableNext]_timetableVars /\ [ReportNext]_reportVars
BY DEF OrganisationNext, organisationVars, EstStep, PayStep, CalendarStep, TimetableStep, ReportStep

\* Positions, for any number of them, of people and of requests under way: unless one was
\* written too late, no reporting line returns to where it began and a position in force or
\* on its way reports to one on file that is not retired; unless posts were cut or a post
\* was no longer free, nobody is at work beyond the posts, or on a retired or deleted one.
THEOREM EstablishmentSoundAlways == OrganisationSpec => []EstablishmentSound
<1>1. OrganisationInit => EstInv
  BY OrganisationStarts
<1>2. EstInv /\ [OrganisationNext]_organisationVars => EstInv'
  BY StepsOfTheParts, EstStepInv
<1>3. EstInv => EstablishmentSound
  BY EstIsSound
<1> QED
  BY <1>1, <1>2, <1>3, PTL DEF OrganisationSpec

\* Pay, between requests: the contract has the pay decided last and the card shows the
\* same, and who is on a notch has the notch's pay, unless requests crossed, a renewal
\* named no salary, or a mark says which way of changing one leaves the other behind.
THEOREM PaySoundAlways == OrganisationSpec => []PaySound
<1>1. OrganisationInit => PayInv
  BY OrganisationStarts
<1>2. PayInv /\ [OrganisationNext]_organisationVars => PayInv'
  BY StepsOfTheParts, PayStepInv
<1>3. PayInv => PaySound
  BY PayIsSound
<1> QED
  BY <1>1, <1>2, <1>3, PTL DEF OrganisationSpec

\* Academics: lessons do not collide, one current term in the one current year, report
\* cards stay as they were shown.
THEOREM AcademicsSoundAlways == OrganisationSpec => []AcademicsSound
<1>1. OrganisationInit => TimetableInv /\ CalendarInv /\ CardsInv
  BY OrganisationStarts
<1>2. TimetableInv /\ CalendarInv /\ CardsInv /\ [OrganisationNext]_organisationVars
        => (TimetableInv /\ CalendarInv /\ CardsInv)'
  BY StepsOfTheParts, TimetableStepInv, CalendarStepInv, CardsStep
<1>3. TimetableInv /\ CalendarInv /\ CardsInv => AcademicsSound
  BY CalendarIsSound DEF AcademicsSound, CardsInv, TimetableInv
<1> QED
  BY <1>1, <1>2, <1>3, PTL DEF OrganisationSpec

-----------------------------------------------------------------------------
(* Workflow: the tasks of a document and who is deciding them.              *)

\* Nobody's tasks are handed to the requester.
NeverToRequester == \A u \in Users : Substitute[u] # Requester

\* What every task satisfies from its creation on, by the n-th submission.
TaskSound(x, n) ==
    /\ x \in TaskType
    /\ x.step \in DOMAIN Steps[x.amount] /\ x.level \in DOMAIN Steps[x.amount][x.step]
    /\ x.sub \in 1 .. n
    /\ x.status = "PENDING" => ~ RequesterAlone(Members(x))
    /\ x.to = Nobody => x.from = Nobody
    /\ NeverToRequester => x.to # Requester

SameStep(x, y) == x.amount = y.amount /\ x.sub = y.sub /\ x.step = y.step

\* Every step before a task's own was decided by an earlier task of its submission.
Reached(T) ==
    \A t \in DOMAIN T : \A k \in 1 .. T[t].step - 1 :
        \E p \in 1 .. t - 1 :
            /\ T[p].sub = T[t].sub /\ T[p].amount = T[t].amount
            /\ T[p].step = k /\ T[p].status # "PENDING"

TasksKept(T, n) ==
    /\ T \in Seq(TaskType)
    /\ \A t \in DOMAIN T : TaskSound(T[t], n)
    /\ Reached(T)

\* A request acts on a row that is there, of which only what is decided may have changed,
\* and may act on it as it read it.
SessionKept(r, T, n) ==
    /\ r \in SessionType
    /\ r.pc # "idle" =>
        /\ r.id \in DOMAIN T /\ SameStep(r.task, T[r.id])
        /\ TaskSound(r.task, n) /\ r.user \in Users
        /\ r.pc = "decide" => r.user \in Eligible(r.task)

\* A pending document has a pending task, and the tasks of its submission are of the
\* amount it has, none of them rejected.
DocumentKept(d, T) ==
    /\ d \in DocType /\ d.sub <= MaxSubmits
    /\ ~ HasStatus => d.status = "Open"
    /\ d.status = "Pending" =>
        /\ \E t \in DOMAIN T : T[t].status = "PENDING"
        /\ \A t \in DOMAIN T : T[t].sub = d.sub => T[t].amount = d.amount /\ T[t].status # "REJECTED"

WorkflowInv ==
    /\ DocumentKept(doc, tasks)
    /\ TasksKept(tasks, doc.sub)
    /\ sess \in [Sessions -> SessionType] /\ \A s \in Sessions : SessionKept(sess[s], tasks, doc.sub)
    /\ finalised \in [1 .. MaxSubmits -> Nat]
    /\ handed \in [DOMAIN tasks -> SUBSET Users]

\* The steps of an amount are a sequence of sequences of levels, each with a member.
LEMMA StepsAre ==
    ASSUME NEW a \in Amounts
    PROVE  /\ Steps[a] \in Seq(Seq(SUBSET Users)) /\ Len(Steps[a]) \in Nat \ {0} /\ DOMAIN Steps[a] = 1 .. Len(Steps[a])
           /\ \A k \in DOMAIN Steps[a] :
                /\ Steps[a][k] \in Seq(SUBSET Users) /\ Len(Steps[a][k]) \in Nat \ {0}
                /\ DOMAIN Steps[a][k] = 1 .. Len(Steps[a][k])
                /\ \A l \in DOMAIN Steps[a][k] : Steps[a][k][l] # {} /\ Steps[a][k][l] \in SUBSET Users
<1>1. Steps[a] \in Seq(Seq(SUBSET Users)) /\ Steps[a] # <<>>
  BY ConstantsAssumption
<1>2. \A k \in DOMAIN Steps[a] : Steps[a][k] # <<>> /\ \A l \in DOMAIN Steps[a][k] : Steps[a][k][l] # {}
  BY ConstantsAssumption
<1>3. Len(Steps[a]) \in Nat \ {0} /\ DOMAIN Steps[a] = 1 .. Len(Steps[a])
  BY <1>1
<1>4. ASSUME NEW k \in DOMAIN Steps[a]
      PROVE  /\ Steps[a][k] \in Seq(SUBSET Users) /\ Len(Steps[a][k]) \in Nat \ {0}
             /\ DOMAIN Steps[a][k] = 1 .. Len(Steps[a][k])
             /\ \A l \in DOMAIN Steps[a][k] : Steps[a][k][l] # {} /\ Steps[a][k][l] \in SUBSET Users
  <2>1. Steps[a][k] \in Seq(SUBSET Users)
    BY <1>1
  <2>2. Steps[a][k] # <<>>
    BY <1>2
  <2> QED
    BY <2>1, <2>2, <1>2
<1> QED
  BY <1>1, <1>3, <1>4

\* The first level left to decide is one of the step's, and not the requester's alone.
LEMMA FirstOpenLevel ==
    ASSUME NEW a \in Amounts, NEW k \in DOMAIN Steps[a], NEW first \in Nat \ {0}, OpenLevels(a, k, first) # {}
    PROVE  /\ Min(OpenLevels(a, k, first)) \in DOMAIN Steps[a][k]
           /\ Min(OpenLevels(a, k, first)) \in OpenLevels(a, k, first)
<1> DEFINE left == OpenLevels(a, k, first)
<1>1. left \subseteq DOMAIN Steps[a][k] /\ left \in SUBSET Nat
  BY StepsAre DEF OpenLevels
<1>2. \E n \in left : \A m \in left : n <= m
  BY <1>1, LeastOf
<1>3. Min(left) \in left
  BY <1>2 DEF Min
<1> QED
  BY <1>1, <1>3

\* What createTaskForStep leaves from step `first` on.
Leaves(new, a, sub, first) ==
    /\ new \in Seq(TaskType) /\ DOMAIN new = 1 .. Len(new)
    /\ \A i \in DOMAIN new :
         /\ TaskSound(new[i], sub) /\ new[i].sub = sub /\ new[i].amount = a
         /\ new[i].step = first + i - 1 /\ new[i].status \in {"PENDING", "APPROVED"}
         /\ i < Len(new) => new[i].status = "APPROVED"
    /\ AllClear(a, first) =>
         /\ Len(new) = Len(Steps[a]) - first + 1
         /\ \A i \in DOMAIN new : new[i].status = "APPROVED"
    /\ ~ AllClear(a, first) => Len(new) \in DOMAIN new /\ new[Len(new)].status = "PENDING"

\* createTaskForStep leaves approved tasks, and a pending one last if a level is left open.
LEMMA CreatedIs ==
    ASSUME NEW a \in Amounts, NEW sub \in Nat \ {0}, NEW first \in Nat \ {0}, first <= Len(Steps[a]) + 1
    PROVE  Leaves(Created(a, sub, first), a, sub, first)
<1> DEFINE last == IF OpenSteps(a, first) = {} THEN Len(Steps[a]) ELSE Min(OpenSteps(a, first))
           new == Created(a, sub, first)
<1>1. OpenSteps(a, first) \in SUBSET Nat /\ OpenSteps(a, first) \subseteq first .. Len(Steps[a])
  BY StepsAre DEF OpenSteps
<1>2. OpenSteps(a, first) # {} =>
        /\ last \in OpenSteps(a, first)
        /\ \A k \in OpenSteps(a, first) : last <= k
  BY <1>1, LeastOf DEF Min
<1>3. last \in Nat /\ first <= last + 1 /\ last <= Len(Steps[a])
  BY <1>1, <1>2, StepsAre
<1> DEFINE n == last - first + 1
<1>4. n \in Nat /\ DOMAIN new = 1 .. n
  BY <1>3 DEF Created
<1>5. ASSUME NEW i \in 1 .. n
      PROVE  /\ new[i] \in TaskType /\ TaskSound(new[i], sub) /\ new[i].sub = sub /\ new[i].amount = a
             /\ new[i].step = first + i - 1
             /\ new[i].status = IF OpenLevels(a, first + i - 1, 1) = {} THEN "APPROVED" ELSE "PENDING"
  <2> DEFINE k == first + i - 1
             row == IF OpenLevels(a, k, 1) = {}
                    THEN NewTask(a, sub, k, Len(Steps[a][k]), "APPROVED", Requester)
                    ELSE NewTask(a, sub, k, Min(OpenLevels(a, k, 1)), "PENDING", Nobody)
  <2>1. new[i] = row
    BY <1>4 DEF Created
  <2>2. k \in DOMAIN Steps[a] /\ k \in Nat
    BY <1>3, StepsAre
  <2>3. Requester \in Users
    BY ConstantsAssumption
  <2>4. CASE OpenLevels(a, k, 1) = {}
    <3>1. Len(Steps[a][k]) \in DOMAIN Steps[a][k] /\ Len(Steps[a][k]) \in Nat
      BY <2>2, StepsAre
    <3> HIDE DEF k
    <3>2. row = NewTask(a, sub, k, Len(Steps[a][k]), "APPROVED", Requester)
      BY <2>4
    <3>3. row \in TaskType
      BY <3>1, <3>2, <2>2, <2>3 DEF TaskType, NewTask
    <3>4. Nobody # Requester
      BY <2>3, ConstantsAssumption
    <3>5. TaskSound(row, sub)
      BY <3>1, <3>2, <3>3, <3>4, <2>2 DEF TaskSound, NewTask
    <3> QED
      BY <2>1, <2>4, <3>2, <3>3, <3>5 DEF NewTask, k
  <2>5. CASE OpenLevels(a, k, 1) # {}
    <3>1. /\ Min(OpenLevels(a, k, 1)) \in DOMAIN Steps[a][k] /\ Min(OpenLevels(a, k, 1)) \in Nat
          /\ ~ RequesterAlone(Steps[a][k][Min(OpenLevels(a, k, 1))])
      <4>1. Min(OpenLevels(a, k, 1)) \in DOMAIN Steps[a][k] /\ Min(OpenLevels(a, k, 1)) \in OpenLevels(a, k, 1)
        BY <2>2, <2>5, FirstOpenLevel
      <4>2. DOMAIN Steps[a][k] \subseteq Nat
        BY <2>2, StepsAre
      <4> QED
        BY <4>1, <4>2 DEF OpenLevels
    <3> DEFINE l == Min(OpenLevels(a, k, 1))
    <3>2. row = NewTask(a, sub, k, l, "PENDING", Nobody)
      BY <2>5
    <3> HIDE DEF k, l
    <3>3. row \in TaskType
      BY <3>1, <3>2, <2>2 DEF TaskType, NewTask, l
    <3>4. Nobody # Requester
      BY <2>3, ConstantsAssumption
    <3>5. TaskSound(row, sub)
      BY <3>1, <3>2, <3>3, <3>4, <2>2 DEF TaskSound, NewTask, Members, l
    <3> QED
      BY <2>1, <2>5, <3>2, <3>3, <3>5 DEF NewTask, k
  <2> QED
    BY <2>4, <2>5
<1>6. new \in Seq(TaskType) /\ Len(new) = n
  <2>1. new = [i \in 1 .. n |-> new[i]]
    BY DEF Created
  <2>2. \A i \in 1 .. n : new[i] \in TaskType
    BY <1>5
  <2> HIDE DEF new
  <2>3. new \in [1 .. n -> TaskType]
    BY <2>1, <2>2
  <2> QED
    BY <2>3, <1>4
<1>7. \A i \in 1 .. n : i < n => new[i].status = "APPROVED"
  <2> SUFFICES ASSUME NEW i \in 1 .. n, i < n PROVE OpenLevels(a, first + i - 1, 1) = {}
    BY <1>5
  <2>1. first + i - 1 < last /\ first + i - 1 \in first .. Len(Steps[a])
    BY <1>3
  <2>2. first + i - 1 \notin OpenSteps(a, first)
    <3> HIDE DEF last
    <3> QED
      BY <2>1, <1>2, <1>3
  <2> QED
    BY <2>1, <2>2 DEF OpenSteps
<1>8. AllClear(a, first) => n = Len(Steps[a]) - first + 1 /\ \A i \in 1 .. n : new[i].status = "APPROVED"
  <2> SUFFICES ASSUME AllClear(a, first), NEW i \in 1 .. n PROVE OpenLevels(a, first + i - 1, 1) = {}
    BY <1>5, <1>3, StepsAre DEF AllClear
  <2>1. first + i - 1 \in first .. Len(Steps[a])
    BY <1>3
  <2> QED
    BY <2>1 DEF AllClear, OpenSteps
<1>9. ~ AllClear(a, first) => n \in 1 .. n /\ new[n].status = "PENDING"
  <2> SUFFICES ASSUME ~ AllClear(a, first) PROVE n \in 1 .. n /\ OpenLevels(a, first + n - 1, 1) # {}
    BY <1>5
  <2>1. last \in OpenSteps(a, first)
    BY <1>2 DEF AllClear
  <2>2. OpenLevels(a, last, 1) # {}
    BY <2>1 DEF OpenSteps
  <2> HIDE DEF last
  <2>3. n \in 1 .. n /\ first + n - 1 = last
    BY <2>1, <1>1, <1>3
  <2> QED
    BY <2>2, <2>3
<1> HIDE DEF n, new
<1> QED
  <2>1. \A i \in DOMAIN new : new[i].status \in {"PENDING", "APPROVED"}
    BY <1>4, <1>5
  <2> QED
    BY <2>1, <1>4, <1>5, <1>6, <1>7, <1>8, <1>9 DEF n, new, Leaves

\* Tasks created from step `first` on, after the step before it was decided.
LEMMA Lengthened ==
    ASSUME NEW T, NEW n \in Nat, TasksKept(T, n), NEW a \in Amounts, NEW sub \in 1 .. n,
           NEW first \in Nat \ {0}, first <= Len(Steps[a]) + 1,
           \/ first = 1
           \/ \E id \in DOMAIN T : /\ T[id].amount = a /\ T[id].sub = sub
                                   /\ T[id].step = first - 1 /\ T[id].status # "PENDING"
    PROVE  /\ TasksKept(T \o Created(a, sub, first), n)
           /\ Len(T \o Created(a, sub, first)) = Len(T) + Len(Created(a, sub, first))
           /\ \A t \in 1 .. Len(T) : (T \o Created(a, sub, first))[t] = T[t]
           /\ \A i \in 1 .. Len(Created(a, sub, first)) :
                (T \o Created(a, sub, first))[Len(T) + i] = Created(a, sub, first)[i]
<1> DEFINE new == Created(a, sub, first)
           U == T \o new
<1>1. /\ new \in Seq(TaskType) /\ DOMAIN new = 1 .. Len(new)
      /\ \A i \in DOMAIN new :
           /\ TaskSound(new[i], sub) /\ new[i].sub = sub /\ new[i].amount = a
           /\ new[i].step = first + i - 1
           /\ i < Len(new) => new[i].status = "APPROVED"
  <2>1. Leaves(new, a, sub, first)
    BY CreatedIs
  <2> HIDE DEF new
  <2> QED
    BY <2>1 DEF Leaves
<1>2. T \in Seq(TaskType) /\ (\A t \in DOMAIN T : TaskSound(T[t], n)) /\ Reached(T) /\ DOMAIN T = 1 .. Len(T)
  BY DEF TasksKept
<1> HIDE DEF new
<1>3. /\ U \in Seq(TaskType) /\ Len(U) = Len(T) + Len(new) /\ DOMAIN U = 1 .. Len(T) + Len(new)
      /\ \A t \in 1 .. Len(T) : U[t] = T[t]
      /\ \A i \in 1 .. Len(new) : U[Len(T) + i] = new[i]
  BY <1>1, <1>2
<1>4. Len(T) \in Nat /\ Len(new) \in Nat
  BY <1>1, <1>2
<1> HIDE DEF U
<1>5. \A t \in DOMAIN U : t \in 1 .. Len(T) \/ \E i \in 1 .. Len(new) : t = Len(T) + i
  <2> SUFFICES ASSUME NEW t \in 1 .. Len(T) + Len(new), t \notin 1 .. Len(T) PROVE \E i \in 1 .. Len(new) : t = Len(T) + i
    BY <1>3
  <2>1. t - Len(T) \in 1 .. Len(new) /\ t = Len(T) + (t - Len(T))
    BY <1>4
  <2> QED
    BY <2>1
<1>6. ASSUME NEW t \in DOMAIN U PROVE TaskSound(U[t], n)
  <2>1. CASE t \in 1 .. Len(T)
    BY <2>1, <1>2, <1>3
  <2>2. CASE t \notin 1 .. Len(T)
    <3>1. PICK i \in 1 .. Len(new) : t = Len(T) + i
      BY <2>2, <1>5
    <3>2. TaskSound(U[t], sub)
      BY <3>1, <1>1, <1>3
    <3> QED
      BY <3>2 DEF TaskSound
  <2> QED
    BY <2>1, <2>2
<1>7. ASSUME NEW t \in DOMAIN U, NEW k \in 1 .. U[t].step - 1
      PROVE  \E p \in 1 .. t - 1 : /\ U[p].sub = U[t].sub /\ U[p].amount = U[t].amount
                                   /\ U[p].step = k /\ U[p].status # "PENDING"
  <2>1. CASE t \in 1 .. Len(T)
    <3>1. PICK p \in 1 .. t - 1 : /\ T[p].sub = T[t].sub /\ T[p].amount = T[t].amount
                                  /\ T[p].step = k /\ T[p].status # "PENDING"
      BY <2>1, <1>2, <1>3 DEF Reached
    <3>2. p \in 1 .. Len(T)
      BY <2>1, <1>4
    <3> QED
      BY <2>1, <3>1, <3>2, <1>3
  <2>2. CASE t \notin 1 .. Len(T)
    <3>1. PICK i \in 1 .. Len(new) : t = Len(T) + i
      BY <2>2, <1>5
    <3>2. U[t].step = first + i - 1 /\ U[t].sub = sub /\ U[t].amount = a
      BY <3>1, <1>1, <1>3
    <3>3. CASE k >= first
      <4> DEFINE j == k - first + 1
                 p == Len(T) + j
      <4>1. j \in 1 .. Len(new) /\ j < i /\ j \in Nat /\ first + j - 1 = k
        <5>1. k \in 1 .. first + i - 2
          BY <3>2
        <5> QED
          BY <5>1, <3>3, <3>1, <1>4
      <4> HIDE DEF j
      <4>2. new[j].sub = sub /\ new[j].amount = a /\ new[j].step = k /\ new[j].status = "APPROVED"
        <5>1. j \in DOMAIN new /\ j < Len(new)
          BY <4>1, <3>1, <1>1, <1>4
        <5> QED
          BY <5>1, <4>1, <1>1
      <4>3. p \in 1 .. t - 1 /\ U[p] = new[j]
        <5>1. Len(T) + j \in 1 .. (Len(T) + i) - 1
          BY <4>1, <1>4
        <5> QED
          BY <5>1, <4>1, <3>1, <1>3
      <4> HIDE DEF p
      <4> QED
        BY <4>2, <4>3, <3>2
    <3>4. CASE k < first
      <4>1. PICK id \in DOMAIN T : /\ T[id].amount = a /\ T[id].sub = sub
                                   /\ T[id].step = first - 1 /\ T[id].status # "PENDING"
        BY <3>4
      <4>2. CASE k = first - 1
        <5>1. id \in 1 .. t - 1 /\ U[id] = T[id]
          BY <3>1, <1>2, <1>3, <1>4
        <5> QED
          BY <5>1, <4>1, <4>2, <3>2
      <4>3. CASE k # first - 1
        <5>1. k \in 1 .. T[id].step - 1
          BY <4>3, <3>4, <4>1
        <5>2. PICK p \in 1 .. id - 1 : /\ T[p].sub = T[id].sub /\ T[p].amount = T[id].amount
                                       /\ T[p].step = k /\ T[p].status # "PENDING"
          BY <5>1, <1>2 DEF Reached
        <5>3. p \in 1 .. t - 1 /\ p \in 1 .. Len(T)
          BY <5>2, <3>1, <1>2, <1>4
        <5> QED
          BY <5>2, <5>3, <4>1, <3>2, <1>3
      <4> QED
        BY <4>2, <4>3
    <3> QED
      BY <3>3, <3>4
  <2> QED
    BY <2>1, <2>2
<1> QED
  BY <1>3, <1>6, <1>7 DEF TasksKept, Reached, new, U

\* A task changed within its step: what was decided stays decided.
LEMMA Rewritten ==
    ASSUME NEW T, NEW n \in Nat, TasksKept(T, n), NEW id \in DOMAIN T, NEW x, TaskSound(x, n),
           SameStep(x, T[id]), T[id].status # "PENDING" => x.status # "PENDING"
    PROVE  /\ TasksKept([T EXCEPT ![id] = x], n)
           /\ DOMAIN [T EXCEPT ![id] = x] = DOMAIN T
           /\ \A t \in DOMAIN T : [T EXCEPT ![id] = x][t] = IF t = id THEN x ELSE T[t]
           /\ \A t \in DOMAIN T : SameStep([T EXCEPT ![id] = x][t], T[t])
<1> DEFINE U == [T EXCEPT ![id] = x]
<1>1. T \in Seq(TaskType) /\ (\A t \in DOMAIN T : TaskSound(T[t], n)) /\ Reached(T) /\ DOMAIN T = 1 .. Len(T)
  BY DEF TasksKept
<1>2. U \in Seq(TaskType) /\ DOMAIN U = DOMAIN T /\ \A t \in DOMAIN T : U[t] = IF t = id THEN x ELSE T[t]
  BY <1>1 DEF TaskSound
<1> HIDE DEF U
<1>3. \A t \in DOMAIN T : SameStep(U[t], T[t]) /\ TaskSound(U[t], n) /\ (T[t].status # "PENDING" => U[t].status # "PENDING")
  BY <1>1, <1>2 DEF SameStep
<1>4. ASSUME NEW t \in DOMAIN U, NEW k \in 1 .. U[t].step - 1
      PROVE  \E p \in 1 .. t - 1 : /\ U[p].sub = U[t].sub /\ U[p].amount = U[t].amount
                                   /\ U[p].step = k /\ U[p].status # "PENDING"
  <2>1. k \in 1 .. T[t].step - 1 /\ t \in DOMAIN T
    BY <1>2, <1>3 DEF SameStep
  <2>2. PICK p \in 1 .. t - 1 : /\ T[p].sub = T[t].sub /\ T[p].amount = T[t].amount
                                /\ T[p].step = k /\ T[p].status # "PENDING"
    BY <2>1, <1>1 DEF Reached
  <2>3. p \in DOMAIN T
    BY <2>1, <2>2, <1>1
  <2> QED
    BY <2>1, <2>2, <2>3, <1>3 DEF SameStep
<1> QED
  BY <1>2, <1>3, <1>4 DEF TasksKept, Reached, U

\* A pending task is somebody's to decide.
LEMMA SomebodyMay ==
    ASSUME NEW x, NEW n, TaskSound(x, n), x.status = "PENDING"
    PROVE  Eligible(x) # {}
<1>1. /\ Members(x) # {} /\ Members(x) # {Requester}
      /\ x.to = Nobody => x.from = Nobody
  <2>1. x.amount \in Amounts /\ x.step \in DOMAIN Steps[x.amount] /\ x.level \in DOMAIN Steps[x.amount][x.step]
    BY DEF TaskSound, TaskType
  <2>2. Members(x) # {}
    BY <2>1, StepsAre DEF Members
  <2> QED
    BY <2>2 DEF TaskSound, RequesterAlone
<1>2. CASE x.to # Nobody
  BY <1>2 DEF Eligible
<1>3. CASE x.to = Nobody
  <2>1. Nobody \notin Members(x)
    <3>1. x.amount \in Amounts /\ x.step \in DOMAIN Steps[x.amount] /\ x.level \in DOMAIN Steps[x.amount][x.step]
      BY DEF TaskSound, TaskType
    <3>2. Members(x) \in SUBSET Users
      BY <3>1, StepsAre DEF Members
    <3> QED
      BY <3>2, ConstantsAssumption
  <2>2. \E u \in Members(x) : u # Requester /\ u # x.from
    BY <1>1, <1>3, <2>1
  <2> QED
    BY <2>2 DEF Eligible
<1> QED
  BY <1>2, <1>3

\* Where the requester is not alone, whoever may decide is somebody else.
LEMMA OtherThanRequester ==
    ASSUME NEW x, NEW n, TaskSound(x, n), NeverToRequester, NEW u \in Eligible(x), Members(x) # {Requester}
    PROVE  u # Requester
<1> SUFFICES ASSUME Requester \in Members(x) PROVE Cardinality(Members(x)) > 1
  <2>1. x.to # Requester
    BY DEF TaskSound
  <2> QED
    BY <2>1 DEF Eligible
<1>1. Members(x) \in SUBSET Users /\ IsFiniteSet(Users)
  <2>1. x.amount \in Amounts /\ x.step \in DOMAIN Steps[x.amount] /\ x.level \in DOMAIN Steps[x.amount][x.step]
    BY DEF TaskSound, TaskType
  <2> QED
    BY <2>1, StepsAre, ConstantsAssumption DEF Members
<1>2. PICK o \in Members(x) : o # Requester
  OBVIOUS
<1>3. IsFiniteSet(Members(x))
  BY <1>1, FS_Subset
<1>4. Cardinality({Requester}) = 1 /\ IsFiniteSet({Requester})
  BY FS_Singleton
<1>5. Cardinality({Requester} \cup {o}) = 2 /\ {Requester} \cup {o} \subseteq Members(x)
  BY <1>2, <1>4, FS_AddElement
<1>6. Cardinality({Requester} \cup {o}) <= Cardinality(Members(x)) /\ Cardinality(Members(x)) \in Nat
  BY <1>3, <1>5, FS_Subset, FS_CardinalityType
<1> QED
  BY <1>5, <1>6

\* A task stays sound under a later submission.
LEMMA LaterSound ==
    ASSUME NEW x, NEW n \in Nat, NEW m \in Nat, n <= m, TaskSound(x, n)
    PROVE  TaskSound(x, m)
<1>1. 1 .. n \subseteq 1 .. m
  OBVIOUS
<1> QED
  BY <1>1 DEF TaskSound

\* What a request holds survives whatever others write.
LEMMA SessionStays ==
    ASSUME NEW r, NEW T, NEW U, NEW n \in Nat, NEW m \in Nat, n <= m, SessionKept(r, T, n),
           DOMAIN T \subseteq DOMAIN U, \A t \in DOMAIN T : SameStep(U[t], T[t])
    PROVE  SessionKept(r, U, m)
<1>1. r.pc # "idle" => r.id \in DOMAIN U /\ SameStep(r.task, U[r.id]) /\ TaskSound(r.task, m)
  BY LaterSound DEF SessionKept, SameStep
<1> QED
  BY <1>1 DEF SessionKept

\* An idle session has nothing at hand to keep.
LEMMA IdleKept == ASSUME Amounts # {}, NEW T, NEW n PROVE SessionKept(Idle, T, n)
<1>1. NoTask \in TaskType
  BY DEF NoTask, NewTask, TaskType
<1>2. Idle \in SessionType
  BY <1>1 DEF Idle, SessionType
<1> QED
  BY <1>2 DEF SessionKept, Idle

\* The holders of new tasks are added without any having been handed one.
LEMMA HandedLonger ==
    ASSUME NEW n \in Nat, NEW m \in Nat, NEW h \in [1 .. n -> SUBSET Users]
    PROVE  h \o [i \in 1 .. m |-> {}] \in [1 .. n + m -> SUBSET Users]
<1>1. h \in Seq(SUBSET Users) /\ Len(h) = n
  OBVIOUS
<1>2. [i \in 1 .. m |-> {}] \in Seq(SUBSET Users) /\ Len([i \in 1 .. m |-> {}]) = m
  OBVIOUS
<1> DEFINE g == h \o [i \in 1 .. m |-> {}]
<1>3. g \in Seq(SUBSET Users) /\ Len(g) = n + m
  BY <1>1, <1>2
<1> HIDE DEF g
<1>4. g \in [1 .. n + m -> SUBSET Users]
  BY <1>3
<1> QED
  BY <1>4 DEF g

\* An open document without tasks.
LEMMA WorkflowInitInv == Init => WorkflowInv
<1> SUFFICES ASSUME Init PROVE WorkflowInv
  OBVIOUS
<1>1. doc \in DocType /\ doc.status = "Open" /\ doc.sub = 0 /\ Amounts # {}
  BY DEF Init, DocType, Statuses
<1>2. tasks = <<>> /\ handed = <<>> /\ DOMAIN tasks = {}
  BY DEF Init
<1>3. DocumentKept(doc, tasks)
  BY <1>1, ConstantsAssumption DEF DocumentKept
<1>4. TasksKept(tasks, doc.sub)
  BY <1>2 DEF TasksKept, Reached
<1>5. sess \in [Sessions -> SessionType] /\ \A s \in Sessions : SessionKept(sess[s], tasks, doc.sub)
  <2>1. SessionKept(Idle, tasks, doc.sub)
    BY <1>1, IdleKept
  <2>2. Idle \in SessionType
    BY <2>1 DEF SessionKept
  <2> QED
    BY <2>1, <2>2 DEF Init
<1>6. finalised \in [1 .. MaxSubmits -> Nat] /\ handed \in [DOMAIN tasks -> SUBSET Users]
  BY <1>2 DEF Init
<1> QED
  BY <1>3, <1>4, <1>5, <1>6 DEF WorkflowInv

\* One request is done, the others stay as they are.
LEMMA OneDone ==
    ASSUME WorkflowInv, NEW s \in Sessions, sess' = [sess EXCEPT ![s] = Idle],
           doc'.sub = doc.sub, DOMAIN tasks \subseteq DOMAIN tasks',
           \A t \in DOMAIN tasks : SameStep(tasks'[t], tasks[t])
    PROVE  sess' \in [Sessions -> SessionType] /\ \A o \in Sessions : SessionKept(sess'[o], tasks', doc'.sub)
<1>1. doc \in DocType /\ Amounts # {} /\ doc.sub \in Nat
  BY DEF WorkflowInv, DocumentKept, DocType
<1>2. ASSUME NEW o \in Sessions PROVE SessionKept(sess'[o], tasks', doc'.sub)
  <2>1. CASE o = s
    BY <2>1, <1>1, IdleKept DEF WorkflowInv
  <2>2. CASE o # s
    <3>1. sess'[o] = sess[o] /\ SessionKept(sess[o], tasks, doc.sub)
      BY <2>2 DEF WorkflowInv
    <3> QED
      BY <3>1, <1>1, SessionStays
  <2> QED
    BY <2>1, <2>2
<1>3. sess' \in [Sessions -> SessionType]
  <2>1. SessionKept(Idle, tasks, doc.sub)
    BY <1>1, IdleKept
  <2>2. Idle \in SessionType
    BY <2>1 DEF SessionKept
  <2> QED
    BY <2>2 DEF WorkflowInv
<1> QED
  BY <1>2, <1>3

\* What every request under way knows.
LEMMA AtHand ==
    ASSUME WorkflowInv, NEW s \in Sessions, sess[s].pc # "idle"
    PROVE  LET r == sess[s] IN
           /\ r \in SessionType /\ r.task \in TaskType /\ r.user \in Users /\ r.task.amount \in Amounts
           /\ r.id \in DOMAIN tasks /\ SameStep(r.task, tasks[r.id]) /\ TaskSound(r.task, doc.sub)
           /\ TaskSound(tasks[r.id], doc.sub) /\ tasks[r.id] \in TaskType
           /\ r.task.step \in DOMAIN Steps[r.task.amount] /\ r.task.step \in Nat \ {0}
           /\ r.task.level \in DOMAIN Steps[r.task.amount][r.task.step] /\ r.task.level \in Nat \ {0}
           /\ r.task.sub \in 1 .. doc.sub
           /\ r.pc = "decide" => r.user \in Eligible(r.task)
           /\ doc.sub \in Nat /\ tasks \in Seq(TaskType) /\ DOMAIN tasks = 1 .. Len(tasks)
<1>1. SessionKept(sess[s], tasks, doc.sub) /\ TasksKept(tasks, doc.sub) /\ doc.sub \in Nat
  BY DEF WorkflowInv, DocumentKept, DocType
<1>2. sess[s].task \in TaskType /\ sess[s].id \in DOMAIN tasks /\ sess[s] \in SessionType
  BY <1>1 DEF SessionKept, TaskSound
<1>3. TaskSound(tasks[sess[s].id], doc.sub)
  BY <1>1, <1>2 DEF TasksKept
<1>4. sess[s].task.amount \in Amounts
  BY <1>2 DEF TaskType
<1>5. sess[s].task.step \in DOMAIN Steps[sess[s].task.amount] /\ sess[s].task.level \in DOMAIN Steps[sess[s].task.amount][sess[s].task.step]
  BY <1>1 DEF SessionKept, TaskSound
<1>6. sess[s].task.step \in Nat \ {0} /\ sess[s].task.level \in Nat \ {0}
  BY <1>4, <1>5, StepsAre
<1> QED
  BY <1>1, <1>2, <1>3, <1>4, <1>5, <1>6 DEF SessionKept, TaskSound, TasksKept

\* The decision as it is written: the task of the step that was read, of its amount.
LEMMA DecidedIs ==
    ASSUME WorkflowInv, NEW s \in Sessions, sess[s].pc = "decide", NEW status \in {"APPROVED", "REJECTED"},
           status = "APPROVED" => sess[s].yes
    PROVE  LET r == sess[s]  T == Decided(s, status) IN
           /\ TasksKept(T, doc.sub) /\ DOMAIN T = DOMAIN tasks
           /\ \A t \in DOMAIN tasks : SameStep(T[t], tasks[t]) /\ (t # r.id => T[t] = tasks[t])
           /\ T[r.id].status = status
<1> DEFINE r == sess[s]
           x == [tasks[r.id] EXCEPT !.status = status, !.by = Decider(s), !.level =
                    IF status = "APPROVED" THEN Len(Steps[r.task.amount][r.task.step])
                    ELSE tasks[r.id].level]
<1>1. /\ r.user \in Users /\ r.task.amount \in Amounts /\ r.id \in DOMAIN tasks /\ SameStep(r.task, tasks[r.id])
      /\ TaskSound(tasks[r.id], doc.sub) /\ tasks[r.id] \in TaskType
      /\ r.task.step \in DOMAIN Steps[r.task.amount] /\ doc.sub \in Nat
  BY AtHand
<1>2. Decided(s, status) = [tasks EXCEPT ![r.id] = x]
  BY DEF Decided
<1>3. Decider(s) \in Users
  BY <1>1, ConstantsAssumption DEF Decider
<1>4. Len(Steps[r.task.amount][r.task.step]) \in DOMAIN Steps[r.task.amount][r.task.step] /\ Len(Steps[r.task.amount][r.task.step]) \in Nat
  BY <1>1, StepsAre
<1>5. /\ x.amount = tasks[r.id].amount /\ x.sub = tasks[r.id].sub /\ x.step = tasks[r.id].step
      /\ x.from = tasks[r.id].from /\ x.to = tasks[r.id].to /\ x.status = status /\ x \in TaskType
      /\ x.level \in {tasks[r.id].level, Len(Steps[r.task.amount][r.task.step])}
  BY <1>1, <1>3, <1>4 DEF TaskType
<1> HIDE DEF x
<1>6. TaskSound(x, doc.sub) /\ SameStep(x, tasks[r.id])
  BY <1>1, <1>4, <1>5 DEF TaskSound, SameStep
<1>7. TasksKept(tasks, doc.sub)
  BY DEF WorkflowInv
<1>8. tasks[r.id].status # "PENDING" => x.status # "PENDING"
  BY <1>5
<1>9. /\ TasksKept([tasks EXCEPT ![r.id] = x], doc.sub) /\ DOMAIN [tasks EXCEPT ![r.id] = x] = DOMAIN tasks
      /\ \A t \in DOMAIN tasks : [tasks EXCEPT ![r.id] = x][t] = IF t = r.id THEN x ELSE tasks[t]
      /\ \A t \in DOMAIN tasks : SameStep([tasks EXCEPT ![r.id] = x][t], tasks[t])
  BY <1>1, <1>6, <1>7, <1>8, Rewritten
<1> QED
  BY <1>1, <1>2, <1>5, <1>9

\* Editing, recalling and reopening the document keep the invariant.
LEMMA EditStep == ASSUME WorkflowInv, Edit \/ Recall \/ Reopen PROVE WorkflowInv'
<1>1. doc' \in DocType /\ doc'.status = "Open" /\ doc'.sub = doc.sub
  BY DEF WorkflowInv, DocumentKept, DocType, Statuses, Edit, Recall, Reopen
<1>2. UNCHANGED <<tasks, sess, finalised, handed>>
  BY DEF Edit, Recall, Reopen
<1>3. DocumentKept(doc', tasks')
  BY <1>1, <1>2 DEF WorkflowInv, DocumentKept
<1>4. TasksKept(tasks', doc'.sub) /\ \A s \in Sessions : SessionKept(sess'[s], tasks', doc'.sub)
  BY <1>1, <1>2 DEF WorkflowInv
<1> QED
  BY <1>2, <1>3, <1>4 DEF WorkflowInv

\* A submission keeps the invariant.
LEMMA SubmitStep == ASSUME WorkflowInv, Submit PROVE WorkflowInv'
<1>0. PICK sub \in Nat \ {0} : sub = doc.sub + 1
  BY DEF WorkflowInv, DocumentKept, DocType
<1> DEFINE new == Created(doc.amount, sub, 1)
           status == IF ~HasStatus THEN "Open" ELSE IF AllClear(doc.amount, 1) THEN "Approved" ELSE "Pending"
<1>1. /\ doc \in DocType /\ doc.amount \in Amounts /\ doc.sub \in Nat /\ doc.status = "Open" /\ sub <= MaxSubmits
      /\ TasksKept(tasks, doc.sub) /\ tasks \in Seq(TaskType) /\ DOMAIN tasks = 1 .. Len(tasks)
      /\ handed \in [1 .. Len(tasks) -> SUBSET Users] /\ finalised \in [1 .. MaxSubmits -> Nat]
  <2>1. doc \in DocType /\ TasksKept(tasks, doc.sub) /\ finalised \in [1 .. MaxSubmits -> Nat] /\ handed \in [DOMAIN tasks -> SUBSET Users]
    BY DEF WorkflowInv, DocumentKept
  <2>2. tasks \in Seq(TaskType) /\ DOMAIN tasks = 1 .. Len(tasks)
    BY <2>1 DEF TasksKept
  <2>3. doc.amount \in Amounts /\ doc.sub \in Nat
    BY <2>1 DEF DocType
  <2>4. doc.status = "Open" /\ sub <= MaxSubmits
    BY <1>0, <2>3, ConstantsAssumption DEF Submit
  <2> QED
    BY <2>1, <2>2, <2>3, <2>4
<1>2. /\ tasks' = tasks \o new /\ handed' = handed \o [i \in DOMAIN new |-> {}]
      /\ doc' = [doc EXCEPT !.sub = sub, !.status = status]
      /\ finalised' = [finalised EXCEPT ![sub] = IF AllClear(doc.amount, 1) THEN 1 ELSE 0]
      /\ sess' = sess
  BY <1>0 DEF Submit
<1>3. /\ new \in Seq(TaskType) /\ DOMAIN new = 1 .. Len(new) /\ Len(new) \in Nat
      /\ \A i \in DOMAIN new : new[i].sub = sub /\ new[i].amount = doc.amount /\ new[i].status \in {"PENDING", "APPROVED"}
      /\ ~ AllClear(doc.amount, 1) => Len(new) \in DOMAIN new /\ new[Len(new)].status = "PENDING"
  <2>1. 1 <= Len(Steps[doc.amount]) + 1
    BY <1>1, StepsAre
  <2>2. /\ new \in Seq(TaskType) /\ DOMAIN new = 1 .. Len(new)
        /\ \A i \in DOMAIN new : new[i].sub = sub /\ new[i].amount = doc.amount /\ new[i].status \in {"PENDING", "APPROVED"}
        /\ ~ AllClear(doc.amount, 1) => Len(new) \in DOMAIN new /\ new[Len(new)].status = "PENDING"
    <3>1. Leaves(new, doc.amount, sub, 1)
      BY <1>1, <2>1, CreatedIs
    <3> HIDE DEF new
    <3> QED
      BY <3>1 DEF Leaves
  <2> HIDE DEF new
  <2> QED
    BY <2>2
<1>4. TasksKept(tasks, sub)
  BY <1>0, <1>1, LaterSound DEF TasksKept
<1>5. /\ TasksKept(tasks', sub) /\ Len(tasks') = Len(tasks) + Len(new)
      /\ \A t \in 1 .. Len(tasks) : tasks'[t] = tasks[t]
      /\ \A i \in 1 .. Len(new) : tasks'[Len(tasks) + i] = new[i]
  <2>1. sub \in 1 .. sub /\ sub \in Nat /\ 1 <= Len(Steps[doc.amount]) + 1 /\ 1 \in Nat \ {0}
    BY <1>1, StepsAre
  <2>2. /\ TasksKept(tasks \o new, sub) /\ Len(tasks \o new) = Len(tasks) + Len(new)
        /\ \A t \in 1 .. Len(tasks) : (tasks \o new)[t] = tasks[t]
        /\ \A i \in 1 .. Len(new) : (tasks \o new)[Len(tasks) + i] = new[i]
    BY <1>1, <1>4, <2>1, Lengthened
  <2> QED
    BY <1>2, <2>2
<1>6. doc' \in DocType /\ doc'.sub = sub /\ doc'.amount = doc.amount /\ (~ HasStatus => doc'.status = "Open")
      /\ (doc'.status = "Pending" => ~ AllClear(doc.amount, 1))
  <2>1. status \in Statuses /\ (~ HasStatus => status = "Open") /\ (status = "Pending" => ~ AllClear(doc.amount, 1))
    BY DEF Statuses
  <2> HIDE DEF status
  <2> QED
    BY <1>1, <1>2, <2>1 DEF DocType
<1> HIDE DEF new
<1>7. DOMAIN tasks' = 1 .. Len(tasks) + Len(new)
  BY <1>5 DEF TasksKept
<1>8. DocumentKept(doc', tasks')
  <2> SUFFICES ASSUME doc'.status = "Pending"
        PROVE  /\ \E t \in DOMAIN tasks' : tasks'[t].status = "PENDING"
               /\ \A t \in DOMAIN tasks' : tasks'[t].sub = sub => tasks'[t].amount = doc.amount /\ tasks'[t].status # "REJECTED"
    BY <1>1, <1>6 DEF DocumentKept
  <2>1. Len(new) \in 1 .. Len(new) /\ new[Len(new)].status = "PENDING"
    BY <1>3, <1>6
  <2>2. Len(tasks) + Len(new) \in DOMAIN tasks' /\ tasks'[Len(tasks) + Len(new)].status = "PENDING"
    BY <2>1, <1>1, <1>5, <1>7
  <2>3. ASSUME NEW t \in DOMAIN tasks', tasks'[t].sub = sub
        PROVE  tasks'[t].amount = doc.amount /\ tasks'[t].status # "REJECTED"
    <3>1. t \notin 1 .. Len(tasks)
      <4> SUFFICES ASSUME t \in 1 .. Len(tasks) PROVE FALSE
        OBVIOUS
      <4>1. tasks'[t] = tasks[t] /\ tasks[t].sub \in 1 .. doc.sub
        BY <1>1, <1>5 DEF TasksKept, TaskSound
      <4> QED
        BY <4>1, <2>3, <1>0, <1>1
    <3>2. t - Len(tasks) \in 1 .. Len(new) /\ t = Len(tasks) + (t - Len(tasks))
      BY <3>1, <1>1, <1>3, <1>7
    <3>3. tasks'[t] = new[t - Len(tasks)]
      BY <3>2, <1>5
    <3> QED
      BY <3>2, <3>3, <1>3
  <2> QED
    BY <2>2, <2>3
<1>9. ASSUME NEW s \in Sessions PROVE SessionKept(sess'[s], tasks', doc'.sub)
  <2>1. SessionKept(sess[s], tasks, doc.sub) /\ sess'[s] = sess[s]
    BY <1>2 DEF WorkflowInv
  <2>2. DOMAIN tasks \subseteq DOMAIN tasks' /\ \A t \in DOMAIN tasks : SameStep(tasks'[t], tasks[t])
    BY <1>1, <1>3, <1>5, <1>7 DEF SameStep
  <2>3. doc.sub \in Nat /\ sub \in Nat /\ doc.sub <= sub /\ doc'.sub = sub
    BY <1>0, <1>1, <1>6
  <2> QED
    BY <2>1, <2>2, <2>3, SessionStays
<1>10. finalised' \in [1 .. MaxSubmits -> Nat]
  BY <1>1, <1>2
<1>11. handed' \in [DOMAIN tasks' -> SUBSET Users]
  <2>1. Len(tasks) \in Nat
    BY <1>1
  <2>2. handed' = handed \o [i \in 1 .. Len(new) |-> {}]
    BY <1>2, <1>3
  <2> QED
    BY <2>1, <2>2, <1>1, <1>3, <1>7, HandedLonger
<1> QED
  BY <1>2, <1>5, <1>6, <1>8, <1>9, <1>10, <1>11 DEF WorkflowInv

\* Reading a task keeps the invariant: what the session holds is sound when it is read.
LEMMA ReadStep == ASSUME WorkflowInv, NEW s \in Sessions, ReadTask(s) PROVE WorkflowInv'
<1>1. PICK t \in DOMAIN tasks, u \in Users, yes \in BOOLEAN, pc \in {"decide", "delegate"} :
        /\ u \in Eligible(tasks[t]) \/ (pc = "delegate" /\ u \in Admins)
        /\ sess' = [sess EXCEPT ![s] = [pc |-> pc, id |-> t, task |-> tasks[t], user |-> u, yes |-> yes]]
  BY DEF ReadTask
<1>2. UNCHANGED <<doc, tasks, finalised, handed>>
  BY DEF ReadTask
<1> DEFINE r == [pc |-> pc, id |-> t, task |-> tasks[t], user |-> u, yes |-> yes]
<1>3. TasksKept(tasks, doc.sub) /\ sess \in [Sessions -> SessionType]
  BY DEF WorkflowInv
<1>4. TaskSound(tasks[t], doc.sub) /\ tasks[t] \in TaskType /\ t \in Nat
  <2>1. TaskSound(tasks[t], doc.sub) /\ tasks \in Seq(TaskType)
    BY <1>1, <1>3 DEF TasksKept
  <2> QED
    BY <1>1, <2>1 DEF TaskSound
<1>5. r \in SessionType
  BY <1>1, <1>4 DEF SessionType
<1>6. SessionKept(r, tasks, doc.sub)
  BY <1>1, <1>4, <1>5 DEF SessionKept, SameStep
<1>7. \A o \in Sessions : sess'[o] = IF o = s THEN r ELSE sess[o]
  BY <1>1, <1>3
<1> HIDE DEF r
<1>8. \A o \in Sessions : SessionKept(sess'[o], tasks', doc'.sub)
  BY <1>2, <1>6, <1>7 DEF WorkflowInv
<1>9. sess' \in [Sessions -> SessionType]
  BY <1>1, <1>3, <1>5 DEF r
<1>10. DocumentKept(doc', tasks') /\ TasksKept(tasks', doc'.sub)
  BY <1>2 DEF WorkflowInv
<1> QED
  BY <1>2, <1>8, <1>9, <1>10 DEF WorkflowInv

\* A decision refused changes no task.
LEMMA RefuseStep == ASSUME WorkflowInv, NEW s \in Sessions, Refuse(s) PROVE WorkflowInv'
<1>1. sess' = [sess EXCEPT ![s] = Idle] /\ UNCHANGED <<doc, tasks, finalised, handed>>
  BY DEF Refuse
<1>2. sess' \in [Sessions -> SessionType] /\ \A o \in Sessions : SessionKept(sess'[o], tasks', doc'.sub)
  BY <1>1, OneDone DEF SameStep
<1>3. DocumentKept(doc', tasks') /\ TasksKept(tasks', doc'.sub)
  BY <1>1 DEF WorkflowInv
<1> QED
  BY <1>1, <1>2, <1>3 DEF WorkflowInv

\* A task moved to another level, or handed to somebody, of the same document.
LEMMA TaskMoved ==
    ASSUME WorkflowInv, NEW s \in Sessions, NEW id \in DOMAIN tasks, NEW x, TaskSound(x, doc.sub),
           SameStep(x, tasks[id]), x.status = tasks[id].status, tasks' = [tasks EXCEPT ![id] = x],
           handed' \in [DOMAIN tasks -> SUBSET Users], sess' = [sess EXCEPT ![s] = Idle],
           UNCHANGED <<doc, finalised>>
    PROVE  WorkflowInv'
<1>1. TasksKept(tasks, doc.sub) /\ doc.sub \in Nat /\ DocumentKept(doc, tasks)
  BY DEF WorkflowInv, DocumentKept, DocType
<1>2. /\ TasksKept(tasks', doc.sub) /\ DOMAIN tasks' = DOMAIN tasks
      /\ \A t \in DOMAIN tasks : tasks'[t] = IF t = id THEN x ELSE tasks[t]
      /\ \A t \in DOMAIN tasks : SameStep(tasks'[t], tasks[t])
  <2>1. /\ TasksKept([tasks EXCEPT ![id] = x], doc.sub) /\ DOMAIN [tasks EXCEPT ![id] = x] = DOMAIN tasks
        /\ \A t \in DOMAIN tasks : [tasks EXCEPT ![id] = x][t] = IF t = id THEN x ELSE tasks[t]
        /\ \A t \in DOMAIN tasks : SameStep([tasks EXCEPT ![id] = x][t], tasks[t])
    <3>1. tasks[id].status # "PENDING" => x.status # "PENDING"
      OBVIOUS
    <3> QED
      BY <1>1, <3>1, Rewritten
  <2> QED
    BY <2>1
<1>3. \A t \in DOMAIN tasks : tasks'[t].status = tasks[t].status /\ tasks'[t].sub = tasks[t].sub /\ tasks'[t].amount = tasks[t].amount
  BY <1>2 DEF SameStep
<1>4. DocumentKept(doc', tasks')
  BY <1>1, <1>2, <1>3 DEF DocumentKept
<1>5. sess' \in [Sessions -> SessionType] /\ \A o \in Sessions : SessionKept(sess'[o], tasks', doc'.sub)
  BY <1>2, OneDone
<1>6. finalised' \in [1 .. MaxSubmits -> Nat] /\ handed' \in [DOMAIN tasks' -> SUBSET Users]
  BY <1>2 DEF WorkflowInv
<1> QED
  BY <1>2, <1>4, <1>5, <1>6 DEF WorkflowInv

\* A decision on a level that is not its step's last keeps the invariant.
LEMMA ClearLevelStep == ASSUME WorkflowInv, NEW s \in Sessions, ClearLevel(s) PROVE WorkflowInv'
<1> DEFINE r == sess[s]
           left == OpenLevels(r.task.amount, r.task.step, r.task.level + 1)
           x == [tasks[r.id] EXCEPT !.level = Min(left), !.from = Nobody, !.to = Nobody]
<1>1. /\ r.pc = "decide" /\ left # {} /\ tasks' = [tasks EXCEPT ![r.id] = x]
      /\ handed' = [handed EXCEPT ![r.id] = {}] /\ sess' = [sess EXCEPT ![s] = Idle] /\ UNCHANGED <<doc, finalised>>
  BY DEF ClearLevel
<1>2. /\ r.id \in DOMAIN tasks /\ SameStep(r.task, tasks[r.id]) /\ TaskSound(tasks[r.id], doc.sub)
      /\ tasks[r.id] \in TaskType /\ r.task.amount \in Amounts
      /\ r.task.step \in DOMAIN Steps[r.task.amount] /\ r.task.level \in Nat \ {0}
  BY <1>1, AtHand
<1>3. /\ Min(left) \in DOMAIN Steps[r.task.amount][r.task.step] /\ Min(left) \in Nat
      /\ ~ RequesterAlone(Steps[r.task.amount][r.task.step][Min(left)])
  <2>1. Min(left) \in DOMAIN Steps[r.task.amount][r.task.step] /\ Min(left) \in left
    BY <1>1, <1>2, FirstOpenLevel
  <2>2. DOMAIN Steps[r.task.amount][r.task.step] \subseteq Nat
    BY <1>2, StepsAre
  <2>3. \A l \in left : ~ RequesterAlone(Steps[r.task.amount][r.task.step][l])
    BY DEF OpenLevels
  <2> HIDE DEF left
  <2> QED
    BY <2>1, <2>2, <2>3
<1> HIDE DEF left
<1>4. /\ x.amount = tasks[r.id].amount /\ x.sub = tasks[r.id].sub /\ x.step = tasks[r.id].step
      /\ x.status = tasks[r.id].status /\ x.level = Min(left) /\ x.from = Nobody /\ x.to = Nobody /\ x \in TaskType
  BY <1>2, <1>3 DEF TaskType
<1> HIDE DEF x
<1>5. Nobody # Requester
  BY ConstantsAssumption
<1>6. TaskSound(x, doc.sub) /\ SameStep(x, tasks[r.id])
  BY <1>2, <1>3, <1>4, <1>5 DEF TaskSound, SameStep, Members
<1>7. handed' \in [DOMAIN tasks -> SUBSET Users]
  BY <1>1 DEF WorkflowInv
<1> QED
  BY <1>1, <1>2, <1>4, <1>6, <1>7, TaskMoved

\* Handing a task to a substitute keeps the invariant.
LEMMA DelegateStep == ASSUME WorkflowInv, NEW s \in Sessions, Delegate(s) PROVE WorkflowInv'
<1> DEFINE r == sess[s]
           h == HolderOf(r)
           x == [tasks[r.id] EXCEPT !.from = h, !.to = Substitute[h]]
<1>1. r.pc = "delegate" /\ sess' = [sess EXCEPT ![s] = Idle] /\ UNCHANGED <<doc, finalised>>
  BY DEF Delegate
<1>2. /\ r.id \in DOMAIN tasks /\ SameStep(r.task, tasks[r.id]) /\ TaskSound(tasks[r.id], doc.sub)
      /\ tasks[r.id] \in TaskType /\ r.task.amount \in Amounts /\ r.user \in Users /\ r.task \in TaskType
      /\ r.task.step \in DOMAIN Steps[r.task.amount]
      /\ r.task.level \in DOMAIN Steps[r.task.amount][r.task.step]
  BY <1>1, AtHand
<1>3. h \in Users
  <2>1. Members(r.task) # {} /\ Members(r.task) \in SUBSET Users
    BY <1>2, StepsAre DEF Members
  <2>2. (CHOOSE u \in Members(r.task) : TRUE) \in Users
    BY <2>1
  <2>3. r.task.to \in Users \cup {Nobody}
    BY <1>2 DEF TaskType
  <2> QED
    BY <1>2, <2>2, <2>3 DEF HolderOf
<1> HIDE DEF h
<1>4. CASE Substitute[h] \in {Nobody, h}
  <2>1. UNCHANGED <<tasks, handed>>
    BY <1>4 DEF Delegate, h
  <2>2. sess' \in [Sessions -> SessionType] /\ \A o \in Sessions : SessionKept(sess'[o], tasks', doc'.sub)
    BY <1>1, <2>1, OneDone DEF SameStep
  <2>3. DocumentKept(doc', tasks') /\ TasksKept(tasks', doc'.sub)
    BY <1>1, <2>1 DEF WorkflowInv
  <2> QED
    BY <1>1, <2>1, <2>2, <2>3 DEF WorkflowInv
<1>5. CASE Substitute[h] \notin {Nobody, h}
  <2>1. tasks' = [tasks EXCEPT ![r.id] = x] /\ handed' = [handed EXCEPT ![r.id] = @ \cup {h}]
    BY <1>5 DEF Delegate, h
  <2>2. Substitute[h] \in Users /\ (NeverToRequester => Substitute[h] # Requester)
    BY <1>3, <1>5, ConstantsAssumption DEF NeverToRequester
  <2>3. /\ x.amount = tasks[r.id].amount /\ x.sub = tasks[r.id].sub /\ x.step = tasks[r.id].step /\ x.level = tasks[r.id].level
        /\ x.status = tasks[r.id].status /\ x.to = Substitute[h] /\ x \in TaskType
    BY <1>2, <1>3, <2>2 DEF TaskType
  <2> HIDE DEF x
  <2>4. TaskSound(x, doc.sub) /\ SameStep(x, tasks[r.id])
    BY <1>2, <2>2, <2>3, <1>5 DEF TaskSound, SameStep, Members
  <2>5. handed' \in [DOMAIN tasks -> SUBSET Users]
    BY <1>2, <1>3, <2>1 DEF WorkflowInv
  <2> QED
    BY <1>1, <1>2, <2>1, <2>3, <2>4, <2>5, TaskMoved
<1> QED
  BY <1>4, <1>5

\* Step k of submission `sub` is approved, of amount a: rows U, the new ones at the end.
Approving(s, a, sub, k, first, new, U) ==
    /\ sess[s].pc = "decide" /\ sess[s].yes
    /\ a = sess[s].task.amount /\ sub = sess[s].task.sub /\ k = sess[s].task.step
    /\ first = k + 1 /\ new = Created(a, sub, first) /\ U = Decided(s, "APPROVED") \o new

\* An approval with the tasks it creates, in place of the rows there were.
LEMMA ApprovedIs ==
    ASSUME WorkflowInv, NEW s \in Sessions, NEW a, NEW sub, NEW k, NEW first, NEW new, NEW U,
           Approving(s, a, sub, k, first, new, U)
    PROVE  /\ a \in Amounts /\ k \in DOMAIN Steps[a] /\ sub \in 1 .. doc.sub
           /\ new \in Seq(TaskType) /\ DOMAIN new = 1 .. Len(new) /\ Len(new) \in Nat /\ Len(tasks) \in Nat
           /\ TasksKept(U, doc.sub) /\ DOMAIN U = 1 .. Len(tasks) + Len(new) /\ DOMAIN tasks = 1 .. Len(tasks)
           /\ \A t \in DOMAIN tasks : SameStep(U[t], tasks[t]) /\ (t # sess[s].id => U[t] = tasks[t])
           /\ U[sess[s].id].status = "APPROVED"
           /\ \A i \in DOMAIN new :
                 /\ U[Len(tasks) + i] = new[i] /\ new[i].step = k + i
                 /\ new[i].sub = sub /\ new[i].amount = a /\ new[i].status # "REJECTED"
           /\ AllClear(a, first) =>
                 /\ Len(new) = Len(Steps[a]) - k
                 /\ \A i \in DOMAIN new : new[i].status = "APPROVED"
           /\ ~ AllClear(a, first) => Len(new) \in DOMAIN new /\ new[Len(new)].status = "PENDING"
<1> DEFINE r == sess[s]
           T == Decided(s, "APPROVED")
<1>1. /\ a \in Amounts /\ r.id \in DOMAIN tasks /\ tasks[r.id].amount = a /\ tasks[r.id].sub = sub /\ tasks[r.id].step = k
      /\ k \in DOMAIN Steps[a] /\ k \in Nat \ {0}
      /\ sub \in 1 .. doc.sub /\ doc.sub \in Nat /\ tasks \in Seq(TaskType) /\ DOMAIN tasks = 1 .. Len(tasks)
  <2>1. sess[s].pc = "decide" /\ a = r.task.amount /\ sub = r.task.sub /\ k = r.task.step
    BY DEF Approving
  <2> QED
    BY <2>1, AtHand DEF SameStep
<1>2. /\ TasksKept(T, doc.sub) /\ DOMAIN T = DOMAIN tasks
      /\ \A t \in DOMAIN tasks : SameStep(T[t], tasks[t]) /\ (t # r.id => T[t] = tasks[t])
      /\ T[r.id].status = "APPROVED"
  BY DecidedIs DEF Approving
<1>3. Len(Steps[a]) \in Nat /\ DOMAIN Steps[a] = 1 .. Len(Steps[a])
  BY <1>1, StepsAre
<1>4. first \in Nat \ {0} /\ first <= Len(Steps[a]) + 1 /\ sub \in Nat \ {0} /\ first - 1 = k
  <2>1. first = k + 1
    BY DEF Approving
  <2> QED
    BY <2>1, <1>1, <1>3
<1>5. /\ new \in Seq(TaskType) /\ DOMAIN new = 1 .. Len(new)
      /\ \A i \in DOMAIN new : /\ new[i].sub = sub /\ new[i].amount = a /\ new[i].step = first + i - 1
                              /\ new[i].status \in {"PENDING", "APPROVED"}
      /\ AllClear(a, first) =>
            /\ Len(new) = Len(Steps[a]) - first + 1
            /\ \A i \in DOMAIN new : new[i].status = "APPROVED"
      /\ ~ AllClear(a, first) => Len(new) \in DOMAIN new /\ new[Len(new)].status = "PENDING"
  <2>1. new = Created(a, sub, first)
    BY DEF Approving
  <2> QED
    <3>1. a \in Amounts
      BY <1>1
    <3>2. sub \in Nat \ {0} /\ first \in Nat \ {0} /\ first <= Len(Steps[a]) + 1
      BY <1>4
    <3>3. Leaves(new, a, sub, first)
      BY <2>1, <3>1, <3>2, CreatedIs
    <3> QED
      BY <3>3 DEF Leaves
<1> HIDE DEF T
<1>6. \E id \in DOMAIN T : /\ T[id].amount = a /\ T[id].sub = sub /\ T[id].step = first - 1 /\ T[id].status # "PENDING"
  <2>1. T[r.id].amount = a /\ T[r.id].sub = sub /\ T[r.id].step = k
    BY <1>1, <1>2 DEF SameStep
  <2> QED
    BY <1>1, <1>2, <1>4, <2>1
<1>7. /\ TasksKept(U, doc.sub) /\ Len(U) = Len(T) + Len(new)
      /\ \A t \in 1 .. Len(T) : U[t] = T[t]
      /\ \A i \in 1 .. Len(new) : U[Len(T) + i] = new[i]
  <2>1. U = T \o Created(a, sub, first)
    BY DEF T, Approving
  <2>3. new = Created(a, sub, first)
    BY DEF Approving
  <2>2. /\ TasksKept(T \o Created(a, sub, first), doc.sub)
        /\ Len(T \o Created(a, sub, first)) = Len(T) + Len(Created(a, sub, first))
        /\ \A t \in 1 .. Len(T) : (T \o Created(a, sub, first))[t] = T[t]
        /\ \A i \in 1 .. Len(Created(a, sub, first)) :
             (T \o Created(a, sub, first))[Len(T) + i] = Created(a, sub, first)[i]
    <3>1. a \in Amounts /\ doc.sub \in Nat /\ sub \in 1 .. doc.sub
      BY <1>1
    <3>2. first \in Nat \ {0} /\ first <= Len(Steps[a]) + 1
      BY <1>4
    <3>3. TasksKept(T, doc.sub)
      BY <1>2
    <3> QED
      BY <3>1, <3>2, <3>3, <1>6, Lengthened
  <2> QED
    BY <2>1, <2>2, <2>3
<1>8. Len(T) = Len(tasks) /\ Len(new) \in Nat /\ Len(tasks) \in Nat /\ DOMAIN U = 1 .. Len(tasks) + Len(new)
  <2>1. T \in Seq(TaskType) /\ U \in Seq(TaskType)
    BY <1>2, <1>7 DEF TasksKept
  <2>2. Len(T) = Len(tasks)
    BY <2>1, <1>1, <1>2
  <2> QED
    BY <2>1, <2>2, <1>1, <1>5, <1>7
<1>9. \A t \in DOMAIN tasks : SameStep(U[t], tasks[t]) /\ (t # r.id => U[t] = tasks[t])
  BY <1>1, <1>2, <1>7, <1>8
<1>10. U[r.id].status = "APPROVED"
  BY <1>1, <1>2, <1>7, <1>8
<1>11. ASSUME NEW i \in DOMAIN new
       PROVE  /\ U[Len(tasks) + i] = new[i] /\ new[i].step = k + i
              /\ new[i].sub = sub /\ new[i].amount = a /\ new[i].status # "REJECTED"
  <2>1. i \in 1 .. Len(new) /\ first + i - 1 = k + i
    BY <1>1, <1>4, <1>5, <1>8
  <2> QED
    BY <2>1, <1>5, <1>7, <1>8
<1>12. Len(Steps[a]) - first + 1 = Len(Steps[a]) - k
  BY <1>1, <1>3, <1>4
<1> QED
  BY <1>1, <1>5, <1>7, <1>8, <1>9, <1>10, <1>11, <1>12

\* A decision that goes on to the next step keeps the invariant.
LEMMA NextStepStep == ASSUME WorkflowInv, NEW s \in Sessions, NextStep(s) PROVE WorkflowInv'
<1> DEFINE r == sess[s]
<1>0. PICK a, sub, k, first, new, U : Approving(s, a, sub, k, first, new, U)
  BY DEF Approving, NextStep
<1>1. /\ r.pc = "decide" /\ r.yes /\ ~ AllClear(a, first) /\ tasks' = U
      /\ handed' = handed \o [i \in DOMAIN new |-> {}] /\ sess' = [sess EXCEPT ![s] = Idle] /\ UNCHANGED <<doc, finalised>>
  BY <1>0 DEF NextStep, Approving
<1>2. /\ DOMAIN new = 1 .. Len(new) /\ Len(new) \in Nat /\ Len(tasks) \in Nat
      /\ TasksKept(U, doc.sub) /\ DOMAIN U = 1 .. Len(tasks) + Len(new) /\ DOMAIN tasks = 1 .. Len(tasks)
      /\ \A t \in DOMAIN tasks : SameStep(U[t], tasks[t]) /\ (t # r.id => U[t] = tasks[t])
      /\ U[r.id].status = "APPROVED"
      /\ \A i \in DOMAIN new :
            /\ U[Len(tasks) + i] = new[i]
            /\ new[i].sub = sub /\ new[i].amount = a /\ new[i].status # "REJECTED"
      /\ Len(new) \in DOMAIN new /\ new[Len(new)].status = "PENDING"
  BY <1>0, <1>1, ApprovedIs
<1>3. r.id \in DOMAIN tasks /\ SameStep(r.task, tasks[r.id])
  BY <1>1, AtHand
<1>5. DocumentKept(doc', tasks')
  <2>1. DocumentKept(doc, tasks) /\ doc' = doc
    BY <1>1 DEF WorkflowInv
  <2>2. \E t \in DOMAIN U : U[t].status = "PENDING"
    <3>1. Len(tasks) + Len(new) \in DOMAIN U /\ U[Len(tasks) + Len(new)] = new[Len(new)]
      BY <1>2
    <3> QED
      BY <3>1, <1>2
  <2>3. ASSUME doc.status = "Pending", NEW t \in DOMAIN U, U[t].sub = doc.sub
        PROVE  U[t].amount = doc.amount /\ U[t].status # "REJECTED"
    <3>0. \A q \in DOMAIN tasks : tasks[q].sub = doc.sub => tasks[q].amount = doc.amount /\ tasks[q].status # "REJECTED"
      BY <2>1, <2>3 DEF DocumentKept
    <3>1. CASE t \in DOMAIN tasks
      <4>1. U[t].sub = tasks[t].sub /\ U[t].amount = tasks[t].amount
        BY <3>1, <1>2 DEF SameStep
      <4>2. t = r.id \/ U[t] = tasks[t]
        BY <3>1, <1>2
      <4> QED
        BY <3>0, <3>1, <4>1, <4>2, <2>3, <1>2
    <3>2. CASE t \notin DOMAIN tasks
      <4>1. t - Len(tasks) \in 1 .. Len(new) /\ t = Len(tasks) + (t - Len(tasks))
        BY <3>2, <1>2
      <4>2. U[t].sub = sub /\ U[t].amount = a /\ U[t].status # "REJECTED"
        BY <4>1, <1>2
      <4>3. tasks[r.id].sub = doc.sub /\ tasks[r.id].amount = a
        BY <4>2, <1>0, <1>3, <2>3 DEF SameStep, Approving
      <4> QED
        BY <3>0, <4>2, <4>3, <1>3
    <3> QED
      BY <3>1, <3>2
  <2> QED
    BY <1>1, <2>1, <2>2, <2>3 DEF DocumentKept
<1>6. DOMAIN tasks \subseteq DOMAIN U
  BY <1>2
<1>7. sess' \in [Sessions -> SessionType] /\ \A o \in Sessions : SessionKept(sess'[o], tasks', doc'.sub)
  BY <1>1, <1>2, <1>6, OneDone
<1>8. handed' \in [DOMAIN tasks' -> SUBSET Users]
  <2>1. handed \in [1 .. Len(tasks) -> SUBSET Users]
    BY <1>2 DEF WorkflowInv
  <2>2. handed' = handed \o [i \in 1 .. Len(new) |-> {}]
    BY <1>1, <1>2
  <2>3. handed \o [i \in 1 .. Len(new) |-> {}] \in [1 .. Len(tasks) + Len(new) -> SUBSET Users]
    BY <2>1, <1>2, HandedLonger
  <2>4. DOMAIN tasks' = 1 .. Len(tasks) + Len(new)
    BY <1>1, <1>2
  <2> QED
    BY <2>2, <2>3, <2>4
<1> QED
  BY <1>1, <1>2, <1>5, <1>7, <1>8 DEF WorkflowInv

\* A decision finalised: what it does to the rows, and to the document if that is pending.
LEMMA FinaliseStep == ASSUME WorkflowInv, NEW s \in Sessions, Finalise(s) PROVE WorkflowInv'
<1> DEFINE r == sess[s]
<1>1. r.pc = "decide" /\ sess' = [sess EXCEPT ![s] = Idle]
  BY DEF Finalise
<1>2. /\ r.task.sub \in 1 .. doc.sub /\ doc.sub \in Nat /\ doc \in DocType /\ DocumentKept(doc, tasks)
      /\ TasksKept(tasks, doc.sub) /\ tasks \in Seq(TaskType)
      /\ finalised \in [1 .. MaxSubmits -> Nat] /\ handed \in [DOMAIN tasks -> SUBSET Users]
  BY <1>1, AtHand DEF WorkflowInv, DocumentKept
<1>3. CASE UNCHANGED <<doc, tasks, finalised, handed>>
  <2>1. sess' \in [Sessions -> SessionType] /\ \A o \in Sessions : SessionKept(sess'[o], tasks', doc'.sub)
    BY <1>1, <1>3, OneDone DEF SameStep
  <2>2. DocumentKept(doc', tasks') /\ TasksKept(tasks', doc'.sub)
    BY <1>2, <1>3
  <2> QED
    BY <1>2, <1>3, <2>1, <2>2 DEF WorkflowInv
<1>4. ASSUME doc' = [doc EXCEPT !.status = IF ~HasStatus THEN @ ELSE IF r.yes THEN "Approved" ELSE "Open"]
      PROVE  DocumentKept(doc', tasks') /\ doc'.sub = doc.sub
  <2>1. doc' \in DocType /\ doc'.sub = doc.sub /\ (~ HasStatus => doc'.status = doc.status) /\ (HasStatus => doc'.status # "Pending")
    BY <1>2, <1>4 DEF DocType, Statuses
  <2>2. doc'.status # "Pending"
    BY <2>1, <1>2 DEF DocumentKept
  <2> QED
    BY <2>1, <2>2, <1>2 DEF DocumentKept
<1>5. CASE /\ r.yes /\ tasks' = Decided(s, "APPROVED") \o Created(r.task.amount, r.task.sub, r.task.step + 1)
           /\ handed' = handed \o [i \in DOMAIN Created(r.task.amount, r.task.sub, r.task.step + 1) |-> {}]
           /\ doc' = [doc EXCEPT !.status = IF ~HasStatus THEN @ ELSE IF r.yes THEN "Approved" ELSE "Open"]
           /\ finalised' = [finalised EXCEPT ![r.task.sub] = @ + 1]
  <2>0. PICK a, sub, k, first, new, U : Approving(s, a, sub, k, first, new, U)
    BY <1>1, <1>5 DEF Approving
  <2>1. tasks' = U /\ handed' = handed \o [i \in DOMAIN new |-> {}]
    BY <1>5, <2>0 DEF Approving
  <2>2. /\ DOMAIN new = 1 .. Len(new) /\ Len(new) \in Nat /\ Len(tasks) \in Nat
        /\ TasksKept(U, doc.sub) /\ DOMAIN U = 1 .. Len(tasks) + Len(new) /\ DOMAIN tasks = 1 .. Len(tasks)
        /\ \A t \in DOMAIN tasks : SameStep(U[t], tasks[t])
    BY <2>0, ApprovedIs
  <2>3. DocumentKept(doc', tasks') /\ doc'.sub = doc.sub
    BY <1>4, <1>5
  <2>4. DOMAIN tasks \subseteq DOMAIN U
    BY <2>2
  <2>5. sess' \in [Sessions -> SessionType] /\ \A o \in Sessions : SessionKept(sess'[o], tasks', doc'.sub)
    BY <1>1, <2>1, <2>2, <2>3, <2>4, OneDone
  <2>6. handed' \in [DOMAIN tasks' -> SUBSET Users]
    <3>1. handed \in [1 .. Len(tasks) -> SUBSET Users]
      BY <1>2, <2>2
    <3>2. handed' = handed \o [i \in 1 .. Len(new) |-> {}]
      BY <2>1, <2>2
    <3>3. handed \o [i \in 1 .. Len(new) |-> {}] \in [1 .. Len(tasks) + Len(new) -> SUBSET Users]
      BY <3>1, <2>2, HandedLonger
    <3>4. DOMAIN tasks' = 1 .. Len(tasks) + Len(new)
      BY <2>1, <2>2
    <3> QED
      BY <3>2, <3>3, <3>4
  <2>7. finalised' \in [1 .. MaxSubmits -> Nat]
    <3>1. r.task.sub \in 1 .. MaxSubmits
      BY <1>2, ConstantsAssumption DEF DocumentKept
    <3>2. finalised[r.task.sub] + 1 \in Nat
      BY <1>2, <3>1
    <3> QED
      BY <1>2, <1>5, <3>2
  <2> QED
    BY <2>1, <2>2, <2>3, <2>5, <2>6, <2>7 DEF WorkflowInv
<1>6. CASE /\ ~ r.yes /\ tasks' = Decided(s, "REJECTED") \o <<>>
           /\ handed' = handed \o [i \in DOMAIN <<>> |-> {}]
           /\ doc' = [doc EXCEPT !.status = IF ~HasStatus THEN @ ELSE IF r.yes THEN "Approved" ELSE "Open"]
           /\ finalised' = finalised
  <2>1. /\ TasksKept(Decided(s, "REJECTED"), doc.sub) /\ DOMAIN Decided(s, "REJECTED") = DOMAIN tasks
        /\ \A t \in DOMAIN tasks : SameStep(Decided(s, "REJECTED")[t], tasks[t])
    BY <1>1, <1>6, DecidedIs
  <2>2. tasks' = Decided(s, "REJECTED")
    <3>1. Decided(s, "REJECTED") \in Seq(TaskType)
      BY <2>1 DEF TasksKept
    <3> QED
      BY <1>6, <3>1
  <2>3. DocumentKept(doc', tasks') /\ doc'.sub = doc.sub
    BY <1>4, <1>6
  <2>4. sess' \in [Sessions -> SessionType] /\ \A o \in Sessions : SessionKept(sess'[o], tasks', doc'.sub)
    <3>1. DOMAIN tasks \subseteq DOMAIN tasks' /\ \A t \in DOMAIN tasks : SameStep(tasks'[t], tasks[t])
      BY <2>1, <2>2
    <3> QED
      BY <1>1, <2>3, <3>1, OneDone
  <2>5. handed' \in [DOMAIN tasks' -> SUBSET Users]
    <3>1. handed \in [1 .. Len(tasks) -> SUBSET Users] /\ Len(tasks) \in Nat /\ DOMAIN tasks = 1 .. Len(tasks)
      BY <1>2
    <3>2. handed' = handed \o [i \in 1 .. 0 |-> {}]
      BY <1>6
    <3>3. handed \o [i \in 1 .. 0 |-> {}] \in [1 .. Len(tasks) + 0 -> SUBSET Users]
      BY <3>1, HandedLonger
    <3> QED
      BY <2>1, <2>2, <3>1, <3>2, <3>3
  <2> QED
    BY <1>2, <1>6, <2>1, <2>2, <2>3, <2>4, <2>5 DEF WorkflowInv
<1>7. ASSUME ~ UNCHANGED <<doc, tasks, finalised, handed>>, r.yes
      PROVE  WorkflowInv'
  <2> DEFINE new == Created(r.task.amount, r.task.sub, r.task.step + 1)
  <2>1. /\ tasks' = Decided(s, "APPROVED") \o new /\ handed' = handed \o [i \in DOMAIN new |-> {}]
        /\ doc' = [doc EXCEPT !.status = IF ~HasStatus THEN @ ELSE IF r.yes THEN "Approved" ELSE "Open"]
        /\ finalised' = [finalised EXCEPT ![r.task.sub] = @ + 1]
    <3> DEFINE status == IF r.yes THEN "APPROVED" ELSE "REJECTED"
               made == IF r.yes THEN new ELSE <<>>
               done == IF r.yes THEN [finalised EXCEPT ![r.task.sub] = @ + 1] ELSE finalised
    <3>1. /\ tasks' = Decided(s, status) \o made /\ handed' = handed \o [i \in DOMAIN made |-> {}]
          /\ doc' = [doc EXCEPT !.status = IF ~HasStatus THEN @ ELSE IF r.yes THEN "Approved" ELSE "Open"]
          /\ finalised' = done
      BY <1>7, Zenon DEF Finalise
    <3>2. status = "APPROVED" /\ made = new /\ done = [finalised EXCEPT ![r.task.sub] = @ + 1]
      BY <1>7
    <3> HIDE DEF status, made, done
    <3> QED
      BY <3>1, <3>2
  <2> QED
    BY <1>5, <1>7, <2>1
<1>8. ASSUME ~ UNCHANGED <<doc, tasks, finalised, handed>>, ~ r.yes
      PROVE  WorkflowInv'
  BY <1>6, <1>8 DEF Finalise
<1> QED
  BY <1>3, <1>7, <1>8

\* Every step of the workflow keeps its invariant.
LEMMA WorkflowStepInv == WorkflowInv /\ [Next]_vars => WorkflowInv'
<1> SUFFICES ASSUME WorkflowInv, [Next]_vars PROVE WorkflowInv'
  OBVIOUS
<1>1. CASE Edit \/ Recall \/ Reopen
  BY <1>1, EditStep
<1>2. CASE Submit
  BY <1>2, SubmitStep
<1>3. ASSUME NEW s \in Sessions, ReadTask(s) \/ Decide(s) \/ Delegate(s) PROVE WorkflowInv'
  BY <1>3, ReadStep, RefuseStep, ClearLevelStep, NextStepStep, FinaliseStep, DelegateStep DEF Decide
<1>4. CASE UNCHANGED vars
  BY <1>4 DEF vars, WorkflowInv
<1> QED
  BY <1>1, <1>2, <1>3, <1>4 DEF Next

\* The invariant is at least the property.
LEMMA TasksAreSound == WorkflowInv => TasksSound
<1> SUFFICES ASSUME WorkflowInv PROVE TasksSound
  OBVIOUS
<1>1. DocumentKept(doc, tasks) /\ TasksKept(tasks, doc.sub)
  BY DEF WorkflowInv
<1>2. TypeOK
  <2> QED
    BY <1>1 DEF TypeOK, WorkflowInv, DocumentKept, TasksKept, TaskSound
<1>3. StepsInOrder
  <2> SUFFICES ASSUME NEW t \in DOMAIN tasks, tasks[t].step > 1
      PROVE  \E p \in DOMAIN tasks :
                /\ p < t /\ tasks[p].sub = tasks[t].sub /\ tasks[p].amount = tasks[t].amount
                /\ tasks[p].step = tasks[t].step - 1 /\ tasks[p].status # "PENDING"
    BY DEF StepsInOrder
  <2>1. tasks[t] \in TaskType /\ t \in Nat /\ DOMAIN tasks = 1 .. Len(tasks)
    BY <1>1 DEF TasksKept
  <2>2. tasks[t].step \in Nat
    BY <2>1 DEF TaskType
  <2>3. tasks[t].step - 1 \in 1 .. tasks[t].step - 1
    BY <2>2
  <2>4. PICK p \in 1 .. t - 1 : /\ tasks[p].sub = tasks[t].sub /\ tasks[p].amount = tasks[t].amount
                                /\ tasks[p].step = tasks[t].step - 1 /\ tasks[p].status # "PENDING"
    BY <1>1, <2>3 DEF TasksKept, Reached
  <2>5. p \in DOMAIN tasks /\ p < t
    BY <2>1, <2>4
  <2> QED
    BY <2>4, <2>5
<1>4. NeverStranded
  <2> SUFFICES ASSUME doc.status = "Pending"
      PROVE  \E t \in DOMAIN tasks : tasks[t].status = "PENDING" /\ Eligible(tasks[t]) # {}
    BY DEF NeverStranded
  <2>1. PICK t \in DOMAIN tasks : tasks[t].status = "PENDING"
    BY <1>1 DEF DocumentKept
  <2>2. TaskSound(tasks[t], doc.sub)
    BY <1>1, <2>1 DEF TasksKept
  <2> QED
    BY <2>1, <2>2, SomebodyMay
<1> QED
  BY <1>2, <1>3, <1>4 DEF TasksSound

\* The tasks of a document are well typed, each step was reached through a decision of the
\* one before, and a pending document has a task somebody may decide.
THEOREM TasksSoundAlways == Spec => []TasksSound
<1> QED
  BY WorkflowInitInv, WorkflowStepInv, TasksAreSound, PTL DEF Spec

\* Whoever decides a level the requester shares is somebody else.
LEMMA DeciderIsOther ==
    ASSUME WorkflowInv, NeverToRequester, NEW s \in Sessions, Decide(s), Members(sess[s].task) # {Requester}
    PROVE  sess[s].user # Requester
<1>1. sess[s].pc = "decide"
  <2>1. ClearLevel(s) \/ NextStep(s) \/ Finalise(s) \/ Refuse(s)
    BY DEF Decide
  <2>2. ClearLevel(s) => sess[s].pc = "decide"
    BY DEF ClearLevel
  <2>3. NextStep(s) => sess[s].pc = "decide"
    BY DEF NextStep
  <2>4. Finalise(s) => sess[s].pc = "decide"
    BY DEF Finalise
  <2>5. Refuse(s) => sess[s].pc = "decide"
    BY DEF Refuse
  <2> QED
    BY <2>1, <2>2, <2>3, <2>4, <2>5
<1>2. TaskSound(sess[s].task, doc.sub) /\ sess[s].user \in Eligible(sess[s].task)
  BY <1>1, AtHand
<1> QED
  BY <1>2, OtherThanRequester

Covered(d, T) ==
    \A k \in DOMAIN Steps[d.amount] :
        \E t \in DOMAIN T :
            /\ T[t].sub = d.sub /\ T[t].amount = d.amount
            /\ T[t].step = k /\ T[t].status = "APPROVED"

\* Tasks appended leave the earlier ones where they were and follow them.
LEMMA Appended ==
    ASSUME NEW T \in Seq(TaskType), NEW more \in Seq(TaskType)
    PROVE  /\ DOMAIN (T \o more) = 1 .. Len(T) + Len(more)
           /\ \A i \in 1 .. Len(more) : (T \o more)[Len(T) + i] = more[i]
<1>1. /\ T \o more \in Seq(TaskType) /\ Len(T \o more) = Len(T) + Len(more)
      /\ Len(T) \in Nat /\ Len(more) \in Nat
  OBVIOUS
<1>2. ASSUME NEW i \in 1 .. Len(more)  PROVE (T \o more)[Len(T) + i] = more[i]
  BY <1>1
<1> QED
  BY <1>1, <1>2

\* A document the requester may approve alone is created with every step approved.
LEMMA SubmittedInFull ==
    ASSUME WorkflowInv, Submit, doc'.status = "Approved"
    PROVE  Covered(doc', tasks')
<1>0. PICK sub \in Nat \ {0} : sub = doc.sub + 1
  BY DEF WorkflowInv, DocumentKept, DocType
<1> DEFINE new == Created(doc.amount, sub, 1)
<1>1. /\ doc \in DocType /\ doc.amount \in Amounts /\ TasksKept(tasks, doc.sub) /\ doc.sub \in Nat
      /\ tasks \in Seq(TaskType) /\ Len(tasks) \in Nat
  BY DEF WorkflowInv, DocumentKept, DocType, TasksKept
<1>2. /\ AllClear(doc.amount, 1) /\ tasks' = tasks \o new
      /\ doc'.amount = doc.amount /\ doc'.sub = sub
  BY <1>0, <1>1 DEF Submit, DocType
<1>3. Len(Steps[doc.amount]) \in Nat /\ 1 <= Len(Steps[doc.amount]) + 1 /\ DOMAIN Steps[doc.amount] = 1 .. Len(Steps[doc.amount])
  BY <1>1, StepsAre
<1>4. Leaves(new, doc.amount, sub, 1)
  <2>1. doc.amount \in Amounts /\ 1 <= Len(Steps[doc.amount]) + 1 /\ 1 \in Nat \ {0} /\ sub \in Nat \ {0}
    BY <1>0, <1>1, <1>3
  <2> QED
    BY <2>1, CreatedIs
<1> HIDE DEF new
<1>5. /\ new \in Seq(TaskType) /\ DOMAIN new = 1 .. Len(new)
      /\ \A i \in DOMAIN new : /\ new[i].sub = sub /\ new[i].amount = doc.amount /\ new[i].step = 1 + i - 1
                              /\ new[i].status = "APPROVED"
      /\ Len(new) = Len(Steps[doc.amount]) - 1 + 1
  <2>1. AllClear(doc.amount, 1)
    BY <1>2
  <2> QED
    BY <2>1, <1>4 DEF Leaves
<1>6. DOMAIN tasks' = 1 .. Len(tasks) + Len(new) /\ \A i \in 1 .. Len(new) : tasks'[Len(tasks) + i] = new[i]
  <2>1. tasks' = tasks \o new /\ tasks \in Seq(TaskType) /\ new \in Seq(TaskType)
    BY <1>1, <1>2, <1>5
  <2> QED
    BY <2>1, Appended
<1>7. ASSUME NEW k \in DOMAIN Steps[doc.amount]
      PROVE  \E t \in DOMAIN tasks' :
                /\ tasks'[t].sub = sub /\ tasks'[t].amount = doc.amount
                /\ tasks'[t].step = k /\ tasks'[t].status = "APPROVED"
  <2>1. k \in 1 .. Len(new) /\ k \in DOMAIN new /\ 1 + k - 1 = k
    BY <1>3, <1>5
  <2>2. tasks'[Len(tasks) + k] = new[k] /\ Len(tasks) + k \in DOMAIN tasks'
    BY <2>1, <1>1, <1>6
  <2>3. new[k].sub = sub /\ new[k].amount = doc.amount /\ new[k].step = k /\ new[k].status = "APPROVED"
    BY <2>1, <1>5
  <2> QED
    BY <2>2, <2>3
<1> QED
  BY <1>2, <1>7 DEF Covered

\* A decision on a task of the present submission that approves the document was the last
\* one it took.
LEMMA FinalisedInFull ==
    ASSUME WorkflowInv, NEW s \in Sessions, Finalise(s), doc.status # "Approved", doc'.status = "Approved",
           ~ (sess[s].task.sub < doc.sub)
    PROVE  Covered(doc', tasks')
<1> DEFINE r == sess[s]
<1>1. /\ r.pc = "decide" /\ doc \in DocType /\ doc.sub \in Nat /\ DocumentKept(doc, tasks) /\ TasksKept(tasks, doc.sub)
  BY DEF Finalise, WorkflowInv, DocumentKept, DocType
<1>2. /\ HasStatus /\ doc.status = "Pending" /\ r.yes /\ AllClear(r.task.amount, r.task.step + 1)
      /\ tasks' = Decided(s, "APPROVED") \o Created(r.task.amount, r.task.sub, r.task.step + 1)
      /\ doc' = [doc EXCEPT !.status = "Approved"]
  <2> DEFINE status == IF r.yes THEN "APPROVED" ELSE "REJECTED"
             made == IF r.yes THEN Created(r.task.amount, r.task.sub, r.task.step + 1) ELSE <<>>
             next == IF ~HasStatus THEN doc.status ELSE IF r.yes THEN "Approved" ELSE "Open"
  <2>1. /\ HasStatus => doc.status = "Pending"
        /\ tasks' = Decided(s, status) \o made /\ doc' = [doc EXCEPT !.status = next]
    <3>1. doc' # doc
      OBVIOUS
    <3> QED
      BY <3>1, Zenon DEF Finalise
  <2>2. r.yes => AllClear(r.task.amount, r.task.step + 1)
    BY DEF Finalise
  <2>3. doc'.status = next
    <3> HIDE DEF next
    <3> QED
      BY <2>1, <1>1 DEF DocType
  <2>4. HasStatus /\ r.yes
    BY <2>3
  <2>5. status = "APPROVED" /\ made = Created(r.task.amount, r.task.sub, r.task.step + 1) /\ next = "Approved"
    BY <2>4
  <2> HIDE DEF status, made, next
  <2> QED
    BY <2>1, <2>2, <2>4, <2>5
<1>3. PICK a, sub, k0, first, new, U : Approving(s, a, sub, k0, first, new, U)
  BY <1>1, <1>2 DEF Approving
<1>4. /\ a = r.task.amount /\ sub = r.task.sub /\ k0 = r.task.step /\ first = k0 + 1 /\ tasks' = U /\ AllClear(a, first)
  BY <1>2, <1>3 DEF Approving
<1>5. /\ a \in Amounts /\ k0 \in DOMAIN Steps[a] /\ sub \in 1 .. doc.sub
      /\ DOMAIN new = 1 .. Len(new) /\ Len(new) \in Nat /\ Len(tasks) \in Nat
      /\ DOMAIN U = 1 .. Len(tasks) + Len(new) /\ DOMAIN tasks = 1 .. Len(tasks)
      /\ \A t \in DOMAIN tasks : SameStep(U[t], tasks[t]) /\ (t # r.id => U[t] = tasks[t])
      /\ U[r.id].status = "APPROVED"
      /\ \A i \in DOMAIN new : U[Len(tasks) + i] = new[i] /\ new[i].step = k0 + i /\ new[i].sub = sub /\ new[i].amount = a
      /\ Len(new) = Len(Steps[a]) - k0 /\ \A i \in DOMAIN new : new[i].status = "APPROVED"
  BY <1>3, <1>4, ApprovedIs
<1>6. /\ r.id \in DOMAIN tasks /\ tasks[r.id].amount = a /\ tasks[r.id].sub = sub /\ tasks[r.id].step = k0
  BY <1>1, <1>4, AtHand DEF SameStep
<1>7. sub = doc.sub
  BY <1>1, <1>4, <1>5
<1>8. /\ a = doc.amount
      /\ \A t \in DOMAIN tasks : tasks[t].sub = sub => tasks[t].amount = a /\ tasks[t].status # "REJECTED"
  BY <1>1, <1>2, <1>6, <1>7 DEF DocumentKept
<1>9. doc'.amount = a /\ doc'.sub = sub
  BY <1>1, <1>2, <1>7, <1>8 DEF DocType
<1>10. Len(Steps[a]) \in Nat /\ DOMAIN Steps[a] = 1 .. Len(Steps[a]) /\ k0 \in Nat
  BY <1>5, StepsAre
<1>11. ASSUME NEW k \in DOMAIN Steps[a]
       PROVE  \E t \in DOMAIN U : U[t].sub = sub /\ U[t].amount = a /\ U[t].step = k /\ U[t].status = "APPROVED"
  <2>1. CASE k < k0
    <3>1. k \in 1 .. tasks[r.id].step - 1
      BY <2>1, <1>6, <1>10
    <3>2. PICK p \in 1 .. r.id - 1 : /\ tasks[p].sub = tasks[r.id].sub /\ tasks[p].amount = tasks[r.id].amount
                                     /\ tasks[p].step = k /\ tasks[p].status # "PENDING"
      BY <3>1, <1>1, <1>6 DEF TasksKept, Reached
    <3>3. p \in DOMAIN tasks /\ p # r.id /\ p \in DOMAIN U
      BY <3>2, <1>5, <1>6
    <3>4. tasks[p].status = "APPROVED"
      <4>1. tasks[p] \in TaskType
        BY <3>3, <1>1 DEF TasksKept, TaskSound
      <4> QED
        BY <4>1, <3>2, <3>3, <1>6, <1>8 DEF TaskType
    <3> QED
      BY <3>2, <3>3, <3>4, <1>5, <1>6
  <2>2. CASE k = k0
    <3>1. U[r.id].sub = sub /\ U[r.id].amount = a /\ U[r.id].step = k0 /\ r.id \in DOMAIN U
      BY <1>5, <1>6 DEF SameStep
    <3> QED
      BY <3>1, <2>2, <1>5
  <2>3. CASE k > k0
    <3>1. k - k0 \in 1 .. Len(new) /\ k0 + (k - k0) = k
      BY <2>3, <1>5, <1>10
    <3> DEFINE i == k - k0
    <3>2. U[Len(tasks) + i] = new[i] /\ new[i].step = k0 + i /\ new[i].sub = sub /\ new[i].amount = a /\ new[i].status = "APPROVED"
      BY <3>1, <1>5
    <3>3. Len(tasks) + i \in DOMAIN U
      BY <3>1, <1>5
    <3> HIDE DEF i
    <3>4. k0 + i = k
      BY <3>1 DEF i
    <3> QED
      BY <3>2, <3>3, <3>4
  <2> QED
    BY <2>1, <2>2, <2>3, <1>10
<1> QED
  BY <1>4, <1>9, <1>11 DEF Covered

ApprovalIsEarned ==
    doc.status # "Approved" /\ doc'.status = "Approved" =>
        \/ \E s \in Sessions : sess'[s] # sess[s] /\ sess[s].task.sub < doc.sub
        \/ Covered(doc', tasks')

\* A step approves the document only with every step of its present submission approved.
LEMMA ApprovedOnlyInFull == WorkflowInv /\ [Next]_vars => ApprovalIsEarned
<1> SUFFICES ASSUME WorkflowInv, [Next]_vars, doc.status # "Approved", doc'.status = "Approved"
    PROVE  \/ \E s \in Sessions : sess'[s] # sess[s] /\ sess[s].task.sub < doc.sub
           \/ Covered(doc', tasks')
  BY DEF ApprovalIsEarned
<1>1. Submit \/ \E s \in Sessions : Finalise(s)
  <2>1. doc' # doc
    OBVIOUS
  <2>2. doc \in DocType
    BY DEF WorkflowInv, DocumentKept
  <2>3. ~ Edit /\ ~ Recall /\ ~ Reopen
    BY <2>2 DEF Edit, Recall, Reopen, DocType
  <2>4. \A s \in Sessions : ~ ReadTask(s) /\ ~ Delegate(s) /\ ~ ClearLevel(s) /\ ~ NextStep(s) /\ ~ Refuse(s)
    BY <2>1 DEF ReadTask, Delegate, ClearLevel, NextStep, Refuse
  <2> QED
    BY <2>1, <2>3, <2>4 DEF Next, Decide, vars
<1>2. ASSUME NEW s \in Sessions, Finalise(s), sess[s].task.sub < doc.sub
      PROVE  sess'[s] # sess[s]
  <2>1. sess[s].pc = "decide" /\ sess' = [sess EXCEPT ![s] = Idle] /\ sess \in [Sessions -> SessionType]
    BY <1>2 DEF Finalise, WorkflowInv
  <2>2. sess'[s].pc = "idle"
    BY <2>1 DEF Idle
  <2> QED
    BY <2>1, <2>2
<1> QED
  BY <1>1, <1>2, SubmittedInFull, FinalisedInFull

\* Unless tasks are handed to the requester: a level the requester shares is decided by
\* somebody else, and an approval of the present submission is the last it takes.
THEOREM DecidedProperlyAlways ==
    ASSUME NeverToRequester
    PROVE  Spec => DecidedProperly
<1>1. WorkflowInv /\ [Next]_vars =>
        [\A s \in Sessions :
            (Decide(s) /\ tasks' # tasks /\ sess[s].yes
                /\ Members(sess[s].task) # {Requester}) => sess[s].user # Requester]_vars
  BY DeciderIsOther
<1>2. WorkflowInv /\ [Next]_vars =>
        [doc.status # "Approved" /\ doc'.status = "Approved" =>
           \/ \E s \in Sessions : sess'[s] # sess[s] /\ sess[s].task.sub < doc.sub
           \/ \A k \in DOMAIN Steps[doc'.amount] :
                \E t \in DOMAIN tasks' :
                  /\ tasks'[t].sub = doc'.sub /\ tasks'[t].amount = doc'.amount
                  /\ tasks'[t].step = k /\ tasks'[t].status = "APPROVED"]_vars
  BY ApprovedOnlyInFull DEF ApprovalIsEarned, Covered
<1>3. Spec => [][Next]_vars /\ []WorkflowInv
  BY WorkflowInitInv, WorkflowStepInv, PTL DEF Spec
<1>4. Spec => SharedLevelDecidedByOther
  BY <1>1, <1>3, PTL DEF SharedLevelDecidedByOther
<1>5. Spec => ApprovedInFull
  BY <1>2, <1>3, PTL DEF ApprovedInFull
<1> QED
  BY <1>4, <1>5 DEF DecidedProperly
=============================================================================
