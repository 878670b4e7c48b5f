------------------------------ MODULE Students ------------------------------
(* Students in their classes: an applicant or a child is admitted, placed   *)
(* in another class of the year or of the next, leaves and comes back; with *)
(* the enrolments of each year and the customer that is the fee account.    *)
(* A class is found to have room before the transaction that fills it; an   *)
(* admission commits before its application is closed; a guardian's edit    *)
(* reads a student and refreshes the fee account in a later statement.      *)
(*                                                                          *)
(* Not here: names, guardians and who of them is primary, photos, a class   *)
(* whose capacity is changed, electives.                                    *)
EXTENDS Naturals, Sequences, FiniteSets

CONSTANTS
    Streams, YearOf, GradeOf, Capacity,   \* the classes
    Offices,                              \* requests under way
    MaxPupils, MaxDirect                  \* bounds: pupils, those of them without an application

ASSUME StudentAssumption ==
    /\ Streams # {} /\ YearOf \in [Streams -> Nat \ {0}] /\ Capacity \in [Streams -> Nat]

Years == {YearOf[st] : st \in Streams}
SomeStream == CHOOSE st \in Streams : TRUE
NotEnrolled == [status |-> "none", stream |-> SomeStream]

VARIABLES
    pupils,       \* status, class, fee account blocked, admitted from the application
    enrolled,     \* of each pupil, the enrolment in each year (unique per year)
    application,  \* an application: status, the student it became
    office,       \* what each request has read
    studentMarks  \* "full", "back", "moved", "left", "sync", "twice", "file", "crash"

studentVars == <<pupils, enrolled, application, office, studentMarks>>

Standings == {"ACTIVE", "SUSPENDED", "LEFT"}
PupilType == [status : Standings, stream : Streams, blocked : BOOLEAN, from : {0, 1}]
EnrolmentType == [status : {"none", "ACTIVE", "REPEATED", "PROMOTED", "LEFT"}, stream : Streams]
OfficeType == [op : {"idle", "admit", "close", "file", "place", "write", "sync"}, from : {0, 1}, s : Nat,
               st : Streams, y : Years \cup {0}, old : EnrolmentType, status : Standings]
NoRequest == [op |-> "idle", from |-> 0, s |-> 0, st |-> SomeStream, y |-> 0, old |-> NotEnrolled, status |-> "ACTIVE"]
Doing(k, op) == office[k].op = op

StudentTypeOK ==
    /\ pupils \in Seq(PupilType) /\ enrolled \in Seq([Years -> EnrolmentType]) /\ Len(enrolled) = Len(pupils)
    /\ application \in [status : {"OPEN", "DECLINED", "ADMITTED"}, pupil : Nat]
    /\ office \in [Offices -> OfficeType]
    /\ \A k \in Offices : office[k].op \in {"close", "place", "write", "sync"} => office[k].s \in DOMAIN pupils
    /\ studentMarks \subseteq {"full", "back", "moved", "left", "sync", "twice", "file", "crash"}

StudentInit ==
    /\ pupils = <<>> /\ enrolled = <<>>
    /\ application = [status |-> "OPEN", pupil |-> 0]
    /\ office = [k \in Offices |-> NoRequest]
    /\ studentMarks = {}

Mark(condition, name) == IF condition THEN {name} ELSE {}

Roll(st) == {s \in DOMAIN pupils : pupils[s].stream = st /\ pupils[s].status = "ACTIVE"}
Room(st, without) == Cardinality(Roll(st) \ without) < Capacity[st]

ActiveYears(s) == {y \in Years : enrolled[s][y].status = "ACTIVE"}

(* Admission: a class with room is looked for ...                           *)
AskAdmit(k, from, st) ==
    /\ Doing(k, "idle") /\ Len(pupils) < MaxPupils
    /\ IF from = 1 THEN application.status = "OPEN"
       ELSE Cardinality({s \in DOMAIN pupils : pupils[s].from = 0}) < MaxDirect
    /\ Room(st, {})
    /\ office' = [office EXCEPT ![k] = [NoRequest EXCEPT !.op = "admit", !.from = from, !.st = st]]
    /\ UNCHANGED <<pupils, enrolled, application, studentMarks>>

(* ... and the student, the enrolment and the fee account are written       *)
(* together ("full": no room any more; "twice": the applicant is already a  *)
(* student).                                                                *)
Admit(k) ==
    /\ Doing(k, "admit") /\ Len(pupils) < MaxPupils
    /\ LET from == office[k].from
           st == office[k].st
       IN  /\ pupils' = Append(pupils, [status |-> "ACTIVE", stream |-> st, blocked |-> FALSE, from |-> from])
           /\ enrolled' = Append(enrolled, [y \in Years |-> IF y = YearOf[st] THEN [status |-> "ACTIVE", stream |-> st]
                                                            ELSE NotEnrolled])
           /\ studentMarks' = studentMarks \cup Mark(~Room(st, {}), "full")
                \cup Mark(from = 1 /\ \E s \in DOMAIN pupils : pupils[s].from = 1, "twice")
           /\ office' = [office EXCEPT ![k] = IF from = 1 THEN [NoRequest EXCEPT !.op = "close", !.s = Len(pupils) + 1] ELSE NoRequest]
    /\ UNCHANGED application

(* The application is closed, by its key and whatever it says by now.       *)
CloseApplication(k) ==
    /\ Doing(k, "close")
    /\ application' = [status |-> "ADMITTED", pupil |-> office[k].s]
    /\ office' = [office EXCEPT ![k] = NoRequest]
    /\ UNCHANGED <<pupils, enrolled, studentMarks>>

(* ... unless the process dies first.                                       *)
OfficeCrash(k) ==
    /\ Doing(k, "close")
    /\ office' = [office EXCEPT ![k] = NoRequest]
    /\ studentMarks' = studentMarks \cup {"crash"}
    /\ UNCHANGED <<pupils, enrolled, application>>

(* An edit or a change of status of an application that is not admitted ... *)
AskFile(k) ==
    /\ Doing(k, "idle") /\ application.status # "ADMITTED"
    /\ office' = [office EXCEPT ![k] = [NoRequest EXCEPT !.op = "file"]]
    /\ UNCHANGED <<pupils, enrolled, application, studentMarks>>

(* ... ("file": it is admitted by now).                                     *)
WriteFile(k, status) ==
    /\ Doing(k, "file")
    /\ application' = [application EXCEPT !.status = status]
    /\ studentMarks' = studentMarks \cup Mark(application.status = "ADMITTED", "file")
    /\ office' = [office EXCEPT ![k] = NoRequest]
    /\ UNCHANGED <<pupils, enrolled>>

(* A student changes class, alone or in the promotion of a class.           *)
AskPlace(k, s, st) ==
    /\ Doing(k, "idle") /\ pupils[s].status = "ACTIVE" /\ Room(st, {s})
    /\ office' = [office EXCEPT ![k] = [NoRequest EXCEPT !.op = "place", !.s = s, !.st = st]]
    /\ UNCHANGED <<pupils, enrolled, application, studentMarks>>

(* The transaction reads the active enrolment (0: there is none) ...        *)
WithEnrolment(o, y) ==
    [o EXCEPT !.op = "write", !.y = y, !.old = IF y = 0 THEN NotEnrolled ELSE enrolled[o.s][y]]

ReadEnrolment(k) ==
    /\ Doing(k, "place")
    /\ \E y \in IF ActiveYears(office[k].s) = {} THEN {0} ELSE ActiveYears(office[k].s) :
          office' = [office EXCEPT ![k] = WithEnrolment(office[k], y)]
    /\ UNCHANGED <<pupils, enrolled, application, studentMarks>>

(* The enrolments e once a student whose active one is of year y and class  *)
(* old is placed in st (first with a defect: the old one stays active).     *)
PlacedBeside(e, y, old, st) ==
    [e EXCEPT ![YearOf[st]] = [status |-> "ACTIVE", stream |-> st]]

Placed(e, y, old, st) ==
    IF y = YearOf[st] THEN [e EXCEPT ![y].stream = st]
    ELSE [i \in Years |->
            IF i = YearOf[st] THEN [status |-> "ACTIVE", stream |-> st]
            ELSE IF i = y THEN [e[i] EXCEPT !.status = IF GradeOf[old] = GradeOf[st] THEN "REPEATED" ELSE "PROMOTED"]
            ELSE e[i]]

(* ... and writes ("left": the student is not active any more; "moved": the *)
(* enrolment that was read is not the active one any more).                 *)
WritePlace(k) ==
    /\ Doing(k, "write")
    /\ LET s == office[k].s
           st == office[k].st
           y == office[k].y
           old == office[k].old
       IN  /\ enrolled' = [enrolled EXCEPT ![s] = Placed(@, y, old.stream, st)]
           /\ pupils' = [pupils EXCEPT ![s].stream = st]
           /\ studentMarks' = studentMarks
                \cup Mark(~Room(st, {s}), "full")
                \cup Mark(pupils[s].status # "ACTIVE", "left")
                \cup Mark(IF y = 0 THEN ActiveYears(s) # {} ELSE enrolled[s][y] # old, "moved")
    /\ office' = [office EXCEPT ![k] = NoRequest]
    /\ UNCHANGED application

(* A leaver's enrolment ends and the fee account is blocked; who comes back *)
(* ("back") is given neither an enrolment nor a place.                      *)
SetStudentStatus(s, status) ==
    /\ pupils' = [pupils EXCEPT ![s].status = status, ![s].blocked = status # "ACTIVE"]
    /\ enrolled' = IF status # "LEFT" THEN enrolled
                   ELSE [enrolled EXCEPT ![s] = [y \in Years |->
                            IF @[y].status = "ACTIVE" THEN [@[y] EXCEPT !.status = "LEFT"] ELSE @[y]]]
    /\ studentMarks' = studentMarks \cup Mark(status # "LEFT" /\ pupils[s].status # "ACTIVE" /\ status # pupils[s].status, "back")
    /\ UNCHANGED <<application, office>>

(* The fee account follows the guardian's edit: the student is read ...     *)
AskSync(k, s) ==
    /\ Doing(k, "idle")
    /\ office' = [office EXCEPT ![k] = [NoRequest EXCEPT !.op = "sync", !.s = s, !.status = pupils[s].status]]
    /\ UNCHANGED <<pupils, enrolled, application, studentMarks>>

(* ... and the account written ("sync": the status is another by now).      *)
SyncFeeCustomer(k) ==
    /\ Doing(k, "sync")
    /\ LET s == office[k].s
       IN  /\ pupils' = [pupils EXCEPT ![s].blocked = office[k].status # "ACTIVE"]
           /\ studentMarks' = studentMarks \cup Mark(pupils[s].status # office[k].status, "sync")
    /\ office' = [office EXCEPT ![k] = NoRequest]
    /\ UNCHANGED <<enrolled, application>>

StudentNext ==
    \/ \E k \in Offices :
          \/ \E from \in {0, 1}, st \in Streams : AskAdmit(k, from, st)
          \/ Admit(k) \/ CloseApplication(k) \/ OfficeCrash(k)
          \/ AskFile(k) \/ \E status \in {"OPEN", "DECLINED"} : WriteFile(k, status)
          \/ \E s \in DOMAIN pupils :
                \/ \E st \in Streams : AskPlace(k, s, st)
                \/ AskSync(k, s)
          \/ ReadEnrolment(k) \/ WritePlace(k) \/ SyncFeeCustomer(k)
    \/ \E s \in DOMAIN pupils, status \in Standings : SetStudentStatus(s, status)

StudentSpec == StudentInit /\ [][StudentNext]_studentVars

----------------------------------------------------------------------------
Unmarked(names) == names \cap studentMarks = {}
Admitted == {s \in DOMAIN pupils : pupils[s].from = 1}

(* Through admissions, placements, departures and returns: a student has at *)
(* most one active enrolment, who has not left has one, in the class the    *)
(* student's card names, and who has left has none; the fee account is      *)
(* blocked exactly for those who are not active; no class holds more than   *)
(* its capacity; an applicant becomes one student and the application says  *)
(* so.  Each part is promised unless the requests it depends on overtook    *)
(* one another, or, for enrolments and capacity, a leaver came back.        *)
StudentsSound ==
    /\ \A s \in DOMAIN pupils :
          /\ Unmarked({"moved", "left"}) =>
                /\ Cardinality(ActiveYears(s)) <= 1
                /\ pupils[s].status = "LEFT" => ActiveYears(s) = {}
          /\ Unmarked({"moved", "left", "back"}) /\ pupils[s].status # "LEFT" =>
                LET st == pupils[s].stream
                IN  enrolled[s][YearOf[st]] = [status |-> "ACTIVE", stream |-> st]
          /\ Unmarked({"sync"}) => (pupils[s].blocked <=> pupils[s].status # "ACTIVE")
    /\ Unmarked({"full", "back"}) => \A st \in Streams : Cardinality(Roll(st)) <= Capacity[st]
    /\ Unmarked({"twice"}) => Cardinality(Admitted) <= 1
    /\ application.status = "ADMITTED" => application.pupil \in Admitted
    /\ Unmarked({"file", "crash"}) /\ (\A k \in Offices : ~Doing(k, "close")) /\ Admitted # {} =>
          application.status = "ADMITTED"
=============================================================================
