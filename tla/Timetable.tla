------------------------------ MODULE Timetable ------------------------------
(* The current year's timetable: lessons of a class with a teacher in a term*)
(* from one hour to another of a day; teachers, who may be flagged and no   *)
(* longer flagged as such; class teachers; classes, which can go.  A lesson *)
(* is checked against all others and then written; nothing in the database  *)
(* keeps two apart, and lessons refer to class and teacher by bare ids.     *)
(*                                                                          *)
(* Not here: subjects and who is assigned them (written and deleted like    *)
(* lessons), days of the week (lessons on different days never meet), rooms.*)
EXTENDS Naturals, FiniteSets

CONSTANTS
    Classes,          \* stream rows of the year
    Teachers, NoOne,  \* employees; no class teacher
    Hours,            \* pairs of start and end a lesson may have
    LessonTerms,      \* terms of the year
    LessonIds,        \* timetable_slot rows to be
    Planners          \* requests under way

ASSUME TimetableAssumption == Hours \subseteq Nat \X Nat /\ \A h \in Hours : h[1] < h[2]

VARIABLES
    lessons,       \* what each row says, before it is inserted and after it is gone
    teaching,      \* employees with a teacher_profile
    classTeacher,  \* of each class
    open,          \* classes that exist
    planner,       \* what each request has checked
    planMarks      \* "late"

timetableVars == <<lessons, teaching, classTeacher, open, planner, planMarks>>

NoPlan == [op |-> "none"]
NotYet == [row |-> "none"]
Gone == [row |-> "gone"]
Lessons == [class : Classes, teacher : Teachers, term : LessonTerms, hours : Hours]

TimetableInit ==
    /\ lessons = [i \in LessonIds |-> NotYet]
    /\ teaching = {} /\ open = Classes
    /\ classTeacher = [c \in Classes |-> NoOne]
    /\ planner = [k \in Planners |-> NoPlan]
    /\ planMarks = {}

Given == {i \in LessonIds : lessons[i] \notin {NotYet, Gone}}
(* Lessons that end as another begins do not meet (first with a defect: a   *)
(* lesson within another is not noticed).                                   *)
MeetAtEnds(h, g) == h[1] <= g[1] /\ g[1] < h[2]
Meet(h, g) == h[1] < g[2] /\ g[1] < h[2]
Clash(l, m) == l.term = m.term /\ Meet(l.hours, m.hours) /\ (l.class = m.class \/ l.teacher = m.teacher)

SlotFree(i, l) ==
    /\ l.class \in open /\ l.teacher \in teaching
    /\ \A other \in Given \ {i} : ~Clash(l, lessons[other])

(* What each handler asks for.                                              *)
PlanAccepts(r) ==
    \/ r.op = "lesson" /\ SlotFree(r.id, r.lesson)
    \/ r.op = "class teacher" /\ (r.teacher # NoOne => r.teacher \in teaching)
    \/ r.op = "unflag" /\ \A c \in open : classTeacher[c] # r.teacher

PlanRequests ==
    [op : {"lesson"}, id : LessonIds, lesson : Lessons, then : {NoPlan}]
    \cup [op : {"class teacher"}, class : Classes, teacher : Teachers \cup {NoOne}]
    \cup [op : {"unflag"}, teacher : Teachers]

(* An insert gets an id of its own.                                         *)
Fresh(i) == lessons[i] = NotYet /\ \A k \in Planners : planner[k].op = "lesson" => planner[k].id # i

Ask(k) ==
    /\ planner[k] = NoPlan
    /\ \E r \in PlanRequests :
          /\ r.op = "lesson" => r.id \in Given \/ Fresh(r.id)
          /\ r.op = "class teacher" => r.class \in open
          /\ PlanAccepts(r)
          /\ planner' = [planner EXCEPT ![k] = r]
    /\ UNCHANGED <<lessons, teaching, classTeacher, open, planMarks>>

(* Another term's lessons of a class are read, then entered one by one; one *)
(* that clashes is passed over.                                             *)
AskCopy(k, class, from, to) ==
    /\ planner[k] = NoPlan /\ from # to
    /\ planner' = [planner EXCEPT ![k] =
         [op |-> "copy", left |-> {[lessons[i] EXCEPT !.term = to] : i \in {j \in Given : lessons[j].class = class /\ lessons[j].term = from}}]]
    /\ UNCHANGED <<lessons, teaching, classTeacher, open, planMarks>>

CopyNext(k) ==
    /\ planner[k].op = "copy"
    /\ \/ planner[k].left = {} /\ planner' = [planner EXCEPT ![k] = NoPlan]
       \/ \E l \in planner[k].left :
             LET rest == [op |-> "copy", left |-> planner[k].left \ {l}]
             IN  \/ /\ \A i \in LessonIds : ~SlotFree(i, l)
                    /\ planner' = [planner EXCEPT ![k] = rest]
                 \/ \E i \in LessonIds :
                       /\ Fresh(i) /\ SlotFree(i, l)
                       /\ planner' = [planner EXCEPT ![k] = [op |-> "lesson", id |-> i, lesson |-> l, then |-> rest]]
    /\ UNCHANGED <<lessons, teaching, classTeacher, open, planMarks>>

TooLate(condition) == planMarks' = IF condition THEN planMarks \cup {"late"} ELSE planMarks

(* ("late": the handler would not accept it any more)                       *)
WriteLesson(k) ==
    /\ planner[k].op = "lesson"
    /\ LET r == planner[k]
       IN  /\ IF lessons[r.id] = Gone THEN UNCHANGED <<lessons, planMarks>>
              ELSE lessons' = [lessons EXCEPT ![r.id] = r.lesson] /\ TooLate(~PlanAccepts(r))
           /\ planner' = [planner EXCEPT ![k] = r.then]
    /\ UNCHANGED <<teaching, classTeacher, open>>

(* Two handlers that ask for nothing.                                       *)
RemoveLesson(i) ==
    /\ i \in Given
    /\ lessons' = [lessons EXCEPT ![i] = Gone]
    /\ UNCHANGED <<teaching, classTeacher, open, planner, planMarks>>

FlagTeacher(t) ==
    /\ t \notin teaching
    /\ teaching' = teaching \cup {t}
    /\ UNCHANGED <<lessons, classTeacher, open, planner, planMarks>>

WriteTeacher(k) ==
    /\ LET r == planner[k]
       IN  \/ /\ r.op = "unflag"
              /\ teaching' = teaching \ {r.teacher}
              /\ lessons' = [i \in LessonIds |-> IF i \in Given /\ lessons[i].teacher = r.teacher THEN Gone ELSE lessons[i]]
              /\ TooLate(~PlanAccepts(r))
              /\ UNCHANGED classTeacher
           \/ /\ r.op = "class teacher"
              /\ classTeacher' = [classTeacher EXCEPT ![r.class] = r.teacher]
              /\ TooLate(~PlanAccepts(r))
              /\ UNCHANGED <<lessons, teaching>>
    /\ planner' = [planner EXCEPT ![k] = NoPlan]
    /\ UNCHANGED open

(* A class goes after its lessons, in a statement of its own ("late": it    *)
(* has lessons again).                                                      *)
DropLessons(k, class) ==
    /\ planner[k] = NoPlan
    /\ lessons' = [i \in LessonIds |-> IF i \in Given /\ lessons[i].class = class THEN Gone ELSE lessons[i]]
    /\ planner' = [planner EXCEPT ![k] = [op |-> "drop", class |-> class]]
    /\ UNCHANGED <<teaching, classTeacher, open, planMarks>>

DropClass(k) ==
    /\ planner[k].op = "drop"
    /\ open' = open \ {planner[k].class}
    /\ TooLate(\E i \in Given : lessons[i].class = planner[k].class)
    /\ planner' = [planner EXCEPT ![k] = NoPlan]
    /\ UNCHANGED <<lessons, teaching, classTeacher>>

TimetableNext ==
    \/ \E k \in Planners :
          \/ Ask(k) \/ CopyNext(k) \/ WriteLesson(k) \/ WriteTeacher(k) \/ DropClass(k)
          \/ \E class \in open : DropLessons(k, class)
          \/ \E class \in open, from, to \in LessonTerms : AskCopy(k, class, from, to)
    \/ \E i \in LessonIds : RemoveLesson(i)
    \/ \E t \in Teachers : FlagTeacher(t)

TimetableSpec == TimetableInit /\ [][TimetableNext]_timetableVars

----------------------------------------------------------------------------
(* Unless a request wrote what it had checked too early, no class and no    *)
(* teacher has two lessons at once, however the lessons got there (entered, *)
(* moved, copied from another term); every lesson is of a class that exists *)
(* with somebody who teaches, and every class teacher teaches.              *)
TimetableSound ==
    "late" \notin planMarks =>
        /\ \A i, j \in Given : i # j => ~Clash(lessons[i], lessons[j])
        /\ \A i \in Given : lessons[i].class \in open /\ lessons[i].teacher \in teaching
        /\ \A c \in open : classTeacher[c] # NoOne => classTeacher[c] \in teaching
=============================================================================
