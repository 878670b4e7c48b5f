----------------------------- MODULE Organisation -----------------------------
(* How the school is organised: its positions and who holds them, what they *)
(* are paid, the calendar, the timetable, report cards.  They share no      *)
(* state, so a behaviour is one of them while the others rest.              *)
EXTENDS Establishment, StaffPay, SchoolCalendar, Timetable, ReportCards

VARIABLE division   \* which of them this behaviour is

organisationVars ==
    <<division, estVars, staffVars, calendarVars, timetableVars, reportVars>>

OrganisationInit ==
    /\ division \in {"positions", "pay", "calendar", "timetable", "reports"}
    /\ EstInit /\ StaffInit /\ CalendarInit /\ TimetableInit /\ ReportInit
    /\ division # "pay" => scalePay = [s \in Scales |-> CHOOSE pay \in Pays : TRUE]
    /\ division # "reports" => passLevel = CHOOSE level \in PassLevels : TRUE

EstStep ==
    /\ division = "positions" /\ EstNext
    /\ UNCHANGED <<division, staffVars, calendarVars, timetableVars, reportVars>>

PayStep ==
    /\ division = "pay" /\ StaffNext
    /\ UNCHANGED <<division, estVars, calendarVars, timetableVars, reportVars>>

CalendarStep ==
    /\ division = "calendar" /\ CalendarNext
    /\ UNCHANGED <<division, estVars, staffVars, timetableVars, reportVars>>

TimetableStep ==
    /\ division = "timetable" /\ TimetableNext
    /\ UNCHANGED <<division, estVars, staffVars, calendarVars, reportVars>>

ReportStep ==
    /\ division = "reports" /\ ReportNext
    /\ UNCHANGED <<division, estVars, staffVars, calendarVars, timetableVars>>

OrganisationNext == EstStep \/ PayStep \/ CalendarStep \/ TimetableStep \/ ReportStep

OrganisationSpec == OrganisationInit /\ [][OrganisationNext]_organisationVars

----------------------------------------------------------------------------
(* What the three parts of academics promise (see their modules): lessons   *)
(* that do not collide, one current term in the one current year, report    *)
(* cards that stay as they were shown (lib/academics).                      *)
AcademicsSound == TimetableSound /\ CalendarSound /\ CardsSound
=============================================================================
