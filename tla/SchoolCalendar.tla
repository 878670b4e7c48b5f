--------------------------- MODULE SchoolCalendar ----------------------------
(* Academic years and their terms, one of each being the current one: a year*)
(* is saved with the whole grid of its terms in one transaction, which looks*)
(* at what there is and then locks the rows it changes; a term is made      *)
(* current from a list; a year is deleted.  Classes, lessons, marks and fees*)
(* refer to years and terms.                                                *)
(*                                                                          *)
(* Not here: names and dates of years and terms.  A row deleted and made    *)
(* again stands for a new one.                                              *)
EXTENDS Naturals, FiniteSets

CONSTANTS
    Years, YearTerms,  \* academic_year and academic_term rows to be
    YearOf, Sort,      \* of each term, its year and its place in it
    Registrars         \* requests under way

ASSUME CalendarAssumption ==
    /\ YearOf \in [YearTerms -> Years] /\ Sort \in [YearTerms -> Nat]
    /\ \A s, t \in YearTerms : YearOf[s] = YearOf[t] /\ Sort[s] = Sort[t] => s = t

VARIABLES
    years, terms,          \* the rows there are
    currentYears, currentTerms,   \* those with is_current
    yearUsed, termUsed,    \* those classes, or lessons, marks and fees refer to
    registrar,             \* what each request is about to do
    calMarks               \* "together", "elsewhere", "kept", "swept"

calendarVars == <<years, terms, currentYears, currentTerms, yearUsed, termUsed, registrar, calMarks>>

NoRequestYet == [op |-> "none"]

CalendarInit ==
    /\ years = {} /\ terms = {} /\ currentYears = {} /\ currentTerms = {}
    /\ yearUsed = {} /\ termUsed = {}
    /\ registrar = [k \in Registrars |-> NoRequestYet]
    /\ calMarks = {}

TermsOf(y) == {t \in YearTerms : YearOf[t] = y}
Waiting == {k \in Registrars : registrar[k] # NoRequestYet}
Noticed(condition, name) == IF condition THEN {name} ELSE {}
(* ("together": another request has looked and not written yet)             *)
Together(k) == Noticed(Waiting \ {k} # {}, "together")

(* A year is created, or saved: whether it is current, its terms, and which *)
(* of them are current.  A term something refers to cannot be left out.     *)
AskSave(k, y, current, rows, flagged) ==
    /\ registrar[k] = NoRequestYet
    /\ termUsed \cap (TermsOf(y) \cap terms) \subseteq rows
    /\ registrar' = [registrar EXCEPT ![k] =
         [op |-> "save", year |-> y, current |-> current, rows |-> rows, flagged |-> flagged]]
    /\ UNCHANGED <<years, terms, currentYears, currentTerms, yearUsed, termUsed, calMarks>>

(* Of the terms flagged only the first stays current (first with a defect:  *)
(* all of them).                                                            *)
AllOf(ts) == ts
FirstOf(ts) == {t \in ts : \A other \in ts : Sort[t] <= Sort[other]}

(* Of the terms flagged the first is current, and when the year is current  *)
(* too those of the other years are not any more.  ("elsewhere": a year that*)
(* is not current has a current term; "kept": the year became current and   *)
(* has no current term, so another year's stays)                            *)
SaveYear(k) ==
    /\ registrar[k].op = "save"
    /\ LET r == registrar[k]
           first == FirstOf(r.flagged)
       IN  /\ years' = years \cup {r.year}
           /\ terms' = (terms \ TermsOf(r.year)) \cup r.rows
           /\ currentYears' = IF r.current THEN {r.year} ELSE currentYears \ {r.year}
           /\ currentTerms' = first \cup
                (IF r.current /\ first # {} THEN {} ELSE currentTerms \ TermsOf(r.year))
           /\ calMarks' = calMarks \cup Together(k)
                \cup Noticed(~r.current /\ first # {}, "elsewhere")
                \cup Noticed(r.current /\ first = {} /\ currentTerms \ TermsOf(r.year) # {}, "kept")
    /\ registrar' = [registrar EXCEPT ![k] = NoRequestYet]
    /\ UNCHANGED <<yearUsed, termUsed>>

(* A term, and its year with it, is made the current one.                   *)
AskCurrent(k, t) ==
    /\ registrar[k] = NoRequestYet /\ t \in terms
    /\ registrar' = [registrar EXCEPT ![k] = [op |-> "current", term |-> t]]
    /\ UNCHANGED <<years, terms, currentYears, currentTerms, yearUsed, termUsed, calMarks>>

SetCurrent(k) ==
    /\ registrar[k].op = "current"
    /\ currentYears' = {YearOf[registrar[k].term]} \cap years
    /\ currentTerms' = {registrar[k].term} \cap terms
    /\ calMarks' = calMarks \cup Together(k)
    /\ registrar' = [registrar EXCEPT ![k] = NoRequestYet]
    /\ UNCHANGED <<years, terms, yearUsed, termUsed>>

(* A year without classes is deleted, and its terms with it.  ("swept":     *)
(* what refers to one of them was not asked for)                            *)
AskDelete(k, y) ==
    /\ registrar[k] = NoRequestYet /\ y \in years \ yearUsed
    /\ registrar' = [registrar EXCEPT ![k] = [op |-> "delete", year |-> y]]
    /\ UNCHANGED <<years, terms, currentYears, currentTerms, yearUsed, termUsed, calMarks>>

DeleteYear(k) ==
    /\ registrar[k].op = "delete"
    /\ LET y == registrar[k].year
       IN  /\ years' = years \ {y} /\ currentYears' = currentYears \ {y}
           /\ terms' = terms \ TermsOf(y) /\ currentTerms' = currentTerms \ TermsOf(y)
           /\ calMarks' = calMarks \cup Together(k)
                \cup Noticed(termUsed \cap TermsOf(y) # {}, "swept")
    /\ registrar' = [registrar EXCEPT ![k] = NoRequestYet]
    /\ UNCHANGED <<yearUsed, termUsed>>

(* Another part of the system opens a class in a year, or enters lessons,   *)
(* marks or fees in a term.                                                 *)
Refer ==
    /\ \/ \E y \in years : yearUsed' = yearUsed \cup {y} /\ UNCHANGED termUsed
       \/ \E t \in terms : termUsed' = termUsed \cup {t} /\ UNCHANGED yearUsed
    /\ calMarks' = calMarks \cup Noticed(Waiting # {}, "together")
    /\ UNCHANGED <<years, terms, currentYears, currentTerms, registrar>>

CalendarNext ==
    \/ \E k \in Registrars :
          \/ \E y \in Years, current \in BOOLEAN : \E rows \in SUBSET TermsOf(y) :
                \E flagged \in SUBSET rows : AskSave(k, y, current, rows, flagged)
          \/ \E t \in YearTerms : AskCurrent(k, t)
          \/ \E y \in Years : AskDelete(k, y)
          \/ SaveYear(k) \/ SetCurrent(k) \/ DeleteYear(k)
    \/ Refer

CalendarSpec == CalendarInit /\ [][CalendarNext]_calendarVars

----------------------------------------------------------------------------
(* However years and terms are saved, chosen and deleted, at most one year  *)
(* and one term is current and the term is one of that year, and what       *)
(* classes, lessons, marks and fees refer to is there; unless requests were *)
(* made together, a year not current was saved with a current term, one was *)
(* made current without, or a year was deleted under a term still used.     *)
CalendarSound ==
    /\ calMarks \cap {"together"} = {} => Cardinality(currentYears) <= 1
    /\ calMarks \cap {"together", "elsewhere", "kept"} = {} =>
          Cardinality(currentTerms) <= 1 /\ \A t \in currentTerms : YearOf[t] \in currentYears
    /\ calMarks \cap {"together", "swept"} = {} => yearUsed \subseteq years /\ termUsed \subseteq terms

(* What a comment in replaceTerms says: a current term is in the current    *)
(* year only.  (A year that is not current can be saved with one.)          *)
CurrentTermInCurrentYear ==
    "together" \notin calMarks => \A t \in currentTerms : YearOf[t] \in currentYears
=============================================================================
