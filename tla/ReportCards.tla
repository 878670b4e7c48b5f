----------------------------- MODULE ReportCards -----------------------------
(* The marks of one student in a term and the report card.  A mark carries  *)
(* the label of the band it fell in on the scale as the request found it;   *)
(* the card, one row per student and term, is written as a whole by whoever *)
(* saves remarks and by the publication of a class, which writes back the   *)
(* remarks it read.                                                         *)
(*                                                                          *)
(* Not here: averages, points and positions, which a card is printed from.  *)
EXTENDS Naturals

CONSTANTS
    Exams, NoMark,      \* assessment types; not marked
    Scores, PassLevels, \* marks; where the upper of two bands may begin
    RemarkTexts, NoText,
    Markers             \* requests under way, one each

ASSUME ReportAssumption == NoText \notin Markers

VARIABLES
    passLevel,   \* where the upper band begins
    marks,       \* score and label of each
    report,      \* the report_card row, or NoReport
    marker,      \* what each request has read
    said,        \* history: the remarks somebody saved last
    firstOut,    \* history: who published first
    cardMarks    \* "stale", "behind"

reportVars == <<passLevel, marks, report, marker, said, firstOut, cardMarks>>

NoReport == [kept |-> FALSE, text |-> NoText, published |-> FALSE, by |-> NoText]

ReportInit ==
    /\ passLevel \in PassLevels
    /\ marks = [e \in Exams |-> NoMark]
    /\ report = NoReport
    /\ marker = [k \in Markers |-> <<>>]
    /\ said = NoText /\ firstOut = NoText
    /\ cardMarks = {}

Band(score, level) == IF score >= level THEN "upper" ELSE "lower"
Doing(k, op) == marker[k] # <<>> /\ marker[k][1] = op

(* Scores are entered under the scale read before the transaction; a blank  *)
(* score clears the mark.                                                   *)
ReadScale(k) ==
    /\ marker[k] = <<>>
    /\ marker' = [marker EXCEPT ![k] = <<"marks", passLevel>>]
    /\ UNCHANGED <<passLevel, marks, report, said, firstOut, cardMarks>>

(* ("stale": the scale was saved meanwhile)                                 *)
EnterMark(k, e, score) ==
    /\ Doing(k, "marks")
    /\ marks' = [marks EXCEPT ![e] =
          IF score = NoMark THEN NoMark
          ELSE [score |-> score, label |-> Band(score, marker[k][2]), under |-> passLevel]]
    /\ cardMarks' = IF score # NoMark /\ marker[k][2] # passLevel THEN cardMarks \cup {"stale"} ELSE cardMarks
    /\ marker' = [marker EXCEPT ![k] = <<>>]
    /\ UNCHANGED <<passLevel, report, said, firstOut>>

SaveBands(level) ==
    /\ passLevel' = level
    /\ UNCHANGED <<marks, report, marker, said, firstOut, cardMarks>>

(* The row is inserted or, where it is there, updated: published stays      *)
(* published, by whom it was first (first with a defect: not).              *)
PublishedAfresh(publish, k) == [published |-> publish, by |-> IF publish THEN k ELSE report.by]
PublishedOnce(publish, k) ==
    [published |-> report.published \/ publish,
     by |-> IF report.published THEN report.by ELSE IF publish THEN k ELSE NoText]

Upsert(text, publish, k) ==
    LET p == PublishedOnce(publish, k)
    IN  report' = [kept |-> TRUE, text |-> text, published |-> p.published, by |-> p.by]

FirstOut(publish, k) == firstOut' = IF publish /\ firstOut = NoText THEN k ELSE firstOut

SaveReport(k, text, publish) ==
    /\ marker[k] = <<>>
    /\ Upsert(text, publish, k) /\ FirstOut(publish, k)
    /\ said' = text
    /\ UNCHANGED <<passLevel, marks, marker, cardMarks>>

ReadReport(k) ==
    /\ marker[k] = <<>>
    /\ marker' = [marker EXCEPT ![k] = <<"publish", report.text>>]
    /\ UNCHANGED <<passLevel, marks, report, said, firstOut, cardMarks>>

(* ("behind": remarks were saved since the publication read them)           *)
PublishClass(k) ==
    /\ Doing(k, "publish")
    /\ Upsert(marker[k][2], TRUE, k) /\ FirstOut(TRUE, k)
    /\ cardMarks' = IF marker[k][2] # report.text THEN cardMarks \cup {"behind"} ELSE cardMarks
    /\ marker' = [marker EXCEPT ![k] = <<>>]
    /\ UNCHANGED <<passLevel, marks, said>>

ReportNext ==
    \/ \E k \in Markers :
          \/ ReadScale(k) \/ ReadReport(k) \/ PublishClass(k)
          \/ \E e \in Exams, score \in Scores \cup {NoMark} : EnterMark(k, e, score)
          \/ \E text \in RemarkTexts \cup {NoText}, publish \in BOOLEAN : SaveReport(k, text, publish)
    \/ \E level \in PassLevels : SaveBands(level)

ReportSpec == ReportInit /\ [][ReportNext]_reportVars

----------------------------------------------------------------------------
(* What parents were shown stays shown, under the name of who showed it     *)
(* first; the remarks are the last that somebody saved, unless a publication*)
(* wrote back older ones; and a mark keeps the label it had when it was     *)
(* entered, on the scale then in force, unless the scale was saved within   *)
(* the entry.                                                               *)
CardsSound ==
    /\ report.published <=> firstOut # NoText
    /\ report.published => report.by = firstOut
    /\ "behind" \notin cardMarks => report.text = said
    /\ "stale" \notin cardMarks => \A e \in Exams : marks[e] # NoMark =>
          marks[e].label = Band(marks[e].score, marks[e].under)
=============================================================================
