--------------------------- MODULE RegistersProofs ---------------------------
(* Proofs about the registers: the documents of every kind and how often    *)
(* they are applied, orders, the review of requisitions, the stock of an    *)
(* item, a fixed asset, payroll, imprests, the end of a year.               *)
(*                                                                          *)
(* Each part below has the inductive invariant of one register, the lemmas  *)
(* that it holds at the start and is kept by every action, and the lemma    *)
(* that it implies the register's property; the theorems are about the      *)
(* registers together.                                                      *)
EXTENDS Registers, SumTheorems

-----------------------------------------------------------------------------
(* Documents, for every table of kinds that satisfies RowsAssumption.       *)
(*                                                                          *)
(* The inductive invariant says, beside the types, what a request that has  *)
(* read still knows (its operation was accepted on the header it saw), and  *)
(* where each protection leaves a document that has been applied: with its  *)
(* flag set for good, without a header, or in a status that no request      *)
(* still on time leads out of.                                              *)

HeldAccepted == \A s \in Sessions : held[s] # <<>> => Accepts(held[s][1], held[s][2])

FlagStays == Flagged(row) /\ Len(effects) > 0 => \A h \in header : h.posted

FlagProtects ==
    Flagged(row) /\ Len(effects) > 1 => row.on \in late /\ ~row.rereads

DeletionProtects ==
    Deleted(row) =>
        /\ Len(effects) > 0 => header = {}
        /\ Len(effects) > 1 => row.on \in late

LastStatus == IF row.on = "post" THEN "Final" ELSE "Approved"

StatusProtects ==
    Ended(row) /\ late = {} =>
        /\ Len(effects) > 0 => \A h \in header : h.status = LastStatus
        /\ Len(effects) <= 1

ApprovedContent ==
    ~row.direct /\ late \cap {"edit", "approve", "post"} = {} =>
        \A h \in header : h.status \in {"Approved", "Final"} => h.content \in approved

DocInv ==
    /\ DocTypeOK /\ HeldAccepted
    /\ FlagStays /\ FlagProtects /\ DeletionProtects /\ StatusProtects
    /\ ApprovedContent /\ AppliedAsApproved

----------------------------------------------------------------------------
(* The parts of the invariant give the property, whatever protects the row. *)
LEMMA OnceFromInv == DocInv => AppliedOnce
<1> SUFFICES ASSUME DocInv, Len(effects) > 1
             PROVE  IF Flagged(row) \/ Deleted(row)
                    THEN row.on \in late /\ ~row.rereads ELSE late # {}
  BY DEF AppliedOnce
<1>1. row \in Rows /\ Len(effects) \in Nat
  BY DEF DocInv, DocTypeOK
<1>2. CASE Flagged(row)
  BY <1>2 DEF DocInv, FlagProtects
<1>3. CASE Deleted(row)
  <2>1. row.on = "post" /\ ~row.rereads
    BY <1>1, <1>3, RowsAssumption DEF Deleted, RowType
  <2> QED
    BY <1>3, <2>1 DEF DocInv, DeletionProtects
<1>4. CASE ~Flagged(row) /\ ~Deleted(row)
  <2>1. Ended(row)
    BY <1>1, <1>4, RowsAssumption
  <2>2. late # {}
    BY <1>1, <2>1 DEF DocInv, StatusProtects
  <2> QED
    BY <1>4, <2>2
<1> QED
  BY <1>2, <1>3, <1>4

(* A document starts open and never applied (DocInit).                      *)
LEMMA InitEstablishes == DocInit => DocInv
<1> SUFFICES ASSUME DocInit PROVE DocInv
  OBVIOUS
<1>1. effects = <<>> /\ Len(effects) = 0 /\ effects \in Seq(Contents)
  BY DEF DocInit
<1>2. DocTypeOK
  BY <1>1 DEF DocInit, DocTypeOK, HeaderType, Status
<1>3. HeldAccepted
  BY DEF DocInit, HeldAccepted
<1>4. FlagStays /\ FlagProtects /\ DeletionProtects /\ StatusProtects /\ AppliedAsApproved
  BY <1>1 DEF FlagStays, FlagProtects, DeletionProtects, StatusProtects, AppliedAsApproved
<1>5. ApprovedContent
  BY DEF DocInit, ApprovedContent
<1> QED
  BY <1>2, <1>3, <1>4, <1>5 DEF DocInv

(* What a request that holds a read of an operation knows of it.            *)
LEMMA HeldKnows ==
    ASSUME DocTypeOK, HeldAccepted, NEW s \in Sessions, NEW op \in Op, Reads(s, op)
    PROVE  /\ held[s][1] = op
           /\ Seen(s) \in HeaderType
           /\ Accepts(op, Seen(s))
  BY DEF DocTypeOK, HeldAccepted, Reads, Seen

(* The request that writes frees its session and is counted late unless the *)
(* header is still the one it read.                                         *)
LEMMA DoneKeeps ==
    ASSUME DocTypeOK, HeldAccepted, NEW s \in Sessions, NEW op \in Op, Reads(s, op), Done(s),
           row' = row
    PROVE  /\ held' \in [Sessions -> {<<>>} \cup Op \X HeaderType]
           /\ HeldAccepted'
           /\ late \subseteq late' /\ late' \in SUBSET Op
           /\ op \notin late' => header = {Seen(s)}
<1>1. held[s][1] = op
  BY HeldKnows
<1>2. held' \in [Sessions -> {<<>>} \cup Op \X HeaderType]
  BY DEF Done, DocTypeOK
<1>3. HeldAccepted'
  BY DEF Done, HeldAccepted, DocTypeOK, Accepts
<1>4. late \subseteq late' /\ late' \in SUBSET Op
  BY <1>1 DEF Done, DocTypeOK
<1>5. op \notin late' => header = {Seen(s)}
  BY <1>1 DEF Done
<1> QED
  BY <1>2, <1>3, <1>4, <1>5

(* Applying adds one content, of the header read or of the one found.       *)
LEMMA ApplyAdds ==
    ASSUME DocTypeOK, NEW s \in Sessions, Seen(s) \in HeaderType, Apply(s)
    PROVE  /\ effects' \in Seq(Contents)
           /\ Len(effects') = Len(effects) + 1
           /\ \E c \in {Seen(s).content} \cup {h.content : h \in header} :
                  effects' = Append(effects, c)
<1>1. PICK c \in {Seen(s).content} \cup {h.content : h \in header} : effects' = Append(effects, c)
  BY DEF Apply
<1>2. c \in Contents
  BY <1>1 DEF DocTypeOK, HeaderType
<1> QED
  BY <1>1, <1>2 DEF DocTypeOK

(* A read accepts an operation on the header as it is.                      *)
LEMMA ReadKeeps ==
    ASSUME DocInv, NEW s \in Sessions, NEW op \in Op, Read(s, op)
    PROVE  DocInv'
<1>1. PICK h \in header : Accepts(op, h) /\ held' = [held EXCEPT ![s] = <<op, h>>]
  BY DEF Read
<1>2. UNCHANGED <<row, header, approved, effects, late>>
  BY DEF Read
<1>3. h \in HeaderType
  BY DEF DocInv, DocTypeOK
<1>4. DocTypeOK'
  BY <1>1, <1>2, <1>3 DEF DocInv, DocTypeOK
<1>5. HeldAccepted'
  <2> SUFFICES ASSUME NEW t \in Sessions, held'[t] # <<>>
               PROVE  Accepts(held'[t][1], held'[t][2])
    BY <1>2 DEF HeldAccepted, Accepts
  <2>1. CASE t = s
    BY <2>1, <1>1 DEF DocInv, DocTypeOK
  <2>2. CASE t # s
    BY <2>2, <1>1 DEF DocInv, DocTypeOK, HeldAccepted
  <2> QED
    BY <2>1, <2>2
<1>6. FlagStays' /\ FlagProtects' /\ DeletionProtects' /\ StatusProtects'
  BY <1>2 DEF DocInv, FlagStays, FlagProtects, DeletionProtects, StatusProtects, LastStatus
<1>7. ApprovedContent' /\ AppliedAsApproved'
  BY <1>2 DEF DocInv, ApprovedContent, AppliedAsApproved
<1> QED
  BY <1>4, <1>5, <1>6, <1>7 DEF DocInv

(* A write that leaves the effects alone keeps the invariant when it keeps  *)
(* the posted flag, revives no header, and a request still on time moves    *)
(* the document only out of Open, Pending or (a reopening) Approved.        *)
LEMMA QuietWriteKeeps ==
    ASSUME DocInv, NEW s \in Sessions, NEW op \in {"edit", "delete", "submit", "recall", "reject", "reopen"},
           Reads(s, op), Done(s), UNCHANGED <<row, approved, effects>>,
           header' \in SUBSET HeaderType, \A g, h \in header' : g = h,
           \A h \in header' : \E g \in header : h.posted = g.posted,
           \A h \in header' : h.status \in {"Approved", "Final"} =>
               \E g \in header : g.status = h.status /\ (op = "edit" \/ g.content = h.content)
    PROVE  DocInv'
<1>1. /\ Seen(s) \in HeaderType /\ Accepts(op, Seen(s))
      /\ held' \in [Sessions -> {<<>>} \cup Op \X HeaderType]
      /\ HeldAccepted'
      /\ late \subseteq late' /\ late' \in SUBSET Op
      /\ op \notin late' => header = {Seen(s)}
  BY HeldKnows, DoneKeeps DEF DocInv, Op
<1>2. row \in Rows /\ row' = row /\ Len(effects) \in Nat
  BY DEF DocInv, DocTypeOK
<1>3. DocTypeOK'
  BY <1>1, <1>2 DEF DocInv, DocTypeOK
<1>4. FlagStays' /\ FlagProtects' /\ DeletionProtects'
  BY <1>1, <1>2 DEF DocInv, FlagStays, FlagProtects, DeletionProtects, Flagged, Deleted
<1>5. StatusProtects'
  <2> SUFFICES ASSUME Ended(row), late' = {}
               PROVE  Len(effects) = 0
    BY <1>2 DEF StatusProtects, Ended
  <2>1. header = {Seen(s)} /\ Seen(s).status # LastStatus
    BY <1>1, <1>2, RowsAssumption DEF Accepts, LastStatus, Ended, RowType
  <2> QED
    BY <1>1, <1>2, <2>1 DEF DocInv, StatusProtects
<1>6. ApprovedContent'
  <2> SUFFICES ASSUME ~row.direct, late' \cap {"edit", "approve", "post"} = {},
                      NEW h \in header', h.status \in {"Approved", "Final"}
               PROVE  h.content \in approved
    BY <1>2 DEF ApprovedContent
  <2>1. PICK g \in header : g.status = h.status /\ (op = "edit" \/ g.content = h.content)
    OBVIOUS
  <2>2. op # "edit"
    BY <1>1, <2>1 DEF Accepts
  <2> QED
    BY <1>1, <2>1, <2>2 DEF DocInv, ApprovedContent
<1>7. AppliedAsApproved'
  BY <1>1, <1>2 DEF DocInv, AppliedAsApproved
<1> QED
  BY <1>1, <1>3, <1>4, <1>5, <1>6, <1>7 DEF DocInv

(* Editing changes the content, and only of a header found open unless the  *)
(* edit is late.                                                            *)
LEMMA EditKeeps ==
    ASSUME DocInv, NEW s \in Sessions, Edit(s)
    PROVE  DocInv'
<1>1. PICK c \in Contents : header' = {[h EXCEPT !.content = c] : h \in header}
  BY DEF Edit
<1>2. \A h \in header' : h \in HeaderType /\ \E g \in header : h = [g EXCEPT !.content = c]
  BY <1>1 DEF DocInv, DocTypeOK, HeaderType
<1>3. \A g, h \in header' : g = h
  BY <1>1 DEF DocInv, DocTypeOK
<1>4. \A h \in header' : \E g \in header : h.posted = g.posted /\ h.status = g.status
  BY <1>2 DEF DocInv, DocTypeOK, HeaderType
<1> QED
  BY <1>2, <1>3, <1>4, QuietWriteKeeps DEF Edit

(* A deletion leaves no header, and nothing brings one back.                *)
LEMMA DeleteKeeps ==
    ASSUME DocInv, NEW s \in Sessions, Delete(s)
    PROVE  DocInv'
  BY QuietWriteKeeps DEF Delete

(* What setting the status makes of the header.                             *)
LEMMA SetStatusWrites ==
    ASSUME DocTypeOK, NEW st \in Status, SetStatus(st)
    PROVE  /\ header' \in SUBSET HeaderType
           /\ \A g, h \in header' : g = h
           /\ \A h \in header' : h.status = st /\ \E g \in header : h.posted = g.posted
<1>1. \A h \in header' : \E g \in header : h = [g EXCEPT !.status = st]
  BY DEF SetStatus
<1>2. header' \in SUBSET HeaderType
  BY <1>1 DEF DocTypeOK, HeaderType
<1>3. \A g, h \in header' : g = h
  BY DEF SetStatus, DocTypeOK
<1> QED
  BY <1>1, <1>2, <1>3 DEF DocTypeOK, HeaderType

(* Submitting, recalling, rejecting and reopening set a status that is      *)
(* neither Approved nor Final.                                              *)
LEMMA SubmitKeeps ==
    ASSUME DocInv, NEW s \in Sessions, Submit(s)
    PROVE  DocInv'
<1>1. /\ header' \in SUBSET HeaderType
      /\ \A g, h \in header' : g = h
      /\ \A h \in header' : h.status = "Pending" /\ \E g \in header : h.posted = g.posted
  BY SetStatusWrites DEF DocInv, Submit, Status
<1> QED
  BY <1>1, QuietWriteKeeps DEF Submit

LEMMA ReturnKeeps ==
    ASSUME DocInv, NEW s \in Sessions, Return(s)
    PROVE  DocInv'
<1>1. /\ header' \in SUBSET HeaderType
      /\ \A g, h \in header' : g = h
      /\ \A h \in header' : h.status = "Open" /\ \E g \in header : h.posted = g.posted
  BY SetStatusWrites DEF DocInv, Return, Status
<1>2. PICK op \in {"recall", "reject", "reopen"} : Reads(s, op)
  BY DEF Return
<1> QED
  BY <1>1, <1>2, QuietWriteKeeps DEF Return

(* The content of everything applied is approved after a step that adds one *)
(* approved content at most.                                                *)
LEMMA AddedApproved ==
    ASSUME DocTypeOK, NEW c \in Contents, effects' = Append(effects, c), c \in approved',
           approved \subseteq approved',
           \A i \in 1 .. Len(effects) : effects[i] \in approved
    PROVE  \A i \in 1 .. Len(effects') : effects'[i] \in approved'
  BY DEF DocTypeOK

(* An approval either leaves the effects alone or, for the kinds it         *)
(* applies, adds one.                                                       *)
LEMMA ApproveKeeps ==
    ASSUME DocInv, NEW s \in Sessions, Approve(s)
    PROVE  DocInv'
<1>1. /\ Seen(s) \in HeaderType /\ Accepts("approve", Seen(s))
      /\ held' \in [Sessions -> {<<>>} \cup Op \X HeaderType]
      /\ HeldAccepted'
      /\ late \subseteq late' /\ late' \in SUBSET Op
      /\ "approve" \notin late' => header = {Seen(s)}
  BY HeldKnows, DoneKeeps DEF DocInv, Op, Approve
<1>2. row \in Rows /\ row \in RowType /\ row' = row /\ Len(effects) \in Nat
  <2>1. row \in Rows /\ Len(effects) \in Nat
    BY DEF DocInv, DocTypeOK
  <2>2. row' = row
    BY DEF Approve
  <2> QED
    BY <2>1, <2>2, RowsAssumption
<1>3. /\ \A h \in header' : \E g \in header :
            h = [g EXCEPT !.status = "Approved", !.posted = g.posted \/ (row.on = "approve" /\ row.sets)]
      /\ \A g, h \in header' : g = h
  <2>1. header' = {[g EXCEPT !.status = "Approved",
                            !.posted = g.posted \/ (row.on = "approve" /\ row.sets)] : g \in header}
    BY DEF Approve
  <2>2. \A g, h \in header : g = h
    BY DEF DocInv, DocTypeOK
  <2>3. \A g, h \in header' : g = h
    <3> DEFINE F(g) == [g EXCEPT !.status = "Approved",
                                 !.posted = g.posted \/ (row.on = "approve" /\ row.sets)]
    <3>1. header' = {F(g) : g \in header}
      BY <2>1, Zenon
    <3> HIDE DEF F
    <3> QED
      BY <2>2, <3>1
  <2> QED
    BY <2>1, <2>3
<1>4. \A h \in header' :
          /\ h \in HeaderType /\ h.status = "Approved"
          /\ \E g \in header : /\ h.content = g.content /\ (g.posted => h.posted)
                               /\ row.on = "approve" /\ row.sets => h.posted
  <2> SUFFICES ASSUME NEW h \in header', NEW g \in header,
                      h = [g EXCEPT !.status = "Approved",
                                    !.posted = g.posted \/ (row.on = "approve" /\ row.sets)]
               PROVE  /\ h \in HeaderType /\ h.status = "Approved"
                      /\ h.content = g.content /\ (g.posted => h.posted)
                      /\ row.on = "approve" /\ row.sets => h.posted
    <3>1. ASSUME NEW h \in header'
          PROVE  \E g \in header : h = [g EXCEPT !.status = "Approved",
                                     !.posted = g.posted \/ (row.on = "approve" /\ row.sets)]
      BY <1>3, Zenon
    <3> QED
      BY <3>1, Zenon
  <2> DEFINE flag == g.posted \/ (row.on = "approve" /\ row.sets)
  <2>1. g \in HeaderType /\ flag \in BOOLEAN
    BY <1>2 DEF DocInv, DocTypeOK, HeaderType, RowType
  <2>2. h = [g EXCEPT !.status = "Approved", !.posted = flag]
    OBVIOUS
  <2> HIDE DEF flag
  <2>3. h \in HeaderType /\ h.status = "Approved" /\ h.content = g.content /\ h.posted = flag
    BY <2>1, <2>2 DEF HeaderType, Status
  <2> QED
    BY <2>3 DEF flag
<1>5. approved' = approved \cup {Seen(s).content}
  BY DEF Approve
<1>6. \/ effects' = effects /\ ~ApprovalApplies
      \/ ApprovalApplies /\ Apply(s)
  BY DEF Approve
<1>7. /\ effects' \in Seq(Contents)
      /\ ApprovalApplies => Len(effects') = Len(effects) + 1
  BY <1>1, <1>6, ApplyAdds DEF DocInv, DocTypeOK
<1>8. DocTypeOK'
  <2>1. approved' \in SUBSET Contents
    BY <1>1, <1>5 DEF DocInv, DocTypeOK, HeaderType
  <2> QED
    BY <1>1, <1>2, <1>3, <1>4, <1>7, <2>1 DEF DocTypeOK
<1>9. FlagStays'
  <2> SUFFICES ASSUME Flagged(row), Len(effects') > 0, NEW h \in header'
               PROVE  h.posted
    BY <1>2 DEF FlagStays, Flagged
  <2>1. CASE ApprovalApplies
    BY <2>1, <1>4 DEF ApprovalApplies, Flagged
  <2>2. CASE ~ApprovalApplies
    BY <2>2, <1>4, <1>6 DEF DocInv, FlagStays
  <2> QED
    BY <2>1, <2>2
<1>10. FlagProtects'
  <2> SUFFICES ASSUME Flagged(row), Len(effects') > 1
               PROVE  row.on \in late' /\ ~row.rereads
    BY <1>2 DEF FlagProtects, Flagged
  <2>1. CASE ~ApprovalApplies
    BY <2>1, <1>1, <1>6 DEF DocInv, FlagProtects
  <2>2. CASE ApprovalApplies
    <3>1. \A h \in header : h.posted
      BY <2>2, <1>2, <1>7 DEF DocInv, FlagStays
    <3>2. row.on = "approve" /\ ~row.rereads
      BY <2>2, <3>1 DEF ApprovalApplies
    <3>3. ~Seen(s).posted
      BY <1>1, <3>2 DEF Flagged, Accepts
    <3> QED
      BY <1>1, <3>1, <3>2, <3>3
  <2> QED
    BY <2>1, <2>2
<1>11. DeletionProtects'
  <2>1. Deleted(row) => effects' = effects
    BY <1>6 DEF Deleted, ApprovalApplies
  <2> QED
    BY <2>1, <1>1, <1>2, <1>3 DEF DocInv, DeletionProtects, Deleted
<1>12. StatusProtects'
  <2> SUFFICES ASSUME Ended(row), late' = {}
               PROVE  /\ Len(effects') > 0 => \A h \in header' : h.status = LastStatus
                      /\ Len(effects') <= 1
    BY <1>2 DEF StatusProtects, Ended, LastStatus
  <2>1. header = {Seen(s)} /\ Seen(s).status # LastStatus
    BY <1>1 DEF Accepts, LastStatus
  <2>2. Len(effects) = 0
    BY <1>1, <1>2, <2>1 DEF DocInv, StatusProtects
  <2> QED
    <3>1. CASE ApprovalApplies
      <4>1. LastStatus = "Approved" /\ Len(effects') = 1
        BY <1>7, <2>2, <3>1 DEF LastStatus, ApprovalApplies
      <4>2. \A h \in header' : h.status = "Approved"
        BY <1>4, Zenon
      <4> QED
        BY <4>1, <4>2
    <3>2. CASE ~ApprovalApplies
      BY <1>6, <2>2, <3>2
    <3> QED
      BY <3>1, <3>2
<1>13. ApprovedContent'
  BY <1>1, <1>4, <1>5 DEF ApprovedContent
<1>14. AppliedAsApproved'
  <2> SUFFICES ASSUME ~row.direct, late' \cap {"edit", "approve", "post"} = {}
               PROVE  \A i \in 1 .. Len(effects') : effects'[i] \in approved'
    BY <1>2 DEF AppliedAsApproved
  <2>1. header = {Seen(s)} /\ \A i \in 1 .. Len(effects) : effects[i] \in approved
    BY <1>1 DEF DocInv, AppliedAsApproved
  <2>2. CASE effects' = effects
    BY <2>1, <2>2, <1>5
  <2>3. CASE Apply(s)
    <3>1. Seen(s).content \in Contents /\ effects' = Append(effects, Seen(s).content)
      BY <1>1, <2>1, <2>3 DEF Apply, HeaderType
    <3> QED
      BY <3>1, <2>1, <1>5, AddedApproved DEF DocInv
  <2> QED
    BY <2>2, <2>3, <1>6
<1> QED
  BY <1>1, <1>8, <1>9, <1>10, <1>11, <1>12, <1>13, <1>14 DEF DocInv

(* A posting adds one, and leaves the flag, the deletion or the status that *)
(* keeps the next one off.                                                  *)
LEMMA PostKeeps ==
    ASSUME DocInv, NEW s \in Sessions, Post(s)
    PROVE  DocInv'
<1>1. /\ Seen(s) \in HeaderType /\ Accepts("post", Seen(s))
      /\ held' \in [Sessions -> {<<>>} \cup Op \X HeaderType]
      /\ HeldAccepted'
      /\ late \subseteq late' /\ late' \in SUBSET Op
      /\ "post" \notin late' => header = {Seen(s)}
  BY HeldKnows, DoneKeeps DEF DocInv, Op, Post
<1>2. /\ row \in Rows /\ row \in RowType /\ row' = row /\ Len(effects) \in Nat
      /\ row.on = "post" /\ row.sets \in BOOLEAN /\ ~row.rereads
  BY <1>1, RowsAssumption DEF DocInv, DocTypeOK, Post, Accepts, RowType
<1>3. /\ approved' = approved /\ header' = AfterPosting /\ Apply(s)
      /\ effects' \in Seq(Contents) /\ Len(effects') = Len(effects) + 1
  BY <1>1, ApplyAdds DEF Post, DocInv
<1>4. /\ \A h \in header' :
            /\ h \in HeaderType /\ h.posted = row.sets
            /\ row.ends = "final" => h.status = "Final"
            /\ \E g \in header : h.content = g.content
      /\ \A g, h \in header' : g = h
      /\ row.ends = "gone" => header' = {}
  <2>1. CASE row.ends = "gone"
    BY <2>1, <1>3 DEF AfterPosting
  <2>2. CASE row.ends # "gone"
    <3>1. /\ \A g, h \in header' : g = h
          /\ \A h \in header' : \E g \in header :
               h = [g EXCEPT !.posted = row.sets,
                             !.status = IF row.ends = "final" THEN "Final" ELSE g.status]
      BY <2>2, <1>3 DEF AfterPosting, DocInv, DocTypeOK
    <3>2. ASSUME NEW h \in header', NEW g \in header,
                 h = [g EXCEPT !.posted = row.sets,
                               !.status = IF row.ends = "final" THEN "Final" ELSE g.status]
          PROVE  /\ h \in HeaderType /\ h.posted = row.sets /\ h.content = g.content
                 /\ row.ends = "final" => h.status = "Final"
      BY <3>2, <1>2 DEF DocInv, DocTypeOK, HeaderType, Status
    <3> QED
      BY <2>2, <3>1, <3>2
  <2> QED
    BY <2>1, <2>2
<1>5. DocTypeOK'
  BY <1>1, <1>2, <1>3, <1>4 DEF DocInv, DocTypeOK
<1>6. FlagStays'
  BY <1>2, <1>4 DEF FlagStays, Flagged
<1>7. FlagProtects'
  <2> SUFFICES ASSUME Flagged(row), Len(effects') > 1
               PROVE  "post" \in late'
    BY <1>2 DEF FlagProtects, Flagged
  <2>1. ~Seen(s).posted
    BY <1>1, <1>2 DEF Flagged, Accepts
  <2>2. \A h \in header : h.posted
    BY <1>2, <1>3 DEF DocInv, FlagStays
  <2> QED
    BY <1>1, <2>1, <2>2
<1>8. DeletionProtects'
  <2> SUFFICES ASSUME Deleted(row)
               PROVE  header' = {} /\ (Len(effects') > 1 => "post" \in late')
    BY <1>2 DEF DeletionProtects, Deleted
  <2>1. header' = {}
    BY <1>4 DEF Deleted
  <2>2. Len(effects') > 1 => header = {}
    BY <1>2, <1>3 DEF DocInv, DeletionProtects
  <2> QED
    BY <1>1, <2>1, <2>2
<1>9. StatusProtects'
  <2> SUFFICES ASSUME Ended(row), late' = {}
               PROVE  (\A h \in header' : h.status = LastStatus) /\ Len(effects') <= 1
    BY <1>2 DEF StatusProtects, Ended, LastStatus
  <2>1. header = {Seen(s)} /\ Seen(s).status # LastStatus /\ row.ends = "final"
    BY <1>1, <1>2 DEF Accepts, LastStatus, Ended
  <2>2. Len(effects) = 0
    BY <1>1, <1>2, <2>1 DEF DocInv, StatusProtects
  <2> QED
    BY <1>2, <1>3, <1>4, <2>1, <2>2 DEF LastStatus
<1>10. ApprovedContent' /\ AppliedAsApproved'
  <2> SUFFICES ASSUME ~row.direct, late' \cap {"edit", "approve", "post"} = {}
               PROVE  /\ \A h \in header' : h.content \in approved'
                      /\ \A i \in 1 .. Len(effects') : effects'[i] \in approved'
    BY <1>2 DEF ApprovedContent, AppliedAsApproved
  <2>1. /\ header = {Seen(s)} /\ Seen(s).status = "Approved"
        /\ \A i \in 1 .. Len(effects) : effects[i] \in approved
    BY <1>1 DEF DocInv, AppliedAsApproved, Accepts
  <2>2. Seen(s).content \in approved /\ Seen(s).content \in Contents
    BY <1>1, <2>1 DEF DocInv, ApprovedContent, HeaderType
  <2>3. effects' = Append(effects, Seen(s).content)
    BY <1>3, <2>1 DEF Apply
  <2> QED
    BY <1>3, <1>4, <2>1, <2>2, <2>3, AddedApproved DEF DocInv
<1> QED
  BY <1>1, <1>5, <1>6, <1>7, <1>8, <1>9, <1>10 DEF DocInv

LEMMA StepKeeps == DocInv /\ [DocNext]_docVars => DocInv'
<1> SUFFICES ASSUME DocInv, [DocNext]_docVars PROVE DocInv'
  OBVIOUS
<1>1. CASE UNCHANGED docVars
  BY <1>1 DEF docVars, DocInv, DocTypeOK, HeldAccepted, Accepts, FlagStays, FlagProtects,
     DeletionProtects, StatusProtects, LastStatus, ApprovedContent, AppliedAsApproved,
     Flagged, Deleted, Ended
<1>2. ASSUME NEW s \in Sessions, NEW op \in Op, Read(s, op) PROVE DocInv'
  BY <1>2, ReadKeeps
<1>3. ASSUME NEW s \in Sessions, Edit(s) PROVE DocInv'
  BY <1>3, EditKeeps
<1>4. ASSUME NEW s \in Sessions, Delete(s) PROVE DocInv'
  BY <1>4, DeleteKeeps
<1>5. ASSUME NEW s \in Sessions, Submit(s) PROVE DocInv'
  BY <1>5, SubmitKeeps
<1>6. ASSUME NEW s \in Sessions, Return(s) PROVE DocInv'
  BY <1>6, ReturnKeeps
<1>7. ASSUME NEW s \in Sessions, Approve(s) PROVE DocInv'
  BY <1>7, ApproveKeeps
<1>8. ASSUME NEW s \in Sessions, Post(s) PROVE DocInv'
  BY <1>8, PostKeeps
<1> QED
  BY <1>1, <1>2, <1>3, <1>4, <1>5, <1>6, <1>7, <1>8 DEF DocNext

(* The state of a document, its requests and their marks always have their  *)
(* types (the handlers of every kind of the table).                         *)
THEOREM TypeCorrect == DocSpec => []DocTypeOK
<1>1. DocInv => DocTypeOK
  BY DEF DocInv
<1> QED
  BY <1>1, InitEstablishes, StepKeeps, PTL DEF DocSpec

(* For every table of kinds, each protected by the posted flag, by deletion *)
(* or by its last status: no document is applied twice unless a request was *)
(* overtaken.                                                               *)
THEOREM AppliedOnceAlways == DocSpec => []AppliedOnce
  BY InitEstablishes, StepKeeps, OnceFromInv, PTL DEF DocSpec

(* For every table of kinds: what is applied is what was approved, unless   *)
(* an edit, an approval or the posting was overtaken.                       *)
THEOREM AppliedAsApprovedAlways == DocSpec => []AppliedAsApproved
<1>1. DocInv => AppliedAsApproved
  BY DEF DocInv
<1> QED
  BY <1>1, InitEstablishes, StepKeeps, PTL DEF DocSpec

\* One element of a sequence rewritten.
LEMMA ElementRewritten ==
    ASSUME NEW S, NEW Q \in Seq(S), NEW n \in 1 .. Len(Q), NEW d \in S
    PROVE  /\ [Q EXCEPT ![n] = d] \in Seq(S) /\ Len([Q EXCEPT ![n] = d]) = Len(Q)
           /\ DOMAIN [Q EXCEPT ![n] = d] = 1 .. Len(Q)
           /\ [Q EXCEPT ![n] = d][n] = d
           /\ \A m \in 1 .. Len(Q) \ {n} : [Q EXCEPT ![n] = d][m] = Q[m]
OBVIOUS

-----------------------------------------------------------------------------
(* Orders: the document in hand, and what was posted of it.                 *)

OrderDoc == [type : {"Quote", "Order"}, status : {"Open", "Pending", "Released"}, gone : BOOLEAN,
             shipped : Nat, invoiced : Nat]
OrderReadType == {<<>>} \cup (Nat \X Requested \X OrderDoc)

OrderTypes ==
    /\ orders \in Seq(OrderDoc) /\ Len(orders) \in Nat \ {0} /\ DOMAIN orders = 1 .. Len(orders)
    /\ orderReads \in [Clerks -> OrderReadType]
    /\ moved \in Nat /\ billed \in Nat /\ posts \in Nat /\ interim \in Int
    /\ overtaken \in BOOLEAN /\ shippedTwice \in BOOLEAN

\* A request under way was accepted on the document it read.
OrderRead(c) == Nth(c) \in DOMAIN orders /\ ~Was(c).gone /\ OrderAccepts(What(c)[1], Was(c))
ReadAccepted == \A c \in Clerks : orderReads[c] # <<>> => OrderRead(c)

\* Nothing was posted of a document, its goods were, or all of it.
Untouched(d) == d.shipped = 0 /\ d.invoiced = 0 /\ posts = 0 /\ moved = 0 /\ billed = 0
HalfDone(d) ==
    /\ d.shipped = 1 /\ d.invoiced = 0 /\ ~d.gone /\ d.status = "Released"
    /\ moved = 1 /\ billed = 0
AllDone(d) == d.gone /\ moved >= 1 /\ billed = 1 /\ (moved <= 1 \/ shippedTwice)

InHand(d) ==
    \/ d.type = "Quote" /\ d.status = "Open" /\ Untouched(d)
    \/ d.type = "Order" /\ (Untouched(d) \/ HalfDone(d) \/ AllDone(d))

\* Only the last document is worked on, and what it shows is what was posted.
OneInHand ==
    /\ \A n \in 1 .. Len(orders) - 1 : orders[n].gone /\ orders[n].type = "Quote"
    /\ InHand(orders[Len(orders)])

OrderInv == OrderTypes /\ ReadAccepted /\ (~overtaken => OneInHand)

\* One document, nothing posted.
LEMMA OrderInitInv == OrderInit => OrderInv
<1> SUFFICES ASSUME OrderInit PROVE OrderInv
  OBVIOUS
<1>1. PICK type \in {"Quote", "Order"} : orders = <<NewDoc(type)>>
  BY DEF OrderInit
<1>2. NewDoc(type) \in OrderDoc /\ Len(orders) = 1 /\ orders[1] = NewDoc(type) /\ orders \in Seq(OrderDoc)
  BY <1>1 DEF NewDoc, OrderDoc
<1>3. OrderTypes
  <2>1. DOMAIN orders = 1 .. Len(orders) /\ Len(orders) \in Nat \ {0}
    BY <1>2
  <2>2. /\ moved = 0 /\ billed = 0 /\ posts = 0 /\ interim = 0 /\ overtaken = FALSE /\ shippedTwice = FALSE
        /\ orderReads = [c \in Clerks |-> <<>>]
    BY DEF OrderInit
  <2>3. orderReads \in [Clerks -> OrderReadType]
    BY <2>2 DEF OrderReadType
  <2>4. moved \in Nat /\ billed \in Nat /\ posts \in Nat /\ interim \in Int
        /\ overtaken \in BOOLEAN /\ shippedTwice \in BOOLEAN
    <3>1. moved \in Nat /\ billed \in Nat /\ posts \in Nat /\ interim \in Int
      BY <2>2, SMT
    <3>2. overtaken \in BOOLEAN /\ shippedTwice \in BOOLEAN
      BY <2>2, Zenon
    <3> QED
      BY <3>1, <3>2, Zenon
  <2>5. orders \in Seq(OrderDoc)
    BY <1>2
  <2> QED
    BY <2>1, <2>3, <2>4, <2>5, Zenon DEF OrderTypes
<1>4. OneInHand
  BY <1>2 DEF OrderInit, OneInHand, InHand, Untouched, NewDoc
<1>5. ReadAccepted
  BY DEF OrderInit, ReadAccepted
<1> QED
  BY <1>3, <1>4, <1>5 DEF OrderInv

\* What a request that writes knows: the document it was accepted on, the last one unless
\* it was overtaken.
LEMMA OrderKnown ==
    ASSUME OrderInv, NEW c \in Clerks, orderReads[c] # <<>>
    PROVE  /\ Nth(c) \in 1 .. Len(orders) /\ Was(c) \in OrderDoc /\ ~Was(c).gone
           /\ What(c) \in Requested /\ OrderAccepts(What(c)[1], Was(c))
           /\ ~overtaken /\ orders[Nth(c)] = Was(c) => Nth(c) = Len(orders) /\ InHand(Was(c))
<1>1. orderReads[c] \in Nat \X Requested \X OrderDoc
  BY DEF OrderInv, OrderTypes, OrderReadType
<1>2. What(c) \in Requested /\ Was(c) \in OrderDoc
  BY <1>1 DEF What, Was
<1>3. Nth(c) \in 1 .. Len(orders) /\ ~Was(c).gone /\ OrderAccepts(What(c)[1], Was(c))
  BY DEF OrderInv, OrderTypes, ReadAccepted, OrderRead
<1>4. ASSUME ~overtaken, orders[Nth(c)] = Was(c) PROVE Nth(c) = Len(orders) /\ InHand(Was(c))
  <2>1. OneInHand /\ Len(orders) \in Nat
    BY <1>4 DEF OrderInv, OrderTypes
  <2>2. Nth(c) = Len(orders)
    BY <2>1, <1>3, <1>4 DEF OneInHand
  <2> QED
    BY <2>1, <2>2, <1>4 DEF OneInHand
<1> QED
  BY <1>2, <1>3, <1>4

\* Reads stand while no document is taken away.
LEMMA OrderReadStands ==
    ASSUME NEW b \in Clerks, OrderRead(b), orderReads'[b] = orderReads[b], DOMAIN orders \subseteq DOMAIN orders'
    PROVE  OrderRead(b)'
BY DEF OrderRead, Nth, Was, What, OrderAccepts

\* A request that has written is done with; the others' reads stand.
LEMMA OrderFinished ==
    ASSUME OrderInv, NEW c \in Clerks, orderReads[c] # <<>>, FinishOrder(c), Len(orders) <= Len(orders'),
           orders' \in Seq(OrderDoc)
    PROVE  /\ orderReads' \in [Clerks -> OrderReadType]
           /\ ReadAccepted' /\ overtaken' \in BOOLEAN
           /\ ~overtaken' => ~overtaken /\ orders[Nth(c)] = Was(c)
<1>1. orderReads' = [orderReads EXCEPT ![c] = <<>>] /\ overtaken' = (overtaken \/ orders[Nth(c)] # Was(c))
  BY DEF FinishOrder
<1>2. orderReads \in [Clerks -> OrderReadType] /\ DOMAIN orders \subseteq DOMAIN orders'
      /\ overtaken \in BOOLEAN
  BY DEF OrderInv, OrderTypes
<1>3. orderReads' \in [Clerks -> OrderReadType]
  BY <1>1, <1>2 DEF OrderReadType
<1>4. ASSUME NEW b \in Clerks, orderReads'[b] # <<>>
      PROVE  OrderRead(b)'
  <2>1. orderReads'[b] = orderReads[b] /\ orderReads[b] # <<>>
    BY <1>1, <1>2, <1>4
  <2>2. OrderRead(b)
    BY <2>1 DEF OrderInv, ReadAccepted
  <2> QED
    BY <2>1, <2>2, <1>2, OrderReadStands
<1> QED
  BY <1>1, <1>2, <1>3, <1>4 DEF ReadAccepted

\* A request reads a document it is accepted on.
LEMMA AskOrderStep ==
    ASSUME OrderInv, NEW c \in Clerks, NEW n \in DOMAIN orders, NEW what \in Requested, AskOrder(c, n, what)
    PROVE  OrderInv'
<1>1. /\ ~orders[n].gone /\ OrderAccepts(what[1], orders[n])
      /\ orderReads' = [orderReads EXCEPT ![c] = <<n, what, orders[n]>>]
      /\ UNCHANGED <<orders, moved, billed, interim, posts, overtaken, shippedTwice>>
  BY DEF AskOrder
<1>2. n \in Nat /\ orders[n] \in OrderDoc
  BY DEF OrderInv, OrderTypes
<1>3. orderReads' \in [Clerks -> OrderReadType]
  BY <1>1, <1>2 DEF OrderInv, OrderTypes, OrderReadType
<1>4. ASSUME NEW b \in Clerks, orderReads'[b] # <<>>
      PROVE  OrderRead(b)'
  <2>1. CASE b = c
    <3>1. orderReads'[b] = <<n, what, orders[n]>>
      BY <2>1, <1>1 DEF OrderInv, OrderTypes
    <3> QED
      BY <3>1, <1>1 DEF OrderRead, Nth, Was, What, OrderAccepts
  <2>2. CASE b # c
    <3>1. orderReads'[b] = orderReads[b]
      BY <2>2, <1>1 DEF OrderInv, OrderTypes
    <3>2. OrderRead(b)
      BY <3>1, <1>4 DEF OrderInv, ReadAccepted
    <3> QED
      BY <3>1, <3>2, <1>1, OrderReadStands
  <2> QED
    BY <2>1, <2>2
<1>5. ReadAccepted'
  BY <1>4 DEF ReadAccepted
<1>6. OrderTypes'
  BY <1>1, <1>3 DEF OrderInv, OrderTypes
<1>7. (~overtaken => OneInHand)'
  BY <1>1 DEF OrderInv, OneInHand, InHand, Untouched, HalfDone, AllDone
<1> QED
  BY <1>5, <1>6, <1>7 DEF OrderInv

\* A quotation becomes an order: of which nothing is posted.
LEMMA MakeOrderStep == ASSUME OrderInv, NEW c \in Clerks, MakeOrder(c) PROVE OrderInv'
<1>1. /\ orderReads[c] # <<>> /\ What(c)[1] = "makeOrder"
      /\ orders' = Append([orders EXCEPT ![Nth(c)].gone = TRUE], NewDoc("Order"))
      /\ FinishOrder(c) /\ UNCHANGED <<moved, billed, interim, posts, shippedTwice>>
  BY DEF MakeOrder, OrderDoing
<1>2. /\ Nth(c) \in 1 .. Len(orders) /\ Was(c) \in OrderDoc /\ OrderAccepts("makeOrder", Was(c))
      /\ ~overtaken /\ orders[Nth(c)] = Was(c) => Nth(c) = Len(orders) /\ InHand(Was(c))
  BY <1>1, OrderKnown
<1>3. /\ orders \in Seq(OrderDoc) /\ Len(orders) \in Nat \ {0}
  BY DEF OrderInv, OrderTypes
<1> DEFINE S == [orders EXCEPT ![Nth(c)].gone = TRUE]
<1>4. /\ S \in Seq(OrderDoc) /\ Len(S) = Len(orders) /\ NewDoc("Order") \in OrderDoc
      /\ \A n \in 1 .. Len(orders) : S[n] = IF n = Nth(c) THEN [orders[n] EXCEPT !.gone = TRUE] ELSE orders[n]
      /\ \A n \in 1 .. Len(orders) : orders[n] \in OrderDoc
  <2> DEFINE d == [orders[Nth(c)] EXCEPT !.gone = TRUE]
  <2>1. \A n \in 1 .. Len(orders) : orders[n] \in OrderDoc
    BY <1>3
  <2>2. d \in OrderDoc /\ NewDoc("Order") \in OrderDoc
    BY <2>1, <1>2 DEF OrderDoc, NewDoc
  <2>3. S = [orders EXCEPT ![Nth(c)] = d]
    BY <1>2, <1>3
  <2> HIDE DEF d, S
  <2>4. S \in Seq(OrderDoc) /\ Len(S) = Len(orders) /\ S[Nth(c)] = d
        /\ \A m \in 1 .. Len(orders) \ {Nth(c)} : S[m] = orders[m]
    BY <2>2, <2>3, <1>2, <1>3, ElementRewritten
  <2> QED
    BY <2>1, <2>2, <2>4 DEF d
<1> HIDE DEF S
<1>5. /\ orders' \in Seq(OrderDoc) /\ Len(orders') = Len(orders) + 1
      /\ orders'[Len(orders) + 1] = NewDoc("Order")
      /\ \A n \in 1 .. Len(orders) : orders'[n] = S[n]
  BY <1>1, <1>3, <1>4 DEF S
<1>6. /\ orderReads' \in [Clerks -> OrderReadType]
      /\ ReadAccepted' /\ overtaken' \in BOOLEAN
      /\ ~overtaken' => ~overtaken /\ orders[Nth(c)] = Was(c)
  <2>1. Len(orders) <= Len(orders') /\ orders' \in Seq(OrderDoc)
    BY <1>3, <1>5
  <2> QED
    BY <1>1, <2>1, OrderFinished
<1>7. OrderTypes'
  <2>1. Len(orders') \in Nat \ {0} /\ DOMAIN orders' = 1 .. Len(orders')
    BY <1>3, <1>5
  <2> QED
    BY <1>1, <1>5, <1>6, <2>1 DEF OrderInv, OrderTypes
<1>8. ASSUME ~overtaken' PROVE OneInHand'
  <2>1. /\ ~overtaken /\ orders[Nth(c)] = Was(c) /\ Nth(c) = Len(orders) /\ InHand(Was(c)) /\ Was(c).type = "Quote"
    BY <1>2, <1>6, <1>8 DEF OrderAccepts
  <2>2. Untouched(Was(c))
    BY <2>1 DEF InHand
  <2>3. \A n \in 1 .. Len(orders) - 1 : orders[n].gone /\ orders[n].type = "Quote"
    BY <2>1 DEF OrderInv, OneInHand
  <2>4. ASSUME NEW n \in 1 .. Len(orders) PROVE orders'[n].gone /\ orders'[n].type = "Quote"
    <3>1. CASE n = Nth(c)
      <4>1. orders'[n] = [orders[n] EXCEPT !.gone = TRUE] /\ orders[n] \in OrderDoc /\ orders[n].type = "Quote"
        BY <3>1, <2>1, <1>4, <1>5
      <4> QED
        BY <4>1 DEF OrderDoc
    <3>2. CASE n # Nth(c)
      <4>1. n \in 1 .. Len(orders) - 1
        BY <3>2, <2>1, <1>3
      <4> QED
        BY <4>1, <3>2, <2>3, <1>4, <1>5
    <3> QED
      BY <3>1, <3>2
  <2>5. InHand(orders[Len(orders)])'
    BY <1>1, <1>3, <1>5, <2>2 DEF InHand, Untouched, NewDoc
  <2> QED
    BY <2>4, <2>5, <1>3, <1>5 DEF OneInHand
<1> QED
  BY <1>6, <1>7, <1>8 DEF OrderInv

\* The last document rewritten: the others are still out of hand.
LEMMA StillOneInHand ==
    ASSUME OrderInv, NEW d \in OrderDoc, ~overtaken, orders' = [orders EXCEPT ![Len(orders)] = d], InHand(d)'
    PROVE  OneInHand'
<1>1. Len(orders) \in Nat \ {0} /\ OneInHand
  BY DEF OrderInv, OrderTypes
<1>2. /\ Len(orders') = Len(orders) /\ orders'[Len(orders)] = d
      /\ \A m \in 1 .. Len(orders) \ {Len(orders)} : orders'[m] = orders[m]
  <2>1. orders \in Seq(OrderDoc) /\ Len(orders) \in 1 .. Len(orders)
    BY <1>1 DEF OrderInv, OrderTypes
  <2> QED
    BY <2>1, ElementRewritten
<1>3. \A n \in 1 .. Len(orders) - 1 : n \in 1 .. Len(orders) \ {Len(orders)}
  BY <1>1
<1>4. orders'[Len(orders')] = d
  BY <1>2, Zenon
<1> QED
  BY <1>1, <1>2, <1>3, <1>4 DEF OneInHand

\* What an update makes of a document.
Updated(op, d) ==
    CASE op = "submit" -> [d EXCEPT !.status = "Pending"]
      [] op = "approve" -> [d EXCEPT !.status = "Released"]
      [] op = "setLines" -> [d EXCEPT !.shipped = 0, !.invoiced = 0]
      [] op = "delete" -> [d EXCEPT !.gone = TRUE]
      [] OTHER -> [d EXCEPT !.status = "Open"]

\* An update of a document of which goods were posted is not accepted; before, nothing was.
LEMMA UpdateOrderStep == ASSUME OrderInv, NEW c \in Clerks, UpdateOrder(c) PROVE OrderInv'
<1>0. PICK n, op, was : n = Nth(c) /\ op = What(c)[1] /\ was = Was(c)
  OBVIOUS
<1>1. /\ orderReads[c] # <<>> /\ op \notin {"makeOrder", "post"}
      /\ orders' = [orders EXCEPT ![n] = Updated(op, orders[n])]
      /\ FinishOrder(c) /\ UNCHANGED <<moved, billed, interim, posts, shippedTwice>>
  BY <1>0 DEF UpdateOrder, Updated
<1>2. /\ n \in 1 .. Len(orders) /\ was \in OrderDoc /\ OrderAccepts(op, was) /\ What(c) \in Requested
      /\ ~was.gone
      /\ ~overtaken /\ orders[n] = was => n = Len(orders) /\ InHand(was)
  BY <1>0, <1>1, OrderKnown
<1>3. op \in {"submit", "approve", "return", "reopen", "setLines", "delete"}
  BY <1>0, <1>1, <1>2 DEF Requested
<1>4. orders \in Seq(OrderDoc) /\ orders[n] \in OrderDoc /\ Len(orders) \in Nat \ {0}
  <2>1. orders \in Seq(OrderDoc) /\ Len(orders) \in Nat \ {0}
    BY DEF OrderInv, OrderTypes
  <2> QED
    BY <2>1, <1>2
<1>5. ASSUME NEW d \in OrderDoc PROVE Updated(op, d) \in OrderDoc
  BY DEF OrderDoc, Updated
<1>6. /\ orders' \in Seq(OrderDoc) /\ Len(orders') = Len(orders) /\ DOMAIN orders' = 1 .. Len(orders')
  BY <1>1, <1>2, <1>4, <1>5, ElementRewritten
<1>8. /\ orderReads' \in [Clerks -> OrderReadType]
      /\ ReadAccepted' /\ overtaken' \in BOOLEAN
      /\ ~overtaken' => ~overtaken /\ orders[n] = was
  <2>1. Len(orders) <= Len(orders')
    BY <1>4, <1>6
  <2> QED
    BY <1>0, <1>1, <1>6, <2>1, OrderFinished
<1>9. OrderTypes'
  BY <1>1, <1>4, <1>6, <1>8 DEF OrderInv, OrderTypes
<1>10. ASSUME ~overtaken' PROVE OneInHand'
  <2>1. /\ ~overtaken /\ orders[n] = was /\ n = Len(orders) /\ InHand(was)
    BY <1>2, <1>8, <1>10
  <2>2. InHand(Updated(op, was))
    <3>1. CASE op \in {"submit", "approve", "return", "reopen"}
      BY <3>1, <2>1, <1>2 DEF InHand, Untouched, HalfDone, AllDone, OrderAccepts, OrderDoc, Updated
    <3>2. CASE op \in {"setLines", "delete"}
      BY <3>2, <2>1, <1>2 DEF InHand, Untouched, HalfDone, AllDone, OrderAccepts, OrderDoc, Updated
    <3> QED
      BY <3>1, <3>2, <1>3
  <2>3. PICK d \in OrderDoc : d = Updated(op, was)
    BY <1>2, <1>5
  <2>4. InHand(d)'
    BY <2>2, <2>3, <1>1 DEF InHand, Untouched, HalfDone, AllDone
  <2> QED
    BY <2>1, <2>3, <2>4, <1>1, StillOneInHand
<1> QED
  BY <1>8, <1>9, <1>10 DEF OrderInv

\* What a posting makes of a document.
PostedDoc(d, ships, bills) ==
    [d EXCEPT !.shipped = d.shipped + ships, !.invoiced = d.invoiced + bills,
              !.gone = d.gone \/ (d.shipped + ships >= 1 /\ d.invoiced + bills >= 1)]

LEMMA PostedDocIs ==
    ASSUME NEW d \in OrderDoc, NEW ships \in Nat, NEW bills \in Nat
    PROVE  /\ PostedDoc(d, ships, bills) \in OrderDoc
           /\ PostedDoc(d, ships, bills).type = d.type /\ PostedDoc(d, ships, bills).status = d.status
           /\ PostedDoc(d, ships, bills).shipped = d.shipped + ships
           /\ PostedDoc(d, ships, bills).invoiced = d.invoiced + bills
           /\ PostedDoc(d, ships, bills).gone <=>
                 d.gone \/ (d.shipped + ships >= 1 /\ d.invoiced + bills >= 1)
<1>1. PICK g \in BOOLEAN : g = (d.gone \/ (d.shipped + ships >= 1 /\ d.invoiced + bills >= 1))
  BY Zenon DEF OrderDoc
<1>2. PostedDoc(d, ships, bills) = [d EXCEPT !.shipped = d.shipped + ships, !.invoiced = d.invoiced + bills, !.gone = g]
  BY <1>1, Zenon DEF PostedDoc
<1>3. d.shipped + ships \in Nat /\ d.invoiced + bills \in Nat
  BY DEF OrderDoc
<1> QED
  BY <1>1, <1>2, <1>3 DEF OrderDoc

\* A posting moves and bills what the document in hand has left.
LEMMA PostOrderStep == ASSUME OrderInv, NEW c \in Clerks, PostOrder(c) PROVE OrderInv'
<1>0. PICK n, what, was : n = Nth(c) /\ what = What(c)[2] /\ was = Was(c)
  OBVIOUS
<1> DEFINE q == PostQty(was, what)
           ships == IF "ship" \in what THEN q ELSE 0
           bills == IF "invoice" \in what THEN q ELSE 0
           d == PostedDoc(orders[n], ships, bills)
<1>4. orders \in Seq(OrderDoc) /\ orders[n] \in OrderDoc /\ Len(orders) \in Nat \ {0} /\ overtaken \in BOOLEAN
      /\ moved \in Nat /\ billed \in Nat /\ posts \in Nat /\ interim \in Int /\ shippedTwice \in BOOLEAN
      /\ n \in 1 .. Len(orders)
  <2>1. orders \in Seq(OrderDoc) /\ Len(orders) \in Nat \ {0} /\ overtaken \in BOOLEAN
        /\ moved \in Nat /\ billed \in Nat /\ posts \in Nat /\ interim \in Int /\ shippedTwice \in BOOLEAN
    BY DEF OrderInv, OrderTypes
  <2>2. n \in 1 .. Len(orders)
    BY <1>0, OrderKnown DEF PostOrder, OrderDoing
  <2> QED
    BY <2>1, <2>2
<1>1. /\ orderReads[c] # <<>> /\ What(c)[1] = "post" /\ q > 0
      /\ orders' = [orders EXCEPT ![n] = d]
      /\ moved' = moved + ships /\ billed' = billed + bills /\ interim' = interim - ships + bills
      /\ shippedTwice' = (shippedTwice \/ (ships > 0 /\ was.shipped > 0))
      /\ posts' = posts + 1 /\ FinishOrder(c)
  <2> DEFINE now == [orders[n] EXCEPT !.shipped = @ + ships, !.invoiced = @ + bills]
             e == [now EXCEPT !.gone = @ \/ (now.shipped >= 1 /\ now.invoiced >= 1)]
  <2>1. /\ orderReads[c] # <<>> /\ What(c)[1] = "post" /\ q > 0
        /\ orders' = [orders EXCEPT ![n] = e]
        /\ moved' = moved + ships /\ billed' = billed + bills /\ interim' = interim - ships + bills
        /\ shippedTwice' = (shippedTwice \/ (ships > 0 /\ was.shipped > 0))
        /\ posts' = posts + 1 /\ FinishOrder(c)
    BY <1>0 DEF PostOrder, OrderDoing
  <2>2. e = d
    <3>1. PICK line \in OrderDoc : line = orders[n]
      BY <1>4
    <3> HIDE DEF q, ships, bills
    <3>2. now = [line EXCEPT !.shipped = line.shipped + ships, !.invoiced = line.invoiced + bills]
      BY <3>1
    <3>3. now.shipped = line.shipped + ships /\ now.invoiced = line.invoiced + bills /\ now.gone = line.gone
      BY <3>2 DEF OrderDoc
    <3>4. e = [now EXCEPT !.gone = line.gone \/ (line.shipped + ships >= 1 /\ line.invoiced + bills >= 1)]
      BY <3>3
    <3> QED
      BY <3>1, <3>2, <3>4 DEF OrderDoc, PostedDoc
  <2> QED
    BY <2>1, <2>2
<1>2. /\ was \in OrderDoc /\ OrderAccepts("post", was) /\ What(c) \in Requested
      /\ ~was.gone
      /\ ~overtaken /\ orders[n] = was => n = Len(orders) /\ InHand(was)
  BY <1>0, <1>1, OrderKnown
<1>3. what \in (SUBSET {"ship", "invoice"}) \ {{}}
  <2>1. PICK asked \in Requested : asked[1] = "post" /\ what = asked[2]
    BY <1>0, <1>1, <1>2
  <2> QED
    <3>1. asked \notin {<<op>> : op \in {"makeOrder", "submit", "approve", "return", "reopen", "setLines", "delete"}}
      BY <2>1
    <3>2. PICK parts \in (SUBSET {"ship", "invoice"}) \ {{}} : asked = <<"post", parts>>
      BY <3>1, Zenon DEF Requested
    <3> QED
      BY <3>2, <2>1
<1>5. q \in Nat \ {0} /\ ships \in Nat /\ bills \in Nat
  <2>1. was.shipped \in Nat /\ was.invoiced \in Nat
    BY <1>2 DEF OrderDoc
  <2>2. LeftToShip(was) \in Nat /\ ShipNow(was, what) \in Nat
    BY <2>1 DEF LeftToShip, ShipNow
  <2>3. q \in Int
    BY <2>1, <2>2 DEF PostQty, InvoiceNow
  <2> QED
    BY <2>3, <1>1
<1>7. /\ orders' \in Seq(OrderDoc) /\ Len(orders') = Len(orders) /\ DOMAIN orders' = 1 .. Len(orders')
  <2>1. d \in OrderDoc
    BY <1>4, <1>5, PostedDocIs
  <2> HIDE DEF d
  <2> QED
    BY <1>1, <1>4, <2>1, ElementRewritten
<1>8. /\ orderReads' \in [Clerks -> OrderReadType]
      /\ ReadAccepted' /\ overtaken' \in BOOLEAN
      /\ ~overtaken' => ~overtaken /\ orders[n] = was
  <2>1. Len(orders) <= Len(orders')
    BY <1>4, <1>7
  <2> QED
    BY <1>0, <1>1, <1>7, <2>1, OrderFinished
<1>9. OrderTypes'
  <2>1. /\ moved' \in Nat /\ billed' \in Nat /\ posts' \in Nat /\ interim' \in Int /\ shippedTwice' \in BOOLEAN
    <3> HIDE DEF q, ships, bills, d
    <3> QED
      BY <1>1, <1>4, <1>5
  <2> QED
    BY <2>1, <1>4, <1>7, <1>8 DEF OrderTypes
<1>10. ASSUME ~overtaken' PROVE OneInHand'
  <2>1. /\ ~overtaken /\ orders[n] = was /\ n = Len(orders) /\ InHand(was)
    BY <1>2, <1>8, <1>10
  <2>2. was.type = "Order" /\ was.status = "Released" /\ (Untouched(was) \/ HalfDone(was))
    BY <2>1, <1>2 DEF InHand, OrderAccepts, AllDone
  <2>3. PICK e \in OrderDoc : e = PostedDoc(was, ships, bills)
    BY <1>2, <1>5, PostedDocIs
  <2>4. SUFFICES InHand(e)'
    BY <2>1, <2>3, <1>1, StillOneInHand
  <2>5. /\ e.type = "Order" /\ e.status = "Released" /\ e.shipped = was.shipped + ships
        /\ e.invoiced = was.invoiced + bills
        /\ e.gone <=> (was.shipped + ships >= 1 /\ was.invoiced + bills >= 1)
    <3> HIDE DEF q, ships, bills
    <3>0. ships \in Nat /\ bills \in Nat /\ was \in OrderDoc
      BY <1>2, <1>5
    <3>1. /\ e.type = was.type /\ e.status = was.status /\ e.shipped = was.shipped + ships
          /\ e.invoiced = was.invoiced + bills
          /\ e.gone <=> was.gone \/ (was.shipped + ships >= 1 /\ was.invoiced + bills >= 1)
      BY <2>3, <3>0, PostedDocIs
    <3> QED
      BY <3>1, <2>2, <1>2, Zenon
  <2>6. CASE Untouched(was)
    <3>1. was.shipped = 0 /\ was.invoiced = 0 /\ moved = 0 /\ billed = 0 /\ posts = 0
      BY <2>6 DEF Untouched
    <3>2. CASE what = {"ship"}
      <4>1. q = 1 /\ ships = 1 /\ bills = 0
        BY <3>1, <3>2 DEF PostQty, ShipNow, LeftToShip
      <4> HIDE DEF q, ships, bills, d
      <4> QED
        BY <2>5, <3>1, <4>1, <1>1 DEF InHand, HalfDone
    <3>3. CASE what = {"invoice"}
      <4>1. q = 0
        BY <3>1, <3>3 DEF PostQty, ShipNow, LeftToShip, InvoiceNow
      <4> QED
        BY <4>1, <1>1
    <3>4. CASE what = {"ship", "invoice"}
      <4>1. q = 1 /\ ships = 1 /\ bills = 1
        BY <3>1, <3>4 DEF PostQty, ShipNow, LeftToShip, InvoiceNow
      <4> HIDE DEF q, ships, bills, d
      <4> QED
        BY <2>5, <3>1, <4>1, <1>1 DEF InHand, AllDone
    <3> QED
      BY <3>2, <3>3, <3>4, <1>3
  <2>7. CASE HalfDone(was)
    <3>1. was.shipped = 1 /\ was.invoiced = 0 /\ moved = 1 /\ billed = 0
      BY <2>7 DEF HalfDone
    <3>2. CASE what = {"ship"}
      <4>1. q = 0
        BY <3>1, <3>2 DEF PostQty, ShipNow, LeftToShip
      <4> QED
        BY <4>1, <1>1
    <3>3. CASE what = {"invoice"}
      <4>1. q = 1 /\ ships = 0 /\ bills = 1
        BY <3>1, <3>3 DEF PostQty, ShipNow, LeftToShip, InvoiceNow
      <4> HIDE DEF q, ships, bills, d
      <4> QED
        BY <2>5, <3>1, <4>1, <1>1 DEF InHand, AllDone
    <3>4. CASE what = {"ship", "invoice"}
      <4>1. q = 1 /\ ships = 1 /\ bills = 1
        BY <3>1, <3>4 DEF PostQty, ShipNow, LeftToShip, InvoiceNow
      <4> HIDE DEF q, ships, bills, d
      <4>2. moved' = 2 /\ billed' = 1 /\ (ships > 0 /\ was.shipped > 0)
        BY <3>1, <4>1, <1>1
      <4>3. shippedTwice'
        BY <4>2, <1>1, Zenon
      <4>4. e.gone /\ e.type = "Order"
        BY <2>5, <3>1, <4>1
      <4> QED
        BY <4>2, <4>3, <4>4 DEF InHand, AllDone
    <3> QED
      BY <3>2, <3>3, <3>4, <1>3
  <2> QED
    BY <2>2, <2>6, <2>7
<1> QED
  BY <1>8, <1>9, <1>10 DEF OrderInv

\* A posting refused changes no document.
LEMMA RefusePostStep == ASSUME OrderInv, NEW c \in Clerks, RefusePost(c) PROVE OrderInv'
<1>1. /\ orderReads' = [orderReads EXCEPT ![c] = <<>>]
      /\ UNCHANGED <<orders, moved, billed, interim, posts, overtaken, shippedTwice>>
  BY DEF RefusePost
<1>2. OrderTypes'
  BY <1>1 DEF OrderInv, OrderTypes, OrderReadType
<1>3. ASSUME NEW b \in Clerks, orderReads'[b] # <<>>
      PROVE  OrderRead(b)'
  <2>1. orderReads'[b] = orderReads[b] /\ orderReads[b] # <<>>
    BY <1>1, <1>3 DEF OrderInv, OrderTypes
  <2>2. OrderRead(b)
    BY <2>1 DEF OrderInv, ReadAccepted
  <2> QED
    BY <2>1, <2>2, <1>1, OrderReadStands
<1>4. (~overtaken => OneInHand)'
  BY <1>1 DEF OrderInv, OneInHand, InHand, Untouched, HalfDone, AllDone
<1> QED
  BY <1>2, <1>3, <1>4 DEF OrderInv, ReadAccepted

\* Every step of the orders keeps their invariant.
LEMMA OrderStepInv == OrderInv /\ [OrderNext]_orderVars => OrderInv'
<1> SUFFICES ASSUME OrderInv, [OrderNext]_orderVars PROVE OrderInv'
  OBVIOUS
<1>1. CASE UNCHANGED orderVars
  <2>1. OrderTypes' /\ ReadAccepted'
    BY <1>1 DEF OrderInv, OrderTypes, ReadAccepted, OrderRead, orderVars, Nth, Was, What, OrderAccepts
  <2>2. (~overtaken => OneInHand)'
    BY <1>1 DEF OrderInv, OneInHand, InHand, Untouched, HalfDone, AllDone, orderVars
  <2> QED
    BY <2>1, <2>2 DEF OrderInv
<1>2. CASE OrderNext
  BY <1>2, AskOrderStep, MakeOrderStep, UpdateOrderStep, PostOrderStep, RefusePostStep DEF OrderNext
<1> QED
  BY <1>1, <1>2

\* The invariant is at least the property.
LEMMA OrdersAreSound == OrderInv => OrderedOnce
<1> SUFFICES ASSUME OrderInv, ~overtaken PROVE
        /\ billed <= 1
        /\ moved <= 1 \/ shippedTwice
        /\ \A n \in DOMAIN orders :
              orders[n].gone /\ orders[n].type = "Order" /\ posts > 0 => moved >= 1 /\ billed = 1
  BY DEF OrderedOnce
<1>1. OneInHand /\ Len(orders) \in Nat \ {0} /\ DOMAIN orders = 1 .. Len(orders) /\ posts \in Nat /\ moved \in Nat
  BY DEF OrderInv, OrderTypes
<1>2. InHand(orders[Len(orders)])
  BY <1>1 DEF OneInHand
<1>3. billed <= 1 /\ (moved <= 1 \/ shippedTwice)
  BY <1>2 DEF InHand, Untouched, HalfDone, AllDone
<1>4. ASSUME NEW n \in DOMAIN orders, orders[n].gone, orders[n].type = "Order", posts > 0
      PROVE  moved >= 1 /\ billed = 1
  <2>1. n = Len(orders)
    BY <1>1, <1>4 DEF OneInHand
  <2> QED
    BY <1>2, <1>4, <2>1 DEF InHand, Untouched, HalfDone, AllDone
<1> QED
  BY <1>3, <1>4

-----------------------------------------------------------------------------
(* The review of a requisition: a line stands on the order it names.        *)

\* Where x stands in the sequence Q.
Places(Q, x) == {i \in DOMAIN Q : Q[i] = x}

\* A sequence has finitely many places.
LEMMA PlacesFinite ==
    ASSUME NEW S, NEW Q \in Seq(S), NEW x
    PROVE  IsFiniteSet(Places(Q, x)) /\ Cardinality(Places(Q, x)) \in Nat
<1>1. Places(Q, x) \subseteq 1 .. Len(Q) /\ Len(Q) \in Nat
  BY DEF Places
<1>2. IsFiniteSet(1 .. Len(Q))
  BY <1>1, FS_Interval
<1> QED
  BY <1>1, <1>2, FS_Subset, FS_CardinalityType

\* The places of two sequences put together.
LEMMA PlacesAdd ==
    ASSUME NEW S, NEW Q \in Seq(S), NEW R \in Seq(S), NEW x
    PROVE  Cardinality(Places(Q \o R, x)) = Cardinality(Places(Q, x)) + Cardinality(Places(R, x))
<1> DEFINE B == {i \in Len(Q) + 1 .. Len(Q) + Len(R) : R[i - Len(Q)] = x}
           f == [i \in Places(R, x) |-> i + Len(Q)]
<1>1. Len(Q) \in Nat /\ Len(R) \in Nat
  OBVIOUS
<1>2. f \in Bijection(Places(R, x), B)
  <2>1. f \in [Places(R, x) -> B]
    BY <1>1 DEF Places
  <2>2. \A i, j \in Places(R, x) : f[i] = f[j] => i = j
    BY <1>1 DEF Places
  <2>3. \A b \in B : \E i \in Places(R, x) : f[i] = b
    <3> SUFFICES ASSUME NEW b \in B PROVE \E i \in Places(R, x) : f[i] = b
      OBVIOUS
    <3>1. b - Len(Q) \in Places(R, x)
      BY <1>1 DEF Places
    <3> QED
      BY <3>1, <1>1
  <2> QED
    BY <2>1, <2>2, <2>3 DEF Bijection, Injection, Surjection, IsInjective
<1>3. IsFiniteSet(B) /\ Cardinality(B) = Cardinality(Places(R, x))
  <2>1. ExistsBijection(Places(R, x), B)
    BY <1>2 DEF ExistsBijection
  <2> HIDE DEF B
  <2> QED
    BY <2>1, PlacesFinite, FS_Bijection
<1>4. Places(Q \o R, x) = Places(Q, x) \cup B
  <2>1. /\ DOMAIN (Q \o R) = 1 .. Len(Q) + Len(R)
        /\ \A i \in 1 .. Len(Q) : (Q \o R)[i] = Q[i]
        /\ \A i \in Len(Q) + 1 .. Len(Q) + Len(R) : (Q \o R)[i] = R[i - Len(Q)]
    OBVIOUS
  <2> QED
    BY <2>1, <1>1 DEF Places
<1>5. Places(Q, x) \cap B = {}
  BY <1>1 DEF Places
<1> HIDE DEF B
<1>6. Cardinality({}) = 0
  BY FS_EmptySet
<1>7. IsFiniteSet(Places(Q, x)) /\ Cardinality(Places(Q, x)) \in Nat /\ Cardinality(Places(R, x)) \in Nat
  BY PlacesFinite
<1>8. Cardinality(Places(Q, x) \cup B) = Cardinality(Places(Q, x)) + Cardinality(B) - Cardinality({})
  BY <1>3, <1>5, <1>7, FS_Union
<1> QED
  BY <1>3, <1>4, <1>6, <1>7, <1>8

\* A set written as a sequence has each of its elements at one place.
LEMMA PlacesOfSet ==
    ASSUME NEW T, IsFiniteSet(T)
    PROVE  /\ SetToSeq(T) \in Seq(T)
           /\ \A x : Cardinality(Places(SetToSeq(T), x)) = IF x \in T THEN 1 ELSE 0
<1> DEFINE n == Cardinality(T)
           Q == SetToSeq(T)
<1>1. n \in Nat /\ ExistsBijection(1 .. n, T)
  BY FS_CardinalityType
<1>2. PICK b \in [1 .. n -> T] : IsInjective(b)
  BY <1>1 DEF ExistsBijection, Bijection, Injection
<1>3. Q \in [1 .. n -> T] /\ IsInjective(Q)
  BY <1>2 DEF SetToSeq
<1> HIDE DEF Q
<1>4. Q \in Seq(T) /\ DOMAIN Q = 1 .. n
  BY <1>1, <1>3
<1>5. Q \in Surjection(1 .. n, T)
  <2>1. Q \in Injection(1 .. n, T)
    BY <1>3 DEF Injection
  <2>2. Cardinality(1 .. n) = n
    BY <1>1, FS_Interval
  <2> HIDE DEF n
  <2> QED
    BY <2>1, <2>2, FS_Injection DEF n
<1>6. ASSUME NEW x \in T PROVE Cardinality(Places(Q, x)) = 1
  <2>1. PICK i \in 1 .. n : Q[i] = x
    BY <1>5, <1>6 DEF Surjection
  <2>2. Places(Q, x) = {i}
    BY <2>1, <1>3, <1>4 DEF Places, IsInjective
  <2> QED
    BY <2>2, FS_Singleton
<1>7. ASSUME NEW x, x \notin T PROVE Cardinality(Places(Q, x)) = 0
  <2>1. Places(Q, x) = {}
    BY <1>3, <1>7 DEF Places
  <2> QED
    BY <2>1, FS_EmptySet
<1> QED
  BY <1>4, <1>6, <1>7 DEF Q

Decisions == {"", "Order", "Append to Order"}
PrLine == [decision : Decisions, processed : BOOLEAN, order : Nat]
RaisedDoc == [status : {"Open", "Released"}, lines : Seq(PrLines \cup {0})]

ReviewTypes ==
    /\ prLines \in [PrLines -> PrLine] /\ prClosed \in {"no", "order", "hand"}
    /\ raised \in Seq(RaisedDoc) /\ Len(raised) \in Nat \ {0} /\ DOMAIN raised = 1 .. Len(raised)
    /\ reviewer = [k \in Reviewers |-> reviewer[k]]

\* What a request has read: no line is both to append and to order anew, none was processed.
ReaderOk(k) ==
    /\ Reviewing(k, "decide") => reviewer[k][2] \in PrLines /\ reviewer[k][3] \in Decisions
    /\ Reviewing(k, "execute") \/ Reviewing(k, "raise") =>
          /\ reviewer[k][2] \in SUBSET PrLines /\ reviewer[k][3] \in SUBSET PrLines
          /\ reviewer[k][2] \cap reviewer[k][3] = {} /\ reviewer[k][4] = {}
    /\ Reviewing(k, "raise") => reviewer[k][5] \in Seq(PrLines \cup {0})
ReadersOk == \A k \in Reviewers : ReaderOk(k)

\* Each line stands on the order it names, a processed one names an order there is.
LineStands(l) ==
    /\ prLines[l].processed => prLines[l].order \in DOMAIN raised
    /\ \A o \in DOMAIN raised :
          Cardinality(Places(raised[o].lines, l)) = IF prLines[l].processed /\ prLines[l].order = o THEN 1 ELSE 0
LinesStand ==
    /\ \A l \in PrLines : LineStands(l)
    /\ prClosed = "order" <=> \A l \in PrLines : prLines[l].processed

ReviewInv == ReviewTypes /\ ReadersOk /\ (reviewMarks = {} => LinesStand)

\* A requisition of which no line is processed, and an order of its own.
LEMMA ReviewInitInv == ReviewInit => ReviewInv
<1> SUFFICES ASSUME ReviewInit PROVE ReviewInv
  OBVIOUS
<1>1. PICK d \in Decisions :
      /\ prLines = [l \in PrLines |-> [decision |-> d, processed |-> FALSE, order |-> 0]]
      /\ prClosed = "no" /\ raised = <<[status |-> "Open", lines |-> <<0>>]>>
      /\ reviewer = [k \in Reviewers |-> <<>>] /\ reviewMarks = {}
  BY Zenon DEF ReviewInit, Decisions
<1>2. \A l \in PrLines : ~prLines[l].processed
  BY <1>1
<1>3. prLines \in [PrLines -> PrLine]
  BY <1>1 DEF PrLine
<1>4. raised \in Seq(RaisedDoc) /\ Len(raised) = 1 /\ DOMAIN raised = {1} /\ raised[1].lines = <<0>>
  <2>1. [status |-> "Open", lines |-> <<0>>] \in RaisedDoc
    BY DEF RaisedDoc
  <2> QED
    BY <1>1, <2>1
<1>5. ReviewTypes
  <2>1. DOMAIN raised = 1 .. Len(raised) /\ Len(raised) \in Nat \ {0} /\ raised \in Seq(RaisedDoc)
    BY <1>4
  <2>2. reviewer = [k \in Reviewers |-> reviewer[k]] /\ prClosed \in {"no", "order", "hand"}
    BY <1>1
  <2> QED
    BY <1>3, <2>1, <2>2, Zenon DEF ReviewTypes
<1>6. ReadersOk
  BY <1>1 DEF ReadersOk, ReaderOk, Reviewing
<1>7. LinesStand
  <2>1. ASSUME NEW l \in PrLines PROVE Cardinality(Places(raised[1].lines, l)) = 0
    <3>1. l # 0
      BY PrLinesAssumption
    <3>2. Places(raised[1].lines, l) = {}
      BY <1>4, <3>1 DEF Places
    <3> QED
      BY <3>2, FS_EmptySet
  <2>2. \A l \in PrLines : LineStands(l)
    BY <1>2, <1>4, <2>1 DEF LineStands
  <2>3. prClosed # "order" /\ ~(\A l \in PrLines : prLines[l].processed)
    BY <1>1, <1>2, PrLinesAssumption
  <2> QED
    BY <2>2, <2>3, Zenon DEF LinesStand
<1> QED
  BY <1>5, <1>6, <1>7 DEF ReviewInv

\* A request reads or is done, and the others keep what they read.
LEMMA ReadersStay ==
    ASSUME ReviewInv, NEW k \in Reviewers, NEW read, reviewer' = [reviewer EXCEPT ![k] = read], ReaderOk(k)'
    PROVE  ReadersOk' /\ reviewer' = [j \in Reviewers |-> reviewer'[j]]
<1>1. reviewer = [j \in Reviewers |-> reviewer[j]] /\ ReadersOk
  BY DEF ReviewInv, ReviewTypes
<1>2. reviewer' = [j \in Reviewers |-> reviewer'[j]]
  BY <1>1
<1>3. ASSUME NEW j \in Reviewers PROVE ReaderOk(j)'
  <2>1. CASE j = k
    BY <2>1
  <2>2. CASE j # k
    <3>1. reviewer'[j] = reviewer[j]
      BY <2>2, <1>1
    <3> QED
      BY <3>1, <1>1 DEF ReadersOk, ReaderOk, Reviewing
  <2> QED
    BY <2>1, <2>2
<1> QED
  BY <1>2, <1>3 DEF ReadersOk

\* What is not written stays as it was.
LEMMA RestOfReview ==
    ASSUME ReviewInv, UNCHANGED <<prLines, prClosed, raised, reviewMarks>>, ReadersOk',
           reviewer' = [j \in Reviewers |-> reviewer'[j]]
    PROVE  ReviewInv'
BY DEF ReviewInv, ReviewTypes, LinesStand, LineStands

\* Asking writes nothing; what is read is disjoint.
LEMMA AskDecisionStep ==
    ASSUME ReviewInv, NEW k \in Reviewers, NEW l \in PrLines, NEW decision \in Decisions, AskDecision(k, l, decision)
    PROVE  ReviewInv'
<1>1. /\ reviewer' = [reviewer EXCEPT ![k] = <<"decide", l, decision>>]
      /\ UNCHANGED <<prLines, prClosed, raised, reviewMarks>>
  BY Zenon DEF AskDecision
<1>2. reviewer'[k] = <<"decide", l, decision>>
  BY <1>1 DEF ReviewInv, ReviewTypes
<1>3. ReaderOk(k)'
  BY <1>2 DEF ReaderOk, Reviewing
<1> QED
  BY <1>1, <1>3, ReadersStay, RestOfReview

LEMMA ReadReviewStep == ASSUME ReviewInv, NEW k \in Reviewers, ReadReview(k) PROVE ReviewInv'
<1>1. PICK appended, fresh, before :
        /\ reviewer' = [reviewer EXCEPT ![k] = <<"execute", appended, fresh, before>>]
        /\ appended = {l \in Pending : prLines[l].decision = "Append to Order"}
        /\ fresh = {l \in Pending : prLines[l].decision = "Order"}
        /\ before = {l \in Pending : prLines[l].processed}
        /\ UNCHANGED <<prLines, prClosed, raised, reviewMarks>>
  BY Zenon DEF ReadReview
<1>2. appended \cap fresh = {} /\ before = {}
  BY <1>1, Zenon DEF Pending
<1>3. appended \in SUBSET PrLines /\ fresh \in SUBSET PrLines
  BY <1>1, Zenon DEF Pending
<1>4. reviewer' = [reviewer EXCEPT ![k] = <<"execute", appended, fresh, before>>]
      /\ UNCHANGED <<prLines, prClosed, raised, reviewMarks>>
  BY <1>1, Zenon
<1>5. reviewer'[k] = <<"execute", appended, fresh, before>>
  BY <1>4 DEF ReviewInv, ReviewTypes
<1>6. ReaderOk(k)'
  BY <1>2, <1>3, <1>5 DEF ReaderOk, Reviewing
<1> QED
  BY <1>4, <1>6, ReadersStay, RestOfReview

LEMMA ReadTargetStep == ASSUME ReviewInv, NEW k \in Reviewers, ReadTarget(k) PROVE ReviewInv'
<1>1. PICK read : read = reviewer[k]
  OBVIOUS
<1>2. /\ reviewer' = [reviewer EXCEPT ![k] = <<"raise", read[2], read[3], read[4], raised[1].lines>>]
      /\ UNCHANGED <<prLines, prClosed, raised, reviewMarks>> /\ Reviewing(k, "execute")
  BY <1>1 DEF ReadTarget, ReviewInv, ReviewTypes
<1>3. reviewer'[k] = <<"raise", read[2], read[3], read[4], raised[1].lines>>
  BY <1>2 DEF ReviewInv, ReviewTypes
<1>4. raised[1].lines \in Seq(PrLines \cup {0})
  <2>1. PICK d \in RaisedDoc : d = raised[1]
    BY DEF ReviewInv, ReviewTypes
  <2> QED
    BY <2>1 DEF RaisedDoc
<1>5. /\ read[2] \in SUBSET PrLines /\ read[3] \in SUBSET PrLines
      /\ read[2] \cap read[3] = {} /\ read[4] = {}
  BY <1>1, <1>2 DEF ReviewInv, ReadersOk, ReaderOk
<1>6. ReaderOk(k)'
  BY <1>3, <1>4, <1>5 DEF ReaderOk, Reviewing
<1> QED
  BY <1>2, <1>6, ReadersStay, RestOfReview

LEMMA RefuseTargetStep == ASSUME ReviewInv, NEW k \in Reviewers, RefuseTarget(k) PROVE ReviewInv'
<1>1. reviewer' = [reviewer EXCEPT ![k] = <<>>] /\ UNCHANGED <<prLines, prClosed, raised, reviewMarks>>
  BY DEF RefuseTarget, Free
<1>2. reviewer'[k] = <<>>
  BY <1>1 DEF ReviewInv, ReviewTypes
<1>3. ReaderOk(k)'
  BY <1>2 DEF ReaderOk, Reviewing
<1> QED
  BY <1>1, <1>3, ReadersStay, RestOfReview

LEMMA AskCloseStep == ASSUME ReviewInv, NEW k \in Reviewers, AskClose(k) PROVE ReviewInv'
<1>1. reviewer' = [reviewer EXCEPT ![k] = <<"close">>] /\ UNCHANGED <<prLines, prClosed, raised, reviewMarks>>
  BY DEF AskClose
<1>2. reviewer'[k] = <<"close">>
  BY <1>1 DEF ReviewInv, ReviewTypes
<1>3. ReaderOk(k)'
  BY <1>2 DEF ReaderOk, Reviewing
<1> QED
  BY <1>1, <1>3, ReadersStay, RestOfReview

\* A decision processes nothing.
LEMMA SetLineDecisionStep == ASSUME ReviewInv, NEW k \in Reviewers, SetLineDecision(k) PROVE ReviewInv'
<1>1. PICK l, decision : l = reviewer[k][2] /\ decision = reviewer[k][3]
  OBVIOUS
<1>2. /\ Reviewing(k, "decide") /\ reviewer' = [reviewer EXCEPT ![k] = <<>>]
      /\ prLines' = [prLines EXCEPT ![l].decision = decision]
      /\ UNCHANGED <<prClosed, raised>> /\ reviewMarks \subseteq reviewMarks'
  BY <1>1 DEF SetLineDecision, Free
<1>3. reviewer'[k] = <<>>
  BY <1>2 DEF ReviewInv, ReviewTypes
<1>4. ReaderOk(k)'
  BY <1>3 DEF ReaderOk, Reviewing
<1>5. l \in PrLines /\ decision \in Decisions
  BY <1>1, <1>2 DEF ReviewInv, ReadersOk, ReaderOk
<1>6. /\ prLines' \in [PrLines -> PrLine]
      /\ \A m \in PrLines : prLines'[m].processed = prLines[m].processed /\ prLines'[m].order = prLines[m].order
  BY <1>2, <1>5 DEF ReviewInv, ReviewTypes, PrLine
<1>7. LinesStand => LinesStand'
  BY <1>2, <1>6 DEF LinesStand, LineStands
<1>8. ReadersOk' /\ reviewer' = [j \in Reviewers |-> reviewer'[j]]
  BY <1>2, <1>4, ReadersStay
<1> QED
  BY <1>2, <1>6, <1>7, <1>8 DEF ReviewInv, ReviewTypes

\* Closing by hand a requisition that is not closed: a line is left.
LEMMA ClosePrStep == ASSUME ReviewInv, NEW k \in Reviewers, ClosePr(k) PROVE ReviewInv'
<1>1. /\ reviewer' = [reviewer EXCEPT ![k] = <<>>] /\ UNCHANGED <<prLines, raised>> /\ prClosed' = "hand"
      /\ reviewMarks' = reviewMarks \cup Flag(prClosed # "no", "late")
  BY DEF ClosePr, Free
<1>3. reviewer'[k] = <<>>
  BY <1>1 DEF ReviewInv, ReviewTypes
<1>4. ReaderOk(k)'
  BY <1>3 DEF ReaderOk, Reviewing
<1>5. ReadersOk' /\ reviewer' = [j \in Reviewers |-> reviewer'[j]]
  BY <1>1, <1>4, ReadersStay
<1>6. reviewMarks' = {} => reviewMarks = {} /\ prClosed = "no"
  BY <1>1 DEF Flag
<1>7. reviewMarks' = {} => LinesStand'
  BY <1>1, <1>6 DEF ReviewInv, LinesStand, LineStands
<1> QED
  BY <1>1, <1>5, <1>7 DEF ReviewInv, ReviewTypes

\* Two sequences put together.
LEMMA PutTogether ==
    ASSUME NEW S, NEW P \in Seq(S), NEW Q \in Seq(S)
    PROVE  /\ P \o Q \in Seq(S) /\ Len(P \o Q) = Len(P) + Len(Q)
           /\ \A i \in 1 .. Len(P) : (P \o Q)[i] = P[i]
           /\ \A i \in 1 .. Len(Q) : (P \o Q)[Len(P) + i] = Q[i]
OBVIOUS

\* The first order rewritten and others raised behind.
LEMMA OrdersRaised ==
    ASSUME ReviewInv, NEW d \in RaisedDoc, NEW extra \in Seq(RaisedDoc), raised' = [raised EXCEPT ![1] = d] \o extra
    PROVE  /\ raised' \in Seq(RaisedDoc) /\ Len(raised') = Len(raised) + Len(extra)
           /\ Len(raised') \in Nat \ {0} /\ DOMAIN raised' = 1 .. Len(raised')
           /\ raised'[1] = d /\ \A o \in 2 .. Len(raised) : raised'[o] = raised[o]
           /\ \A o \in 1 .. Len(extra) : raised'[Len(raised) + o] = extra[o]
<1>1. raised \in Seq(RaisedDoc) /\ Len(raised) \in Nat \ {0}
  BY DEF ReviewInv, ReviewTypes
<1> DEFINE Q == [raised EXCEPT ![1] = d]
<1>2. Q \in Seq(RaisedDoc) /\ Len(Q) = Len(raised) /\ Q[1] = d /\ \A o \in 2 .. Len(raised) : Q[o] = raised[o]
  BY <1>1
<1> HIDE DEF Q
<1>3. /\ Q \o extra \in Seq(RaisedDoc) /\ Len(Q \o extra) = Len(raised) + Len(extra)
      /\ \A o \in 1 .. Len(raised) : (Q \o extra)[o] = Q[o]
      /\ \A o \in 1 .. Len(extra) : (Q \o extra)[Len(raised) + o] = extra[o]
  <2>1. /\ Q \o extra \in Seq(RaisedDoc) /\ Len(Q \o extra) = Len(Q) + Len(extra)
        /\ \A o \in 1 .. Len(Q) : (Q \o extra)[o] = Q[o]
        /\ \A o \in 1 .. Len(extra) : (Q \o extra)[Len(Q) + o] = extra[o]
    <3>1. Q \in Seq(RaisedDoc)
      BY <1>2
    <3> QED
      BY <3>1, PutTogether
  <2> QED
    BY <2>1, <1>2, Zenon
<1>4. raised' = Q \o extra
  BY DEF Q
<1>5. Len(extra) \in Nat
  OBVIOUS
<1> QED
  BY <1>1, <1>2, <1>3, <1>4, <1>5

\* Released, reopened, given a line of its own: the lines of the requisition stay where they are.
LEMMA MoveOrderStep == ASSUME ReviewInv, MoveOrder PROVE ReviewInv'
<1>1. UNCHANGED <<prLines, prClosed, reviewer, reviewMarks>>
  BY DEF MoveOrder
<1>2. PICK r \in RaisedDoc : r = raised[1]
  BY DEF ReviewInv, ReviewTypes
<1>3. r.lines \in Seq(PrLines \cup {0})
  BY <1>2 DEF RaisedDoc
<1> DEFINE Goal == \E d \in RaisedDoc :
        /\ raised' = [raised EXCEPT ![1] = d]
        /\ \A l \in PrLines : Cardinality(Places(d.lines, l)) = Cardinality(Places(r.lines, l))
<1>4. Goal
  <2>1. ASSUME NEW st \in {"Open", "Released"} \ {raised[1].status}, raised' = [raised EXCEPT ![1].status = st]
        PROVE  Goal
    <3>1. raised' = [raised EXCEPT ![1] = [r EXCEPT !.status = st]] /\ [r EXCEPT !.status = st] \in RaisedDoc
          /\ [r EXCEPT !.status = st].lines = r.lines
      BY <1>2, <2>1 DEF RaisedDoc, ReviewInv, ReviewTypes
    <3> QED
      BY <3>1
  <2>2. ASSUME raised' = [raised EXCEPT ![1].lines = Append(@, 0)]
        PROVE  Goal
    <3> DEFINE d == [r EXCEPT !.lines = Append(r.lines, 0)]
    <3>1. raised' = [raised EXCEPT ![1] = d]
      BY <1>2, <2>2 DEF ReviewInv, ReviewTypes
    <3>2. d \in RaisedDoc /\ d.lines = Append(r.lines, 0)
      BY <1>2, <1>3 DEF RaisedDoc
    <3>3. ASSUME NEW l \in PrLines PROVE Places(Append(r.lines, 0), l) = Places(r.lines, l)
      <4>1. l # 0
        BY PrLinesAssumption
      <4> QED
        BY <4>1, <1>3 DEF Places
    <3> HIDE DEF d
    <3> QED
      BY <3>1, <3>2, <3>3
  <2> QED
    BY <2>1, <2>2 DEF MoveOrder
<1>5. PICK d \in RaisedDoc :
        /\ raised' = [raised EXCEPT ![1] = d]
        /\ \A l \in PrLines : Cardinality(Places(d.lines, l)) = Cardinality(Places(r.lines, l))
  BY <1>4
<1> HIDE DEF Goal
<1>55. raised' = [raised EXCEPT ![1] = d] \o <<>>
  BY <1>5 DEF ReviewInv, ReviewTypes
<1>6. /\ raised' \in Seq(RaisedDoc) /\ Len(raised') = Len(raised)
      /\ Len(raised') \in Nat \ {0} /\ DOMAIN raised' = 1 .. Len(raised')
      /\ raised'[1] = d /\ \A o \in 2 .. Len(raised) : raised'[o] = raised[o]
  <2>1. Len(raised) \in Nat
    BY DEF ReviewInv, ReviewTypes
  <2>2. PICK extra \in Seq(RaisedDoc) : extra = <<>> /\ Len(extra) = 0
    <3>1. <<>> \in Seq(RaisedDoc) /\ Len(<<>>) = 0
      OBVIOUS
    <3> QED
      BY <3>1, Zenon
  <2>3. raised' = [raised EXCEPT ![1] = d] \o extra
    BY <2>2, <1>55, Zenon
  <2>4. /\ raised' \in Seq(RaisedDoc) /\ Len(raised') = Len(raised) + Len(extra)
        /\ Len(raised') \in Nat \ {0} /\ DOMAIN raised' = 1 .. Len(raised')
        /\ raised'[1] = d /\ \A o \in 2 .. Len(raised) : raised'[o] = raised[o]
    BY <2>3, OrdersRaised
  <2> QED
    BY <2>1, <2>2, <2>4
<1>7. ReviewTypes' /\ ReadersOk'
  BY <1>1, <1>6 DEF ReviewInv, ReviewTypes, ReadersOk, ReaderOk, Reviewing
<1>8. ASSUME LinesStand PROVE LinesStand'
  <2>1. DOMAIN raised' = DOMAIN raised /\ Len(raised) \in Nat \ {0} /\ DOMAIN raised = 1 .. Len(raised)
    BY <1>6 DEF ReviewInv, ReviewTypes
  <2>2. ASSUME NEW l \in PrLines, NEW o \in DOMAIN raised
        PROVE  Cardinality(Places(raised'[o].lines, l)) = Cardinality(Places(raised[o].lines, l))
    <3>1. CASE o = 1
      BY <3>1, <1>2, <1>5, <1>6
    <3>2. CASE o # 1
      BY <3>2, <2>1, <1>6
    <3> QED
      BY <3>1, <3>2
  <2>3. ASSUME NEW l \in PrLines PROVE LineStands(l)'
    <3>1. LineStands(l)
      BY <1>8 DEF LinesStand
    <3> QED
      BY <3>1, <2>1, <2>2, <1>1 DEF LineStands
  <2> QED
    BY <2>3, <1>1, <1>8 DEF LinesStand
<1> QED
  BY <1>1, <1>7, <1>8 DEF ReviewInv

\* What an execution makes of the lines of the requisition, of the order it appends to (one of
\* these), and the orders it raises.
OrderedOn(l, n) == [prLines[l] EXCEPT !.processed = TRUE, !.order = n]
WrittenLines(appended, fresh, new) ==
    [l \in PrLines |->
        IF l \in appended THEN OrderedOn(l, 1) ELSE IF l \in fresh THEN OrderedOn(l, new) ELSE prLines[l]]
AfterAppending(appended, known, now) ==
    IF appended = {} THEN {now}
    ELSE {known \o SetToSeq(appended)} \cup (IF now # known THEN {now \o known \o SetToSeq(appended)} ELSE {})
RaisedAnew(fresh) == IF fresh = {} THEN <<>> ELSE <<[status |-> "Open", lines |-> SetToSeq(fresh)]>>

\* An execution that read what still is: the lines it takes stood nowhere, and stand once after.
LEMMA ExecuteReviewStep == ASSUME ReviewInv, NEW k \in Reviewers, ExecuteReview(k) PROVE ReviewInv'
<1>1. PICK appended, fresh, known, r :
        /\ appended = reviewer[k][2] /\ fresh = reviewer[k][3] /\ known = reviewer[k][5] /\ r = raised[1]
  OBVIOUS
<1>2. /\ appended \in SUBSET PrLines /\ fresh \in SUBSET PrLines /\ appended \cap fresh = {}
      /\ reviewer[k][4] = {} /\ known \in Seq(PrLines \cup {0})
  <2>1. Reviewing(k, "raise")
    BY Zenon DEF ExecuteReview
  <2> QED
    BY <1>1, <2>1 DEF ReviewInv, ReadersOk, ReaderOk
<1>3. r \in RaisedDoc /\ r.lines \in Seq(PrLines \cup {0})
  <2>1. PICK d \in RaisedDoc : d = raised[1]
    BY DEF ReviewInv, ReviewTypes
  <2> QED
    BY <2>1, <1>1 DEF RaisedDoc
<1>41. PICK extra, written, new, after :
        /\ extra = RaisedAnew(fresh) /\ new = Len(raised) + 1
        /\ written = WrittenLines(appended, fresh, new) /\ after = AfterAppending(appended, known, r.lines)
  OBVIOUS
<1>42. /\ \E lines \in AfterAppending(reviewer[k][2], reviewer[k][5], raised[1].lines) :
              raised' = [raised EXCEPT ![1].lines = lines] \o RaisedAnew(reviewer[k][3])
       /\ prLines' = WrittenLines(reviewer[k][2], reviewer[k][3], Len(raised) + 1)
       /\ prClosed' = IF \A l \in PrLines :
                            WrittenLines(reviewer[k][2], reviewer[k][3], Len(raised) + 1)[l].processed
                       THEN "order" ELSE "no"
       /\ reviewer' = [reviewer EXCEPT ![k] = <<>>]
  BY Zenon DEF ExecuteReview, Free, AfterAppending, RaisedAnew, WrittenLines, OrderedOn
<1>43. reviewMarks' = reviewMarks
                \cup Flag(\E l \in (reviewer[k][2] \cup reviewer[k][3]) \ reviewer[k][4] : prLines[l].processed, "twice")
                \cup Flag(prClosed # "no", "late")
                \cup Flag(reviewer[k][2] # {} /\ raised[1].lines # reviewer[k][5], "rewritten")
                \cup Flag(reviewer[k][2] # {} /\ raised[1].status # "Open", "released")
  BY Zenon DEF ExecuteReview
<1>4. PICK lines \in after :
        /\ raised' = [raised EXCEPT ![1].lines = lines] \o extra
        /\ prLines' = written
        /\ prClosed' = IF \A l \in PrLines : written[l].processed THEN "order" ELSE "no"
        /\ reviewer' = [reviewer EXCEPT ![k] = <<>>]
  BY <1>1, <1>41, <1>42
<1>45. lines \in AfterAppending(appended, known, r.lines)
  BY <1>4, <1>41
<1>44. reviewMarks' = {} => /\ reviewMarks = {} /\ prClosed = "no"
                            /\ appended # {} => r.lines = known
                            /\ \A l \in appended \cup fresh : ~prLines[l].processed
  BY <1>1, <1>2, <1>43 DEF Flag
<1>5. /\ SetToSeq(appended) \in Seq(appended) /\ SetToSeq(fresh) \in Seq(fresh)
      /\ \A x : Cardinality(Places(SetToSeq(appended), x)) = IF x \in appended THEN 1 ELSE 0
      /\ \A x : Cardinality(Places(SetToSeq(fresh), x)) = IF x \in fresh THEN 1 ELSE 0
  <2>1. IsFiniteSet(appended) /\ IsFiniteSet(fresh)
    BY <1>2, PrLinesAssumption, FS_Subset
  <2> QED
    BY <2>1, PlacesOfSet
<1>6. SetToSeq(appended) \in Seq(PrLines \cup {0}) /\ SetToSeq(fresh) \in Seq(PrLines \cup {0})
  <2>1. ASSUME NEW T \in SUBSET PrLines, NEW Q \in Seq(T) PROVE Q \in Seq(PrLines \cup {0})
    OBVIOUS
  <2> QED
    BY <2>1, <1>2, <1>5
<1>7. lines \in Seq(PrLines \cup {0})
  <2>1. ASSUME NEW P \in Seq(PrLines \cup {0}), NEW Q \in Seq(PrLines \cup {0}) PROVE P \o Q \in Seq(PrLines \cup {0})
    OBVIOUS
  <2>2. CASE appended = {}
    BY <2>2, <1>3, <1>4, <1>41 DEF AfterAppending
  <2>3. CASE appended # {} /\ lines = known \o SetToSeq(appended)
    BY <2>1, <2>3, <1>2, <1>6
  <2>4. CASE lines = r.lines \o known \o SetToSeq(appended)
    <3>1. r.lines \o known \in Seq(PrLines \cup {0})
      BY <2>1, <1>2, <1>3
    <3> QED
      BY <2>1, <2>4, <3>1, <1>6
  <2> QED
    BY <2>2, <2>3, <2>4, <1>4, <1>41 DEF AfterAppending
<1>8. PICK d \in RaisedDoc : d = [r EXCEPT !.lines = lines] /\ d.lines = lines
  <2> DEFINE e == [r EXCEPT !.lines = lines]
  <2>1. e \in RaisedDoc /\ e.lines = lines
    BY <1>3, <1>7 DEF RaisedDoc
  <2> HIDE DEF e
  <2> QED
    BY <2>1 DEF e
<1>9. extra \in Seq(RaisedDoc) /\ Len(extra) = (IF fresh = {} THEN 0 ELSE 1)
      /\ (fresh # {} => extra[1].lines = SetToSeq(fresh))
  <2>1. [status |-> "Open", lines |-> SetToSeq(fresh)] \in RaisedDoc
    BY <1>6 DEF RaisedDoc
  <2> QED
    BY <2>1, <1>41 DEF RaisedAnew
<1>10. /\ raised' \in Seq(RaisedDoc) /\ Len(raised') = Len(raised) + Len(extra)
       /\ Len(raised') \in Nat \ {0} /\ DOMAIN raised' = 1 .. Len(raised')
       /\ raised'[1] = d /\ \A o \in 2 .. Len(raised) : raised'[o] = raised[o]
       /\ \A o \in 1 .. Len(extra) : raised'[Len(raised) + o] = extra[o]
  <2>1. [raised EXCEPT ![1].lines = lines] = [raised EXCEPT ![1] = d]
    BY <1>1, <1>8 DEF ReviewInv, ReviewTypes
  <2>2. raised' = [raised EXCEPT ![1] = d] \o extra
    BY <2>1, <1>4, Zenon
  <2> QED
    BY <2>2, <1>8, <1>9, OrdersRaised
<1>11. Len(raised) \in Nat \ {0} /\ DOMAIN raised = 1 .. Len(raised) /\ prLines \in [PrLines -> PrLine]
  BY DEF ReviewInv, ReviewTypes
<1>12. ReadersOk' /\ reviewer' = [j \in Reviewers |-> reviewer'[j]]
  <2>1. reviewer'[k] = <<>>
    BY <1>4 DEF ReviewInv, ReviewTypes
  <2>2. ReaderOk(k)'
    BY <2>1 DEF ReaderOk, Reviewing
  <2> QED
    BY <2>2, <1>4, ReadersStay
<1>13. /\ prLines' \in [PrLines -> PrLine]
       /\ \A l \in appended : prLines'[l].processed /\ prLines'[l].order = 1
       /\ \A l \in fresh : prLines'[l].processed /\ prLines'[l].order = new
       /\ \A l \in PrLines \ (appended \cup fresh) : prLines'[l] = prLines[l]
  <2>0. prLines' = WrittenLines(appended, fresh, new)
    BY <1>4, <1>41
  <2>1. ASSUME NEW l \in PrLines, NEW n \in Nat, NEW e, e = OrderedOn(l, n)
        PROVE  e \in PrLine /\ e.processed /\ e.order = n
    BY <2>1, <1>11 DEF PrLine, OrderedOn
  <2>2. ASSUME NEW l \in appended
        PROVE  prLines'[l] \in PrLine /\ prLines'[l].processed /\ prLines'[l].order = 1
    <3>1. prLines'[l] = OrderedOn(l, 1) /\ l \in PrLines
      BY <1>2, <2>0 DEF WrittenLines
    <3> QED
      BY <3>1, <2>1
  <2>3. ASSUME NEW l \in fresh
        PROVE  prLines'[l] \in PrLine /\ prLines'[l].processed /\ prLines'[l].order = new
    <3>1. prLines'[l] = OrderedOn(l, new) /\ l \in PrLines
      BY <1>2, <2>0 DEF WrittenLines
    <3>2. new \in Nat
      BY <1>11, <1>41
    <3> QED
      BY <3>1, <3>2, <2>1
  <2>4. ASSUME NEW l \in PrLines \ (appended \cup fresh)
        PROVE  prLines'[l] \in PrLine /\ prLines'[l] = prLines[l]
    BY <2>0, <1>11 DEF WrittenLines
  <2>5. prLines' = [l \in PrLines |-> prLines'[l]]
    BY <2>0 DEF WrittenLines
  <2>6. ASSUME NEW l \in PrLines PROVE prLines'[l] \in PrLine
    BY <2>2, <2>3, <2>4
  <2> QED
    BY <2>2, <2>3, <2>4, <2>5, <2>6
<1>14. prClosed' \in {"no", "order", "hand"} /\ (prClosed' = "order" <=> \A l \in PrLines : prLines'[l].processed)
  BY <1>4
<1>15. ASSUME reviewMarks' = {} PROVE LinesStand'
  <2>1. /\ LinesStand
        /\ appended # {} => r.lines = known
        /\ \A l \in appended \cup fresh : ~prLines[l].processed
    BY <1>44, <1>15 DEF ReviewInv
  <2>2. appended # {} => lines = r.lines \o SetToSeq(appended)
    BY <2>1, <1>45, Zenon DEF AfterAppending
  <2>3. appended = {} => lines = r.lines
    BY <1>4, <1>41 DEF AfterAppending
  <2>4. ASSUME NEW l \in PrLines
        PROVE  Cardinality(Places(lines, l)) = Cardinality(Places(r.lines, l)) + (IF l \in appended THEN 1 ELSE 0)
    <3>0. Cardinality(Places(r.lines, l)) \in Nat
      BY <1>3, PlacesFinite
    <3>1. CASE appended = {}
      BY <2>3, <3>1, <3>0
    <3>2. CASE appended # {}
      <4>1. Cardinality(Places(r.lines \o SetToSeq(appended), l))
               = Cardinality(Places(r.lines, l)) + Cardinality(Places(SetToSeq(appended), l))
        BY <1>3, <1>6, PlacesAdd
      <4> QED
        BY <2>2, <3>2, <4>1, <1>5
    <3> QED
      BY <3>1, <3>2
  <2>5. ASSUME NEW l \in PrLines PROVE LineStands(l)'
    <3>1. LineStands(l)
      BY <2>1, Zenon DEF LinesStand
    <3>2. prLines'[l].processed => prLines'[l].order \in DOMAIN raised'
      <4>0. DOMAIN raised \subseteq DOMAIN raised' /\ 1 \in DOMAIN raised' /\ Len(raised) \in Nat
        <5>1. Len(extra) \in Nat
          BY <1>9
        <5>2. Len(raised') = Len(raised) + Len(extra) /\ DOMAIN raised' = 1 .. Len(raised')
          BY <1>10
        <5> QED
          BY <5>1, <5>2, <1>11
      <4>1. CASE l \in appended
        BY <4>1, <4>0, <1>13
      <4>2. CASE l \in fresh
        BY <4>2, <4>0, <1>9, <1>10, <1>13, <1>41
      <4>3. CASE l \in PrLines \ (appended \cup fresh)
        BY <4>3, <4>0, <3>1, <1>13 DEF LineStands
      <4> QED
        BY <4>1, <4>2, <4>3
    <3>3. Cardinality(Places(d.lines, l)) = IF prLines'[l].processed /\ prLines'[l].order = 1 THEN 1 ELSE 0
      <4>0. Cardinality(Places(r.lines, l)) = IF prLines[l].processed /\ prLines[l].order = 1 THEN 1 ELSE 0
        BY <3>1, <1>1, <1>11 DEF LineStands
      <4>1. CASE l \in appended
        BY <4>0, <4>1, <2>1, <2>4, <1>8, <1>13
      <4>2. CASE l \in fresh
        <5>1. l \notin appended /\ new # 1
          BY <4>2, <1>2, <1>11, <1>41
        <5> QED
          BY <4>0, <4>2, <5>1, <2>1, <2>4, <1>8, <1>13
      <4>3. CASE l \in PrLines \ (appended \cup fresh)
        BY <4>0, <4>3, <2>4, <1>8, <1>13
      <4> QED
        BY <4>1, <4>2, <4>3
    <3>4. ASSUME NEW o \in 2 .. Len(raised)
          PROVE  Cardinality(Places(raised'[o].lines, l)) = IF prLines'[l].processed /\ prLines'[l].order = o THEN 1 ELSE 0
      <4>0. Cardinality(Places(raised[o].lines, l)) = IF prLines[l].processed /\ prLines[l].order = o THEN 1 ELSE 0
        BY <3>1, <3>4, <1>11 DEF LineStands
      <4>1. CASE l \in appended \cup fresh
        <5>1. o # 1 /\ o # new /\ prLines'[l].order \in {1, new} /\ ~prLines[l].processed
          BY <3>4, <4>1, <2>1, <1>11, <1>13, <1>41
        <5> QED
          BY <4>0, <5>1, <1>10
      <4>3. CASE l \in PrLines \ (appended \cup fresh)
        BY <4>0, <4>3, <1>10, <1>13
      <4> QED
        BY <4>1, <4>3
    <3>5. ASSUME fresh # {}
          PROVE  Cardinality(Places(raised'[new].lines, l)) = IF prLines'[l].processed /\ prLines'[l].order = new THEN 1 ELSE 0
      <4>0. raised'[new].lines = SetToSeq(fresh)
        <5>1. 1 \in 1 .. Len(extra)
          BY <3>5, <1>9
        <5> QED
          BY <5>1, <3>5, <1>9, <1>10, <1>41
      <4>1. CASE l \in fresh
        BY <4>0, <4>1, <1>5, <1>13
      <4>2. CASE l \in appended
        <5>1. l \notin fresh /\ new # 1
          BY <4>2, <1>2, <1>11, <1>41
        <5> QED
          BY <4>0, <4>2, <5>1, <1>5, <1>13
      <4>3. CASE l \in PrLines \ (appended \cup fresh)
        <5>1. prLines[l].processed => prLines[l].order # new
          BY <3>1, <1>11, <1>41 DEF LineStands
        <5> QED
          BY <4>0, <4>3, <5>1, <1>5, <1>13
      <4> QED
        BY <4>1, <4>2, <4>3
    <3>6. ASSUME NEW o \in DOMAIN raised'
          PROVE  o = 1 \/ o \in 2 .. Len(raised) \/ (fresh # {} /\ o = new)
      <4>1. o \in 1 .. Len(raised) + Len(extra)
        BY <3>6, <1>10
      <4>2. CASE fresh = {}
        BY <4>1, <4>2, <1>9, <1>11
      <4>3. CASE fresh # {}
        <5>1. Len(extra) = 1
          BY <4>3, <1>9
        <5> QED
          BY <4>1, <4>3, <5>1, <1>11, <1>41
      <4> QED
        BY <4>2, <4>3
    <3>7. raised'[1].lines = d.lines
      BY <1>10
    <3>8. ASSUME NEW o \in DOMAIN raised'
          PROVE  Cardinality(Places(raised'[o].lines, l)) = IF prLines'[l].processed /\ prLines'[l].order = o THEN 1 ELSE 0
      BY <3>3, <3>4, <3>5, <3>6, <3>7
    <3> QED
      BY <3>2, <3>8 DEF LineStands
  <2> QED
    BY <2>5, <1>14 DEF LinesStand
<1> QED
  BY <1>10, <1>12, <1>13, <1>14, <1>15 DEF ReviewInv, ReviewTypes

\* Every step of the review keeps its invariant.
LEMMA ReviewStepInv == ReviewInv /\ [ReviewNext]_reviewVars => ReviewInv'
<1> SUFFICES ASSUME ReviewInv, [ReviewNext]_reviewVars PROVE ReviewInv'
  OBVIOUS
<1>1. CASE UNCHANGED reviewVars
  <2>1. UNCHANGED <<prLines, prClosed, raised, reviewMarks>> /\ UNCHANGED reviewer
    BY <1>1 DEF reviewVars
  <2>2. ReadersOk' /\ reviewer' = [j \in Reviewers |-> reviewer'[j]]
    BY <2>1 DEF ReviewInv, ReviewTypes, ReadersOk, ReaderOk, Reviewing
  <2> QED
    BY <2>1, <2>2, RestOfReview
<1>2. CASE ReviewNext
  <2>1. CASE MoveOrder
    BY <2>1, MoveOrderStep
  <2>2. ASSUME NEW k \in Reviewers, NEW l \in PrLines, NEW decision \in Decisions, AskDecision(k, l, decision)
        PROVE  ReviewInv'
    BY <2>2, AskDecisionStep
  <2>3. ASSUME NEW k \in Reviewers,
               SetLineDecision(k) \/ ReadReview(k) \/ ReadTarget(k) \/ RefuseTarget(k)
                  \/ ExecuteReview(k) \/ AskClose(k) \/ ClosePr(k)
        PROVE  ReviewInv'
    BY <2>3, SetLineDecisionStep, ReadReviewStep, ReadTargetStep, RefuseTargetStep,
       ExecuteReviewStep, AskCloseStep, ClosePrStep
  <2> QED
    BY <1>2, <2>1, <2>2, <2>3, Zenon DEF ReviewNext, Decisions
<1> QED
  BY <1>1, <1>2

\* The invariant is at least the property.
LEMMA ReviewIsSound == ReviewInv => ReviewSound
<1> SUFFICES ASSUME ReviewInv, reviewMarks = {}
             PROVE  /\ \A l \in PrLines, o \in DOMAIN raised :
                          OnOrder(o, l) = IF prLines[l].processed /\ prLines[l].order = o THEN 1 ELSE 0
                    /\ prClosed = "order" <=> \A l \in PrLines : prLines[l].processed
  BY DEF ReviewSound
<1>1. LinesStand
  BY DEF ReviewInv
<1>2. \A l \in PrLines, o \in DOMAIN raised : OnOrder(o, l) = Cardinality(Places(raised[o].lines, l))
  BY DEF OnOrder, Places
<1> QED
  BY <1>1, <1>2 DEF LinesStand, LineStands

-----------------------------------------------------------------------------
(* Stock.  First what costing computes, said of any numbers.                *)

\* Rounding a unit cost loses at most half a unit for each piece.
LEMMA QuotientBetween ==
    ASSUME NEW x \in Int, NEW y \in Nat \ {0}
    PROVE  /\ x \div y \in Int
           /\ y * (x \div y) <= x /\ x < y * (x \div y) + y
OBVIOUS

LEMMA RoundedCost ==
    ASSUME NEW n \in Int, NEW d \in Nat \ {0}
    PROVE  /\ RoundCost(n, d) \in Int /\ d * RoundCost(n, d) \in Int
           /\ 2 * (d * RoundCost(n, d)) <= 2 * n + d /\ 2 * n - d <= 2 * (d * RoundCost(n, d))
<1> DEFINE x == 2 * n + d
           y == 2 * d
           c == x \div y
<1>1. x \in Int /\ y \in Nat \ {0}
  OBVIOUS
<1>2. c \in Int /\ y * c <= x /\ x < y * c + y
  <2> HIDE DEF x, y
  <2> QED
    BY <1>1, QuotientBetween
<1>3. RoundCost(n, d) = c
  BY DEF RoundCost
<1> HIDE DEF c
<1>4. y * c = 2 * (d * c) /\ d * c \in Int
  BY <1>2
<1>5. PICK p \in Int : p = d * c
  BY <1>4
<1>6. 2 * p <= x /\ x < 2 * p + y
  BY <1>2, <1>4, <1>5
<1>7. 2 * p <= 2 * n + d /\ 2 * n - d <= 2 * p
  BY <1>6
<1> QED
  BY <1>2, <1>3, <1>5, <1>7

\* A quantity q taken from the quantities o of D, one after the other: B[i] come before i.
InTurn(D, B) == B = [i \in D |-> {j \in D : j < i}] \/ B = [i \in D |-> {j \in D : j > i}]
TakenInTurn(D, B, o, q, t) ==
    \A i \in D : t[i] = Min2(o[i], Max2(q - SumOver(o, B[i]), 0))

LEMMA TakenInTurnAddUp ==
    ASSUME NEW D, IsFiniteSet(D), D \subseteq Nat, NEW B, InTurn(D, B), NEW o, \A i \in D : o[i] \in Nat,
           NEW q \in Nat, NEW t, TakenInTurn(D, B, o, q, t)
    PROVE  /\ \A i \in D : t[i] \in Nat /\ t[i] <= o[i]
           /\ SumOver(t, D) = Min2(q, SumOver(o, D))
<1>1. \A T \in SUBSET D : IsFiniteSet(T) /\ SumOver(o, T) \in Int /\ SumOver(o, T) >= 0
  <2> SUFFICES ASSUME NEW T \in SUBSET D PROVE IsFiniteSet(T) /\ SumOver(o, T) \in Int /\ SumOver(o, T) >= 0
    OBVIOUS
  <2>1. IsFiniteSet(T)
    BY FS_Subset
  <2>2. \A i \in T : o[i] \in Int /\ o[i] >= 0
    <3>1. \A i \in T : o[i] \in Nat
      OBVIOUS
    <3> QED
      BY <3>1
  <2> QED
    BY <2>1, <2>2, SumNotNegative
<1>2. \A i \in D : B[i] \in SUBSET D
  BY DEF InTurn
<1>3. \A i \in D : t[i] \in Nat /\ t[i] <= o[i]
  <2> SUFFICES ASSUME NEW i \in D PROVE t[i] \in Nat /\ t[i] <= o[i]
    OBVIOUS
  <2>1. SumOver(o, B[i]) \in Int /\ o[i] \in Nat
    BY <1>1, <1>2
  <2>2. t[i] = Min2(o[i], Max2(q - SumOver(o, B[i]), 0))
    BY DEF TakenInTurn
  <2> QED
    BY <2>1, <2>2 DEF Min2, Max2
<1> DEFINE Whole(T) == \A i \in T : B[i] \subseteq T
           I == {T \in SUBSET D : Whole(T) => SumOver(t, T) = Min2(q, SumOver(o, T))}
<1>4. ASSUME NEW T \in SUBSET D, \A U \in SUBSET T : U # T => U \in I
      PROVE  T \in I
  <2> SUFFICES ASSUME Whole(T) PROVE SumOver(t, T) = Min2(q, SumOver(o, T))
    OBVIOUS
  <2>1. CASE T = {}
    BY <2>1, SumOfNothing DEF Min2
  <2>2. CASE T # {}
    <3>1. IsFiniteSet(T) /\ T \subseteq Nat
      BY <1>1
    <3>2. PICK m \in T : B[m] = T \ {m} /\ \A i \in T \ {m} : m \notin B[i]
      <4>1. CASE B = [i \in D |-> {j \in D : j < i}]
        <5>1. PICK m \in T : \A y \in T : y <= m
          BY <2>2, <3>1, HasGreatest
        <5>2. \A i \in T : B[i] = {j \in D : j < i}
          BY <4>1
        <5>3. B[m] \subseteq T \ {m} /\ T \ {m} \subseteq B[m]
          BY <3>1, <5>1, <5>2
        <5>4. \A i \in T \ {m} : m \notin B[i]
          BY <3>1, <5>1, <5>2
        <5> QED
          BY <5>3, <5>4
      <4>2. CASE B = [i \in D |-> {j \in D : j > i}]
        <5>1. PICK m \in T : \A y \in T : m <= y
          BY <2>2, <3>1, HasLeast
        <5>2. \A i \in T : B[i] = {j \in D : j > i}
          BY <4>2
        <5>3. B[m] \subseteq T \ {m} /\ T \ {m} \subseteq B[m]
          BY <3>1, <5>1, <5>2
        <5>4. \A i \in T \ {m} : m \notin B[i]
          BY <3>1, <5>1, <5>2
        <5> QED
          BY <5>3, <5>4
      <4> QED
        BY <4>1, <4>2 DEF InTurn
    <3> DEFINE U == T \ {m}
    <3>3. U \in SUBSET T /\ U # T /\ U \in SUBSET D /\ m \notin U /\ U \cup {m} = T /\ m \in D
      BY <3>2
    <3>4. Whole(U)
      BY <3>2
    <3>5. SumOver(t, U) = Min2(q, SumOver(o, U))
      BY <1>4, <3>3, <3>4
    <3>6. t[m] = Min2(o[m], Max2(q - SumOver(o, U), 0))
      BY <3>2, <3>3 DEF TakenInTurn
    <3> HIDE DEF U
    <3>7. /\ SumOver(t, U \cup {m}) = SumOver(t, U) + t[m]
          /\ SumOver(o, U \cup {m}) = SumOver(o, U) + o[m]
      <4>1. /\ IsFiniteSet(U)
            /\ \A i \in U \cup {m} : t[i] \in Int /\ o[i] \in Int
        BY <1>1, <1>3, <3>3
      <4> QED
        BY <3>3, <4>1, SumWith
    <3>8. SumOver(o, U) \in Int /\ SumOver(o, U) >= 0 /\ o[m] \in Nat
      BY <1>1, <3>3
    <3>9. SumOver(t, T) = SumOver(t, U) + t[m] /\ SumOver(o, T) = SumOver(o, U) + o[m]
      BY <3>3, <3>7
    <3> QED
      BY <3>5, <3>6, <3>8, <3>9 DEF Min2, Max2
  <2> QED
    BY <2>1, <2>2
<1>5. D \in I
  <2> HIDE DEF I
  <2> QED
    BY <1>4, SubsetInduction
<1>6. Whole(D)
  BY <1>2
<1> QED
  BY <1>3, <1>5, <1>6

-----------------------------------------------------------------------------
(* Lots L, and what is taken of them.                                       *)

Lot == [left : Int, cost : Int]
LeftsOf(L) == [i \in DOMAIN L |-> L[i].left]
OpensOf(L) == [i \in DOMAIN L |-> Max2(L[i].left, 0)]
ValuesOf(L) == [i \in DOMAIN L |-> Max2(L[i].left, 0) * L[i].cost]
TakenValues(L, take) == [i \in DOMAIN L |-> take[i] * L[i].cost]

LEMMA LotsFinite ==
    ASSUME NEW L \in Seq(Lot)
    PROVE  /\ IsFiniteSet(DOMAIN L) /\ DOMAIN L = 1 .. Len(L) /\ Len(L) \in Nat /\ DOMAIN L \subseteq Nat
           /\ \A i \in DOMAIN L :
                 /\ L[i] \in Lot /\ L[i].left \in Int /\ L[i].cost \in Int
                 /\ LeftsOf(L)[i] = L[i].left /\ OpensOf(L)[i] = Max2(L[i].left, 0)
                 /\ OpensOf(L)[i] \in Nat /\ L[i].left <= OpensOf(L)[i]
                 /\ ValuesOf(L)[i] = Max2(L[i].left, 0) * L[i].cost /\ ValuesOf(L)[i] \in Int
<1>1. DOMAIN L = 1 .. Len(L) /\ Len(L) \in Nat /\ Len(L) \in Int /\ 1 \in Int
  OBVIOUS
<1>2. IsFiniteSet(DOMAIN L)
  <2>1. IsFiniteSet(1 .. Len(L))
    BY <1>1, FS_Interval, Zenon
  <2> QED
    BY <1>1, <2>1
<1>3. \A i \in DOMAIN L : L[i] \in Lot
  OBVIOUS
<1>4. \A i \in DOMAIN L : L[i].left \in Int /\ L[i].cost \in Int
  BY <1>3 DEF Lot
<1>5. ASSUME NEW i \in DOMAIN L
      PROVE  /\ LeftsOf(L)[i] = L[i].left /\ OpensOf(L)[i] = Max2(L[i].left, 0)
             /\ OpensOf(L)[i] \in Nat /\ L[i].left <= OpensOf(L)[i]
             /\ ValuesOf(L)[i] = Max2(L[i].left, 0) * L[i].cost /\ ValuesOf(L)[i] \in Int
  <2>1. PICK l, c \in Int : l = L[i].left /\ c = L[i].cost /\ l \in Int
    BY <1>4, <1>5
  <2>2. Max2(l, 0) \in Nat /\ l <= Max2(l, 0)
    BY <2>1 DEF Max2
  <2>3. Max2(l, 0) * c \in Int
    BY <2>1, <2>2
  <2>4. LeftsOf(L)[i] = L[i].left /\ OpensOf(L)[i] = Max2(L[i].left, 0)
        /\ ValuesOf(L)[i] = Max2(L[i].left, 0) * L[i].cost
    BY <1>5 DEF LeftsOf, OpensOf, ValuesOf
  <2> QED
    BY <2>1, <2>2, <2>3, <2>4
<1>6. DOMAIN L \subseteq Nat
  BY <1>1
<1> QED
  BY <1>1, <1>2, <1>3, <1>4, <1>5, <1>6

\* What lots add up to.
LEMMA LotSums ==
    ASSUME NEW L \in Seq(Lot)
    PROVE  /\ SumFunction(LeftsOf(L)) = SumOver(LeftsOf(L), DOMAIN L) /\ SumOver(LeftsOf(L), DOMAIN L) \in Int
           /\ SumFunction(OpensOf(L)) = SumOver(OpensOf(L), DOMAIN L) /\ SumOver(OpensOf(L), DOMAIN L) \in Int
           /\ SumOver(OpensOf(L), DOMAIN L) >= 0
           /\ SumFunction(ValuesOf(L)) = SumOver(ValuesOf(L), DOMAIN L) /\ SumOver(ValuesOf(L), DOMAIN L) \in Int
<1>1. DOMAIN LeftsOf(L) = DOMAIN L /\ DOMAIN OpensOf(L) = DOMAIN L /\ DOMAIN ValuesOf(L) = DOMAIN L
  BY DEF LeftsOf, OpensOf, ValuesOf
<1>2. IsFiniteSet(DOMAIN L)
  BY LotsFinite
<1>3. \A i \in DOMAIN L : LeftsOf(L)[i] \in Int /\ OpensOf(L)[i] \in Int /\ OpensOf(L)[i] >= 0 /\ ValuesOf(L)[i] \in Int
  <2> SUFFICES ASSUME NEW i \in DOMAIN L
               PROVE  LeftsOf(L)[i] \in Int /\ OpensOf(L)[i] \in Int /\ OpensOf(L)[i] >= 0 /\ ValuesOf(L)[i] \in Int
    OBVIOUS
  <2>1. LeftsOf(L)[i] \in Int /\ OpensOf(L)[i] \in Nat /\ ValuesOf(L)[i] \in Int
    BY LotsFinite
  <2> QED
    BY <2>1
<1>4. SumOver(LeftsOf(L), DOMAIN L) \in Int /\ SumOver(ValuesOf(L), DOMAIN L) \in Int
  BY <1>2, <1>3, SumIsInt
<1>5. SumOver(OpensOf(L), DOMAIN L) \in Int /\ SumOver(OpensOf(L), DOMAIN L) >= 0
  BY <1>2, <1>3, SumNotNegative
<1> QED
  BY <1>1, <1>4, <1>5, SumOfFunction

\* What costing and planning may decide of quantity q, as far as what follows needs it.
Takes(L, take) ==
    /\ take = [i \in DOMAIN L |-> take[i]]
    /\ \A i \in DOMAIN L : take[i] \in Nat /\ take[i] <= Max2(L[i].left, 0)
Near(a, b, q) == 2 * a <= 2 * b + q /\ 2 * b - q <= 2 * a
CostSound(c, L, q) ==
    /\ c.cost \in Int /\ Takes(L, c.take)
    /\ method # "Standard" => SumOver(c.take, DOMAIN L) = q
    /\ method \notin {"Average", "Standard"} =>
          Near(q * c.cost, SumOver(TakenValues(L, c.take), DOMAIN L), q)

LEMMA TakenValuesAreInt ==
    ASSUME NEW L \in Seq(Lot), NEW take, Takes(L, take)
    PROVE  /\ SumOver(TakenValues(L, take), DOMAIN L) \in Int
           /\ DOMAIN TakenValues(L, take) = DOMAIN L
           /\ \A i \in DOMAIN L : /\ TakenValues(L, take)[i] = take[i] * L[i].cost
                                  /\ TakenValues(L, take)[i] \in Int
<1>1. \A i \in DOMAIN L : TakenValues(L, take)[i] = take[i] * L[i].cost
  BY DEF TakenValues
<1>2. ASSUME NEW i \in DOMAIN L PROVE TakenValues(L, take)[i] \in Int
  <2>1. take[i] \in Nat /\ L[i].cost \in Int
    BY LotsFinite DEF Takes
  <2>2. take[i] * L[i].cost \in Int
    BY <2>1
  <2> QED
    BY <1>1, <2>2
<1>3. IsFiniteSet(DOMAIN L)
  BY LotsFinite
<1>4. SumOver(TakenValues(L, take), DOMAIN L) \in Int
  BY <1>2, <1>3, SumIsInt
<1>5. DOMAIN TakenValues(L, take) = DOMAIN L
  BY DEF TakenValues
<1> QED
  BY <1>1, <1>2, <1>4, <1>5

\* One lot named: it is taken alone.
LEMMA OneTaken ==
    ASSUME NEW L \in Seq(Lot), NEW n \in DOMAIN L, NEW q \in Nat, q <= L[n].left,
           NEW take, take = [i \in DOMAIN L |-> IF i = n THEN q ELSE 0]
    PROVE  /\ Takes(L, take) /\ SumOver(take, DOMAIN L) = q
           /\ SumOver(TakenValues(L, take), DOMAIN L) = q * L[n].cost
<1>1. IsFiniteSet(DOMAIN L) /\ L[n].cost \in Int
  BY LotsFinite
<1>2. ASSUME NEW i \in DOMAIN L PROVE take[i] \in Nat /\ take[i] <= Max2(L[i].left, 0)
  <2>1. L[i].left \in Int /\ take[i] = IF i = n THEN q ELSE 0
    BY LotsFinite
  <2> QED
    BY <2>1 DEF Max2
<1>3. Takes(L, take)
  BY <1>2 DEF Takes
<1>4. take[n] = q /\ (\A i \in DOMAIN L : take[i] \in Int) /\ (\A i \in DOMAIN L \ {n} : take[i] = 0)
  OBVIOUS
<1> DEFINE v == TakenValues(L, take)
<1>5. \A i \in DOMAIN L : v[i] = take[i] * L[i].cost /\ v[i] \in Int
  BY <1>3, TakenValuesAreInt
<1>6. v[n] = q * L[n].cost /\ v[n] \in Int
  BY <1>4, <1>5
<1>7. ASSUME NEW i \in DOMAIN L \ {n} PROVE v[i] = 0
  <2>1. v[i] = 0 * L[i].cost /\ L[i].cost \in Int
    BY <1>4, <1>5, LotsFinite
  <2> QED
    BY <2>1
<1> HIDE DEF v
<1>8. SumOver(take, DOMAIN L) = SumOver(take, {n}) /\ SumOver(v, DOMAIN L) = SumOver(v, {n})
  BY <1>1, <1>4, <1>5, <1>7, SumOfPart
<1>9. SumOver(take, {n}) = q /\ SumOver(v, {n}) = q * L[n].cost
  BY <1>4, <1>6, SumOfOne
<1> QED
  BY <1>3, <1>8, <1>9 DEF v

\* None taken.
LEMMA NoneTaken ==
    ASSUME NEW L \in Seq(Lot), NEW take, take = [i \in DOMAIN L |-> 0]
    PROVE  /\ Takes(L, take) /\ SumOver(take, DOMAIN L) = 0
           /\ SumOver(TakenValues(L, take), DOMAIN L) = 0
<1>1. IsFiniteSet(DOMAIN L)
  BY LotsFinite
<1>2. ASSUME NEW i \in DOMAIN L PROVE take[i] \in Nat /\ take[i] <= Max2(L[i].left, 0)
  <2>1. L[i].left \in Int /\ take[i] = 0
    BY LotsFinite
  <2> QED
    BY <2>1 DEF Max2
<1>3. Takes(L, take)
  BY <1>2 DEF Takes
<1> DEFINE v == TakenValues(L, take)
<1>4. \A i \in DOMAIN L : v[i] = 0
  <2> SUFFICES ASSUME NEW i \in DOMAIN L PROVE v[i] = 0
    OBVIOUS
  <2>1. v[i] = 0 * L[i].cost /\ L[i].cost \in Int
    BY <1>3, TakenValuesAreInt, LotsFinite
  <2> QED
    BY <2>1
<1>5. \A i \in DOMAIN L : take[i] = 0
  OBVIOUS
<1> HIDE DEF v
<1>6. SumOver(take, DOMAIN L) = 0 /\ SumOver(v, DOMAIN L) = 0
  BY <1>1, <1>4, <1>5, SumOfZeros
<1> QED
  BY <1>3, <1>6 DEF v

\* The oldest or the newest first: together the quantity asked, of what is open.
LEMMA LotsTaken ==
    ASSUME lots \in Seq(Lot), NEW q \in Nat, q <= OnHand
    PROVE  Takes(lots, Taken(q)) /\ SumOver(Taken(q), DOMAIN lots) = q
<1>1. PICK L \in Seq(Lot) : L = lots
  OBVIOUS
<1> DEFINE D == DOMAIN L
           o == OpensOf(L)
           B == [i \in D |-> {j \in D : IF method = "LIFO" THEN j > i ELSE j < i}]
           t == Taken(q)
<1>2. IsFiniteSet(D) /\ D \subseteq Nat /\ \A i \in D : o[i] \in Nat /\ o[i] = Max2(L[i].left, 0)
  BY LotsFinite
<1>3. InTurn(D, B)
  <2>1. CASE method = "LIFO"
    <3>1. B = [i \in D |-> {j \in D : j > i}]
      BY <2>1
    <3> QED
      BY <3>1 DEF InTurn
  <2>2. CASE method # "LIFO"
    <3>1. B = [i \in D |-> {j \in D : j < i}]
      BY <2>2
    <3> QED
      BY <3>1 DEF InTurn
  <2> QED
    BY <2>1, <2>2
<1>4. ASSUME NEW i \in D PROVE t[i] = Min2(o[i], Max2(q - SumOver(o, B[i]), 0))
  <2> DEFINE f == [j \in B[i] |-> OpenQty(j)]
  <2>1. t[i] = Min2(OpenQty(i), Max2(q - SumFunction(f), 0))
    BY <1>1, <1>4 DEF Taken
  <2>2. B[i] \subseteq D /\ IsFiniteSet(B[i])
    <3>1. B[i] \subseteq D
      BY <1>4
    <3> QED
      BY <1>2, <3>1, FS_Subset
  <2>3. DOMAIN f = B[i] /\ \A j \in B[i] : f[j] = o[j] /\ f[j] \in Int
    <3>1. \A j \in D : OpenQty(j) = o[j] /\ o[j] \in Int
      BY <1>1, <1>2 DEF OpenQty
    <3> QED
      BY <2>2, <3>1
  <2>4. OpenQty(i) = o[i]
    BY <1>1, <1>2, <1>4 DEF OpenQty
  <2> HIDE DEF f, o, B, t
  <2>5. SumFunction(f) = SumOver(f, B[i])
    BY <2>3, SumOfFunction
  <2>6. SumOver(f, B[i]) = SumOver(o, B[i])
    BY <2>2, <2>3, SumSame
  <2> QED
    BY <2>1, <2>4, <2>5, <2>6
<1>5. TakenInTurn(D, B, o, q, t)
  BY <1>4, Zenon DEF TakenInTurn
<1>6. OnHand = SumOver(o, D) /\ SumOver(o, D) \in Int
  <2>1. OnHand = SumFunction(o)
    BY <1>1, Zenon DEF OnHand, OpenQty, OpensOf
  <2> QED
    BY <2>1, LotSums
<1>7. t = [i \in D |-> t[i]]
  BY <1>1 DEF Taken
<1>8. \A i \in D : o[i] = Max2(L[i].left, 0)
  BY <1>2
<1> HIDE DEF o, B, t
<1>9. /\ \A i \in D : t[i] \in Nat /\ t[i] <= o[i]
      /\ SumOver(t, D) = Min2(q, SumOver(o, D))
  <2> HIDE DEF D
  <2> QED
    BY <1>2, <1>3, <1>5, TakenInTurnAddUp
<1>10. SumOver(t, D) = q
  BY <1>6, <1>9 DEF Min2
<1>11. Takes(L, t)
  <2>1. \A i \in D : t[i] \in Nat /\ t[i] <= Max2(L[i].left, 0)
    <3> SUFFICES ASSUME NEW i \in D PROVE t[i] \in Nat /\ t[i] <= Max2(L[i].left, 0)
      OBVIOUS
    <3>1. t[i] \in Nat /\ t[i] <= o[i] /\ o[i] = Max2(L[i].left, 0)
      BY <1>8, <1>9
    <3> QED
      BY <3>1
  <2> QED
    BY <1>7, <2>1, Zenon DEF Takes
<1> QED
  BY <1>1, <1>10, <1>11 DEF t

\* Whatever costing decides is sound.
LEMMA CostIsSound ==
    ASSUME lots \in Seq(Lot), NEW kind, NEW q \in Nat \ {0}, NEW c \in CostOutbound(kind, q)
    PROVE  CostSound(c, lots, q)
<1>1. PICK L \in Seq(Lot) : L = lots
  OBVIOUS
<1>2. CASE method = "Standard"
  <2>1. PICK e \in Costs : c = [take |-> [i \in DOMAIN L |-> 0], cost |-> e]
    BY <1>1, <1>2 DEF CostOutbound
  <2>2. c.take = [i \in DOMAIN L |-> 0] /\ c.cost = e /\ e \in Int
    BY <2>1, StockAssumption
  <2>3. Takes(L, c.take)
    BY <2>2, NoneTaken
  <2> QED
    BY <1>1, <1>2, <2>2, <2>3 DEF CostSound
<1>3. CASE method = "Specific"
  <2>1. PICK n \in DOMAIN L : /\ L[n].left >= q
                              /\ c = [take |-> [i \in DOMAIN L |-> IF i = n THEN q ELSE 0], cost |-> L[n].cost]
    BY <1>1, <1>3 DEF CostOutbound
  <2>2. c.take = [i \in DOMAIN L |-> IF i = n THEN q ELSE 0] /\ c.cost = L[n].cost
    BY <2>1
  <2>3. q \in Nat /\ q <= L[n].left /\ L[n].cost \in Int
    BY <2>1, LotsFinite
  <2>4. /\ Takes(L, c.take) /\ SumOver(c.take, DOMAIN L) = q
        /\ SumOver(TakenValues(L, c.take), DOMAIN L) = q * c.cost
    BY <2>2, <2>3, OneTaken
  <2>5. Near(q * c.cost, q * c.cost, q)
    <3>1. PICK p \in Int : p = q * c.cost
      BY <2>2, <2>3
    <3> QED
      BY <3>1 DEF Near
  <2> QED
    BY <1>1, <1>3, <2>2, <2>3, <2>4, <2>5 DEF CostSound
<1>4. CASE method \notin {"Standard", "Specific"}
  <2> DEFINE f == [i \in DOMAIN lots |-> Taken(q)[i] * lots[i].cost]
             v == TakenValues(L, Taken(q))
  <2>1. /\ ~(OnHand < q)
        /\ c = [take |-> Taken(q),
                cost |-> IF method = "Average" THEN RoundCost(ValueLeft, OnHand)
                         ELSE RoundCost(SumFunction(f), q)]
    BY <1>4 DEF CostOutbound
  <2>2. OnHand \in Int /\ ValueLeft \in Int
    <3>1. OnHand = SumFunction(OpensOf(L)) /\ ValueLeft = SumFunction(ValuesOf(L))
      BY <1>1, Zenon DEF OnHand, ValueLeft, OpenQty, OpensOf, ValuesOf
    <3> QED
      BY <3>1, LotSums
  <2>3. q <= OnHand /\ OnHand \in Nat \ {0}
    BY <2>1, <2>2
  <2>4. Takes(L, Taken(q)) /\ SumOver(Taken(q), DOMAIN L) = q
    BY <1>1, <2>3, LotsTaken
  <2>5. v = f /\ SumOver(v, DOMAIN L) \in Int /\ DOMAIN v = DOMAIN L
    <3>1. v = f
      BY <1>1 DEF TakenValues
    <3>2. SumOver(v, DOMAIN L) \in Int /\ DOMAIN v = DOMAIN L
      BY <2>4, TakenValuesAreInt
    <3> QED
      BY <3>1, <3>2
  <2>6. c.take = Taken(q) /\ c.cost = IF method = "Average" THEN RoundCost(ValueLeft, OnHand)
                                      ELSE RoundCost(SumFunction(f), q)
    BY <2>1
  <2> HIDE DEF f, v
  <2>7. SumFunction(f) = SumOver(v, DOMAIN L)
    BY <2>5, SumOfFunction
  <2>8. c.cost \in Int
    BY <2>2, <2>3, <2>5, <2>6, <2>7, RoundedCost
  <2>9. ASSUME method # "Average" PROVE Near(q * c.cost, SumOver(v, DOMAIN L), q)
    <3>1. c.cost = RoundCost(SumOver(v, DOMAIN L), q)
      BY <2>6, <2>7, <2>9
    <3>2. /\ 2 * (q * c.cost) <= 2 * SumOver(v, DOMAIN L) + q
          /\ 2 * SumOver(v, DOMAIN L) - q <= 2 * (q * c.cost)
      BY <2>5, <3>1, RoundedCost
    <3> QED
      BY <3>2, Zenon DEF Near
  <2>10. Takes(L, c.take) /\ SumOver(c.take, DOMAIN L) = q
    BY <2>4, <2>6
  <2>11. TakenValues(L, c.take) = v
    BY <2>6 DEF v
  <2> QED
    BY <1>1, <2>8, <2>9, <2>10, <2>11, Zenon DEF CostSound
<1> QED
  BY <1>2, <1>3, <1>4

-----------------------------------------------------------------------------
(* The register.                                                            *)

StockTypes ==
    /\ lots \in Seq(Lot) /\ sku \in Int /\ ledger \in Int /\ gl \in Int
    /\ issued \in Int /\ qtyMoved \in Int
    /\ moves = [s \in Movers |-> moves[s]]

\* A move that is planned is of its kind's sign, takes the quantity it moves out of lots there
\* are, and writes back what it looked at.
IsMove(w) ==
    w = [kind |-> w.kind, q |-> w.q, delta |-> w.delta, value |-> w.value, take |-> w.take, cost |-> w.cost,
         overtaken |-> w.overtaken, looked |-> w.looked]
MoveSound(w, L) ==
    /\ IsMove(w)
    /\ w.kind \in MoveKinds /\ w.q \in Nat \ {0} /\ w.value \in Int /\ w.cost \in Int
    /\ w.delta = IF w.kind \in Outbound \cup {"purchaseReturn"} THEN -w.q ELSE w.q
    /\ w.overtaken \in BOOLEAN
    /\ DOMAIN w.take \subseteq DOMAIN L /\ \A i \in DOMAIN w.take : w.take[i] \in Nat
    /\ w.kind \notin Outbound => \A i \in DOMAIN w.take : w.take[i] = 0
    /\ w.kind \in Outbound /\ method # "Standard" => SumOver(w.take, DOMAIN w.take) = w.q
    /\ w.looked # <<>> =>
          /\ w.looked[1] \in Seq(Lot) /\ w.looked[2] \in Int
          /\ DOMAIN w.take \subseteq DOMAIN w.looked[1]

\* One that nothing overtook takes no more than there is, issues no more than is approved, and is
\* worth what it takes or adds, to half a unit for each piece.
MoveFresh(w, L, state) ==
    /\ Takes(L, w.take)
    /\ w.looked # <<>> => w.looked = state
    /\ w.kind = "issue" => w.q <= QtyApproved - state[3]
    /\ method \notin {"Average", "Standard"} =>
          /\ w.kind \in Outbound => Near(-w.value, SumOver(TakenValues(L, w.take), DOMAIN L), w.q)
          /\ w.kind \in {"purchase", "adjustIn"} => Near(w.value, w.q * w.cost, w.q)
MovesSound == \A s \in Movers : moves[s] # <<>> =>
    /\ moves[s] = <<moves[s][1]>> /\ MoveSound(moves[s][1], lots)
    /\ ~moves[s][1].overtaken => MoveFresh(moves[s][1], lots, StockState)

StockInv ==
    /\ StockTypes /\ MovesSound
    /\ "look" \notin stockMarks => sku = ledger
    /\ stockMarks \cap {"look", "return"} = {} /\ method # "Standard" =>
          SumOver(LeftsOf(lots), DOMAIN lots) = sku
    /\ "plan" \notin stockMarks =>
          issued <= QtyApproved /\ \A i \in DOMAIN lots : lots[i].left >= 0
    /\ stockMarks = {} /\ method \notin {"Average", "Standard"} =>
          Near(gl, SumOver(ValuesOf(lots), DOMAIN lots), qtyMoved)

\* A plan is sound and fresh when it is made.
LEMMA PlanIsSound ==
    ASSUME lots \in Seq(Lot), NEW kind \in MoveKinds, NEW q \in Nat \ {0}, NEW w \in PlanMove(kind, q)
    PROVE  MoveSound(w, lots) /\ MoveFresh(w, lots, StockState) /\ w.overtaken = FALSE
<1>1. PICK L \in Seq(Lot) : L = lots
  OBVIOUS
<1>2. StockState[3] = issued
  BY DEF StockState
<1>3. CASE kind \in Outbound
  <2>1. PICK c \in CostOutbound(kind, q) :
             /\ w = Move(kind, q, -q, -(q * c.cost), c.take, c.cost)
             /\ kind = "issue" => q <= QtyApproved - issued
    <3> DEFINE C == {d \in CostOutbound(kind, q) :
                        /\ kind \in Journalled => sku >= q
                        /\ kind = "issue" => q <= QtyApproved - issued}
               F(c) == Move(kind, q, -q, -(q * c.cost), c.take, c.cost)
    <3>1. PlanMove(kind, q) = {F(c) : c \in C}
      <4>1. kind # "saleReturn" /\ kind # "adjustIn" /\ kind # "purchase"
        BY <1>3 DEF Outbound
      <4> QED
        BY <1>3, <4>1 DEF PlanMove
    <3>2. \A c \in C : c \in CostOutbound(kind, q) /\ (kind = "issue" => q <= QtyApproved - issued)
      OBVIOUS
    <3> HIDE DEF C
    <3>3. PICK c \in C : w = F(c)
      BY <3>1
    <3> QED
      BY <3>2, <3>3
  <2>2. /\ c.cost \in Int /\ Takes(L, c.take)
        /\ method # "Standard" => SumOver(c.take, DOMAIN L) = q
        /\ method \notin {"Average", "Standard"} =>
              Near(q * c.cost, SumOver(TakenValues(L, c.take), DOMAIN L), q)
    BY <1>1, CostIsSound DEF CostSound
  <2>3. /\ w.kind = kind /\ w.q = q /\ w.delta = -q /\ w.value = -(q * c.cost) /\ w.take = c.take
        /\ w.cost = c.cost /\ w.overtaken = FALSE /\ w.looked = <<>> /\ IsMove(w)
    BY <2>1 DEF Move, IsMove
  <2>4. DOMAIN w.take = DOMAIN L /\ \A i \in DOMAIN L : w.take[i] \in Nat
    BY <2>2, <2>3 DEF Takes
  <2>5. PICK p \in Int : p = q * c.cost
    BY <2>2
  <2>6. w.value \in Int /\ -w.value = q * c.cost
    BY <2>3, <2>5
  <2>7. MoveSound(w, L)
    <3>1. w.kind \in Outbound \cup {"purchaseReturn"} /\ w.overtaken \in BOOLEAN
      BY <1>3, <2>3
    <3>2. w.kind \in Outbound /\ method # "Standard" => SumOver(w.take, DOMAIN w.take) = w.q
      BY <2>2, <2>3, <2>4
    <3> QED
      BY <1>3, <2>2, <2>3, <2>4, <2>6, <3>1, <3>2, Zenon DEF MoveSound
  <2>8. MoveFresh(w, L, StockState)
    <3>1. w.kind \notin {"purchase", "adjustIn"}
      BY <1>3, <2>3 DEF Outbound
    <3>2. w.kind = "issue" => w.q <= QtyApproved - StockState[3]
      BY <1>2, <2>1, <2>3
    <3> QED
      BY <2>2, <2>3, <2>6, <3>1, <3>2, Zenon DEF MoveFresh
  <2> QED
    BY <1>1, <2>3, <2>7, <2>8
<1>4. CASE kind \notin Outbound
  <2>1. PICK c \in Int, a \in Int, d \in Int :
             /\ w = Move(kind, q, d, a, NoTake, c)
             /\ d = IF kind = "purchaseReturn" THEN -q ELSE q
             /\ kind \in {"purchase", "adjustIn"} => Near(a, q * c, q)
    <3>1. CASE kind = "saleReturn"
      <4>1. PICK c \in CostOutbound(kind, q) : w = Move(kind, q, q, q * c.cost, NoTake, c.cost)
        BY <3>1 DEF PlanMove, Outbound
      <4>2. c.cost \in Int
        BY CostIsSound DEF CostSound
      <4>3. q * c.cost \in Int
        BY <4>2
      <4> QED
        BY <3>1, <4>1, <4>2, <4>3
    <3>2. CASE kind = "adjustIn"
      <4>1. PICK c \in Costs : w = Move(kind, q, q, q * c, NoTake, c)
        BY <3>2 DEF PlanMove, Outbound
      <4>2. c \in Int
        BY StockAssumption
      <4>3. PICK p \in Int : p = q * c
        BY <4>2
      <4>4. Near(p, p, q)
        BY DEF Near
      <4> QED
        BY <3>2, <4>1, <4>2, <4>3, <4>4
    <3>3. CASE kind = "purchase"
      <4>1. PICK a \in Costs : w = Move(kind, q, q, a, NoTake, RoundCost(a, q))
        BY <3>3 DEF PlanMove, Outbound
      <4>2. a \in Int
        BY StockAssumption
      <4>3. PICK c : c = RoundCost(a, q)
        OBVIOUS
      <4>4. c \in Int /\ q * c \in Int /\ 2 * (q * c) <= 2 * a + q /\ 2 * a - q <= 2 * (q * c)
        BY <4>2, <4>3, RoundedCost
      <4>5. PICK p \in Int : p = q * c
        BY <4>4
      <4>6. Near(a, p, q)
        BY <4>2, <4>4, <4>5 DEF Near
      <4> QED
        BY <3>3, <4>1, <4>2, <4>3, <4>4, <4>5, <4>6
    <3>4. CASE kind = "purchaseReturn"
      <4>1. PICK a \in Costs : w = Move(kind, q, -q, -a, NoTake, RoundCost(a, q))
        BY <3>4 DEF PlanMove, Outbound
      <4>2. a \in Int /\ -a \in Int /\ -q \in Int
        BY StockAssumption
      <4>3. RoundCost(a, q) \in Int
        BY <4>2, RoundedCost
      <4> QED
        BY <3>4, <4>1, <4>2, <4>3
    <3> QED
      BY <1>4, <3>1, <3>2, <3>3, <3>4 DEF MoveKinds
  <2>2. /\ w.kind = kind /\ w.q = q /\ w.delta = d /\ w.value = a /\ w.take = NoTake
        /\ w.cost = c /\ w.overtaken = FALSE /\ w.looked = <<>> /\ IsMove(w)
    BY <2>1 DEF Move, IsMove
  <2>3. NoTake = [i \in DOMAIN L |-> 0]
    BY <1>1 DEF NoTake
  <2>4. Takes(L, w.take) /\ DOMAIN w.take = DOMAIN L
        /\ \A i \in DOMAIN w.take : w.take[i] = 0 /\ w.take[i] \in Nat
    BY <2>2, <2>3, NoneTaken
  <2>5. MoveSound(w, L)
    <3>1. w.delta = IF w.kind \in Outbound \cup {"purchaseReturn"} THEN -w.q ELSE w.q
      BY <1>4, <2>1, <2>2
    <3> QED
      BY <1>4, <2>1, <2>2, <2>4, <3>1 DEF MoveSound
  <2>6. MoveFresh(w, L, StockState)
    <3>1. w.kind # "issue" /\ w.kind \notin Outbound
      BY <1>4, <2>2 DEF Outbound
    <3> QED
      BY <2>1, <2>2, <2>4, <3>1, Zenon DEF MoveFresh
  <2> QED
    BY <1>1, <2>2, <2>5, <2>6
<1> QED
  BY <1>3, <1>4

\* A step that posts nothing keeps all but what requests newly plan or look at.
LEMMA PlanningKeeps ==
    ASSUME StockInv, UNCHANGED <<lots, sku, ledger, gl, issued, qtyMoved, stockMarks, method>>,
           moves' = [s \in Movers |-> moves'[s]],
           \A s \in Movers : \/ moves'[s] = moves[s] \/ moves'[s] = <<>>
                             \/ \E w : /\ moves'[s] = <<w>> /\ MoveSound(w, lots)
                                       /\ ~w.overtaken => MoveFresh(w, lots, StockState)
    PROVE  StockInv'
<1>1. StockState' = StockState
  BY DEF StockState
<1>2. ASSUME NEW s \in Movers, moves'[s] # <<>>
      PROVE  /\ moves'[s] = <<moves'[s][1]>> /\ MoveSound(moves[s][1], lots)'
             /\ ~moves'[s][1].overtaken => MoveFresh(moves[s][1], lots, StockState)'
  <2>1. PICK w : /\ moves'[s] = <<w>> /\ MoveSound(w, lots)
                 /\ ~w.overtaken => MoveFresh(w, lots, StockState)
    <3>1. CASE moves'[s] = moves[s]
      <4>1. PICK w : w = moves[s][1]
        OBVIOUS
      <4>2. moves'[s] = <<w>> /\ MoveSound(w, lots) /\ (~w.overtaken => MoveFresh(w, lots, StockState))
        BY <1>2, <3>1, <4>1 DEF StockInv, MovesSound
      <4> QED
        BY <4>2
    <3>2. CASE moves'[s] # moves[s]
      BY <1>2, <3>2
    <3> QED
      BY <3>1, <3>2
  <2>2. MoveSound(w, lots)' /\ (~w.overtaken => MoveFresh(w, lots, StockState)')
    BY <1>1, <2>1 DEF MoveSound, MoveFresh
  <2>3. moves'[s][1] = w
    BY <2>1
  <2> QED
    BY <2>1, <2>2, <2>3
<1>3. MovesSound'
  BY <1>2 DEF MovesSound
<1>4. StockTypes'
  BY DEF StockInv, StockTypes
<1> QED
  BY <1>3, <1>4 DEF StockInv

\* Planning, looking again and giving up.
LEMMA BeginMoveKeeps ==
    ASSUME StockInv, NEW s \in Movers, NEW kind \in MoveKinds, NEW q \in Quantities, BeginMove(s, kind, q)
    PROVE  StockInv'
<1>1. /\ UNCHANGED <<lots, sku, ledger, gl, issued, qtyMoved, stockMarks, method>>
      /\ moves = [r \in Movers |-> moves[r]] /\ lots \in Seq(Lot)
  BY DEF BeginMove, StockInv, StockTypes
<1>2. PICK w \in PlanMove(kind, q) : moves' = [moves EXCEPT ![s] = <<w>>]
  BY DEF BeginMove
<1>3. q \in Nat \ {0}
  BY StockAssumption
<1>4. MoveSound(w, lots) /\ MoveFresh(w, lots, StockState)
  BY <1>1, <1>3, PlanIsSound
<1>5. moves' = [r \in Movers |-> moves'[r]] /\ moves'[s] = <<w>> /\ \A r \in Movers \ {s} : moves'[r] = moves[r]
  BY <1>1, <1>2
<1> QED
  BY <1>1, <1>4, <1>5, PlanningKeeps

LEMMA LookAgainKeeps ==
    ASSUME StockInv, NEW s \in Movers, LookAgain(s)
    PROVE  StockInv'
<1>1. /\ UNCHANGED <<lots, sku, ledger, gl, issued, qtyMoved, stockMarks, method>>
      /\ moves = [r \in Movers |-> moves[r]] /\ lots \in Seq(Lot) /\ sku \in Int
  BY DEF LookAgain, StockInv, StockTypes
<1>2. PICK w : w = moves[s][1]
  OBVIOUS
<1>3. PICK w1 : w1 = [w EXCEPT !.looked = StockState]
  OBVIOUS
<1>4. moves[s] # <<>> /\ moves' = [moves EXCEPT ![s] = <<w1>>]
  BY <1>2, <1>3 DEF LookAgain
<1>5. MoveSound(w, lots) /\ (~w.overtaken => MoveFresh(w, lots, StockState))
  BY <1>2, <1>4 DEF StockInv, MovesSound
<1>6. /\ w1.kind = w.kind /\ w1.q = w.q /\ w1.delta = w.delta /\ w1.value = w.value /\ w1.take = w.take
      /\ w1.cost = w.cost /\ w1.overtaken = w.overtaken /\ w1.looked = StockState /\ IsMove(w1)
  <2>1. IsMove(w)
    BY <1>5 DEF MoveSound
  <2> QED
    BY <1>3, <2>1 DEF IsMove
<1>7. StockState[1] = lots /\ StockState[2] = sku
  BY DEF StockState
<1>8. MoveSound(w1, lots)
  BY <1>1, <1>5, <1>6, <1>7 DEF MoveSound
<1>9. ~w1.overtaken => MoveFresh(w1, lots, StockState)
  BY <1>5, <1>6, Zenon DEF MoveFresh
<1>10. moves' = [r \in Movers |-> moves'[r]] /\ moves'[s] = <<w1>> /\ \A r \in Movers \ {s} : moves'[r] = moves[r]
  BY <1>1, <1>4
<1> QED
  BY <1>1, <1>8, <1>9, <1>10, PlanningKeeps

LEMMA AbandonMoveKeeps ==
    ASSUME StockInv, NEW s \in Movers, AbandonMove(s)
    PROVE  StockInv'
<1>1. /\ UNCHANGED <<lots, sku, ledger, gl, issued, qtyMoved, stockMarks, method>>
      /\ moves = [r \in Movers |-> moves[r]]
  BY DEF AbandonMove, StockInv, StockTypes
<1>2. moves' = [r \in Movers |-> moves'[r]] /\ moves'[s] = <<>> /\ \A r \in Movers \ {s} : moves'[r] = moves[r]
  BY <1>1 DEF AbandonMove
<1> QED
  BY <1>1, <1>2, PlanningKeeps

-----------------------------------------------------------------------------
(* What a posting writes: lots drawn on, and a lot of its own.              *)

DrawnFrom(L, P, take) ==
    [i \in DOMAIN L |->
        IF i \in DOMAIN take /\ take[i] > 0 THEN [L[i] EXCEPT !.left = P[i].left - take[i]] ELSE L[i]]

\* Lots drawn on remain lots, at their cost.
LEMMA DrawnLots ==
    ASSUME NEW L \in Seq(Lot), NEW P \in Seq(Lot), NEW take, DOMAIN take \subseteq DOMAIN P,
           \A i \in DOMAIN take : take[i] \in Nat
    PROVE  /\ DrawnFrom(L, P, take) \in Seq(Lot) /\ DOMAIN DrawnFrom(L, P, take) = DOMAIN L
           /\ \A i \in DOMAIN L :
                 /\ DrawnFrom(L, P, take)[i].cost = L[i].cost
                 /\ DrawnFrom(L, P, take)[i].left =
                       IF i \in DOMAIN take /\ take[i] > 0 THEN P[i].left - take[i] ELSE L[i].left
<1> DEFINE N == DrawnFrom(L, P, take)
<1>1. ASSUME NEW i \in DOMAIN L
      PROVE  /\ N[i] \in Lot /\ N[i].cost = L[i].cost
             /\ N[i].left = IF i \in DOMAIN take /\ take[i] > 0 THEN P[i].left - take[i] ELSE L[i].left
  <2>1. N[i] = IF i \in DOMAIN take /\ take[i] > 0 THEN [L[i] EXCEPT !.left = P[i].left - take[i]] ELSE L[i]
    BY DEF DrawnFrom
  <2>2. L[i] \in Lot
    BY LotsFinite
  <2>3. CASE i \in DOMAIN take /\ take[i] > 0
    <3>1. P[i].left - take[i] \in Int
      <4>1. P[i].left \in Int /\ take[i] \in Nat
        BY <2>3, LotsFinite
      <4> QED
        BY <4>1
    <3>2. PICK x \in Int : x = P[i].left - take[i]
      BY <3>1
    <3>3. N[i] = [L[i] EXCEPT !.left = x]
      BY <2>1, <2>3, <3>2
    <3> QED
      BY <2>2, <2>3, <3>2, <3>3 DEF Lot
  <2>4. CASE ~(i \in DOMAIN take /\ take[i] > 0)
    BY <2>1, <2>2, <2>4
  <2> QED
    BY <2>3, <2>4
<1>2. DOMAIN L = 1 .. Len(L) /\ Len(L) \in Nat
  BY LotsFinite
<1>3. N = [i \in 1 .. Len(L) |-> N[i]] /\ DOMAIN N = DOMAIN L
  BY <1>2 DEF DrawnFrom
<1> HIDE DEF N
<1>4. N \in Seq(Lot)
  BY <1>1, <1>2, <1>3
<1> QED
  BY <1>1, <1>3, <1>4 DEF N

\* Together they are less by what was taken.
LEMMA DrawnLeft ==
    ASSUME NEW L \in Seq(Lot), NEW take, DOMAIN take \subseteq DOMAIN L, \A i \in DOMAIN take : take[i] \in Nat
    PROVE  LET N == DrawnFrom(L, L, take)
           IN  SumOver(LeftsOf(N), DOMAIN N) = SumOver(LeftsOf(L), DOMAIN L) - SumOver(take, DOMAIN take)
<1> DEFINE D == DOMAIN L
           E == DOMAIN take
           t == [i \in D |-> IF i \in E THEN take[i] ELSE 0]
           f == LeftsOf(DrawnFrom(L, L, take))
           g == LeftsOf(L)
<1>1. IsFiniteSet(D) /\ E \in SUBSET D /\ IsFiniteSet(E)
  BY LotsFinite, FS_Subset
<1>2. ASSUME NEW i \in D PROVE f[i] \in Int /\ t[i] \in Int /\ g[i] = f[i] + t[i]
  <2>1. PICK N : N = DrawnFrom(L, L, take)
    OBVIOUS
  <2>2. /\ N \in Seq(Lot) /\ DOMAIN N = D
        /\ N[i].left = IF i \in E /\ take[i] > 0 THEN L[i].left - take[i] ELSE L[i].left
    BY <2>1, DrawnLots
  <2>3. f[i] = N[i].left /\ f[i] \in Int /\ g[i] = L[i].left /\ g[i] \in Int
    BY <2>1, <2>2, LotsFinite
  <2>4. t[i] = (IF i \in E THEN take[i] ELSE 0) /\ (i \in E => take[i] \in Nat)
    OBVIOUS
  <2> HIDE DEF f, g, t
  <2> QED
    BY <2>2, <2>3, <2>4
<1>3. (\A i \in D \ E : t[i] = 0) /\ (\A i \in E : t[i] = take[i] /\ t[i] \in Int)
  BY <1>1
<1>4. DOMAIN DrawnFrom(L, L, take) = D
  BY DrawnLots
<1> HIDE DEF D, E, t, f, g
<1>5. SumOver(g, D) = SumOver(f, D) + SumOver(t, D)
  BY <1>1, <1>2, SumOfSums
<1>6. SumOver(t, D) = SumOver(t, E)
  <2>1. \A i \in D : t[i] \in Int
    BY <1>2
  <2> QED
    BY <1>1, <1>3, <2>1, SumOfPart
<1>7. SumOver(t, E) = SumOver(take, E)
  BY <1>1, <1>3, SumSame
<1>8. SumOver(f, D) \in Int /\ SumOver(t, D) \in Int
  BY <1>1, <1>2, SumIsInt
<1>9. SumOver(f, D) = SumOver(g, D) - SumOver(take, E)
  BY <1>5, <1>6, <1>7, <1>8
<1> QED
  BY <1>4, <1>9, Zenon DEF D, E, f, g

LEMMA ProductOfSum == ASSUME NEW a \in Int, NEW b \in Int, NEW c \in Int PROVE (a + b) * c = a * c + b * c
OBVIOUS

\* And worth less by what it cost, where no more was taken than there was.
LEMMA DrawnValue ==
    ASSUME NEW L \in Seq(Lot), \A i \in DOMAIN L : L[i].left >= 0, NEW take, Takes(L, take)
    PROVE  LET N == DrawnFrom(L, L, take)
           IN  /\ \A i \in DOMAIN N : N[i].left >= 0
               /\ SumOver(ValuesOf(N), DOMAIN N) =
                     SumOver(ValuesOf(L), DOMAIN L) - SumOver(TakenValues(L, take), DOMAIN L)
<1> DEFINE D == DOMAIN L
           N == DrawnFrom(L, L, take)
           f == ValuesOf(N)
           g == ValuesOf(L)
           v == TakenValues(L, take)
<1>1. IsFiniteSet(D) /\ DOMAIN take = D /\ \A i \in D : take[i] \in Nat
  BY LotsFinite DEF Takes
<1>2. N \in Seq(Lot) /\ DOMAIN N = D
  BY <1>1, DrawnLots
<1>3. ASSUME NEW i \in D PROVE N[i].left >= 0 /\ f[i] \in Int /\ v[i] \in Int /\ g[i] = f[i] + v[i]
  <2>1. N[i].cost = L[i].cost /\ N[i].left = IF i \in DOMAIN take /\ take[i] > 0 THEN L[i].left - take[i] ELSE L[i].left
    BY <1>1, <1>3, DrawnLots
  <2>2. /\ f[i] = Max2(N[i].left, 0) * N[i].cost /\ g[i] = Max2(L[i].left, 0) * L[i].cost
        /\ L[i].left \in Int /\ L[i].cost \in Int /\ f[i] \in Int /\ g[i] \in Int
    BY <1>2, <1>3, LotsFinite
  <2>3. v[i] = take[i] * L[i].cost /\ v[i] \in Int
    BY <1>3, TakenValuesAreInt
  <2>4. take[i] \in Nat /\ take[i] <= Max2(L[i].left, 0) /\ L[i].left >= 0
    BY <1>3 DEF Takes
  <2>5. PICK x \in Nat, n \in Nat, c \in Int, t \in Nat :
             x = L[i].left /\ n = N[i].left /\ c = L[i].cost /\ t = take[i] /\ n = x - t
    <3>1. L[i].left \in Nat /\ take[i] <= L[i].left
      BY <2>2, <2>4 DEF Max2
    <3>2. N[i].left = L[i].left - take[i]
      BY <1>1, <1>3, <2>1, <2>2, <2>4
    <3> QED
      BY <2>2, <2>4, <3>1, <3>2
  <2>6. Max2(n, 0) = n /\ Max2(x, 0) = x
    BY DEF Max2
  <2>7. f[i] = n * c /\ g[i] = x * c /\ v[i] = t * c
    BY <2>1, <2>2, <2>3, <2>5, <2>6
  <2>8. x * c = n * c + t * c
    <3>1. x = n + t
      BY <2>5
    <3>2. (n + t) * c = n * c + t * c
      BY ProductOfSum
    <3> QED
      BY <3>1, <3>2
  <2> QED
    BY <2>2, <2>3, <2>5, <2>7, <2>8
<1> HIDE DEF N, f, g, v
<1>4. SumOver(g, D) = SumOver(f, D) + SumOver(v, D) /\ SumOver(f, D) \in Int /\ SumOver(v, D) \in Int
  BY <1>1, <1>3, SumOfSums, SumIsInt
<1>5. SumOver(f, D) = SumOver(g, D) - SumOver(v, D)
  BY <1>4
<1> QED
  BY <1>2, <1>3, <1>5, Zenon DEF N, f, g, v

\* A lot of its own adds what it has.
LEMMA LotAppended ==
    ASSUME NEW L \in Seq(Lot), NEW l \in Lot
    PROVE  LET N == Append(L, l)
           IN  /\ N \in Seq(Lot) /\ DOMAIN L \subseteq DOMAIN N
               /\ \A i \in DOMAIN N : N[i] = l \/ (i \in DOMAIN L /\ N[i] = L[i])
               /\ SumOver(LeftsOf(N), DOMAIN N) = SumOver(LeftsOf(L), DOMAIN L) + l.left
               /\ SumOver(ValuesOf(N), DOMAIN N) = SumOver(ValuesOf(L), DOMAIN L) + Max2(l.left, 0) * l.cost
<1>1. PICK N : N = Append(L, l)
  OBVIOUS
<1> DEFINE D == DOMAIN L
           m == Len(L) + 1
<1>2. /\ N \in Seq(Lot) /\ DOMAIN N = D \cup {m} /\ m \notin D /\ N[m] = l
      /\ \A i \in D : N[i] = L[i]
  BY <1>1
<1>3. IsFiniteSet(D) /\ IsFiniteSet(DOMAIN N)
  BY <1>2, LotsFinite
<1>4. \A i \in D : /\ LeftsOf(N)[i] = LeftsOf(L)[i] /\ LeftsOf(N)[i] \in Int
                   /\ ValuesOf(N)[i] = ValuesOf(L)[i] /\ ValuesOf(N)[i] \in Int
  <2> SUFFICES ASSUME NEW i \in D
               PROVE  /\ LeftsOf(N)[i] = LeftsOf(L)[i] /\ LeftsOf(N)[i] \in Int
                      /\ ValuesOf(N)[i] = ValuesOf(L)[i] /\ ValuesOf(N)[i] \in Int
    OBVIOUS
  <2>1. /\ LeftsOf(N)[i] = N[i].left /\ ValuesOf(N)[i] = Max2(N[i].left, 0) * N[i].cost /\ N[i].left \in Int
        /\ ValuesOf(N)[i] \in Int
    BY <1>2, LotsFinite
  <2>2. LeftsOf(L)[i] = L[i].left /\ ValuesOf(L)[i] = Max2(L[i].left, 0) * L[i].cost
    BY LotsFinite
  <2>3. N[i] = L[i]
    BY <1>2
  <2> QED
    BY <2>1, <2>2, <2>3
<1>5. /\ LeftsOf(N)[m] = l.left /\ ValuesOf(N)[m] = Max2(l.left, 0) * l.cost
      /\ LeftsOf(N)[m] \in Int /\ ValuesOf(N)[m] \in Int
  <2>1. /\ LeftsOf(N)[m] = N[m].left /\ ValuesOf(N)[m] = Max2(N[m].left, 0) * N[m].cost /\ N[m].left \in Int
        /\ ValuesOf(N)[m] \in Int
    BY <1>2, LotsFinite
  <2> QED
    BY <1>2, <2>1
<1> HIDE DEF D, m
<1>6. /\ SumOver(LeftsOf(N), D \cup {m}) = SumOver(LeftsOf(N), D) + LeftsOf(N)[m]
      /\ SumOver(ValuesOf(N), D \cup {m}) = SumOver(ValuesOf(N), D) + ValuesOf(N)[m]
  <2>1. \A i \in D \cup {m} : LeftsOf(N)[i] \in Int /\ ValuesOf(N)[i] \in Int
    BY <1>4, <1>5
  <2> QED
    BY <1>2, <1>3, <2>1, SumWith
<1>7. /\ SumOver(LeftsOf(N), D) = SumOver(LeftsOf(L), D)
      /\ SumOver(ValuesOf(N), D) = SumOver(ValuesOf(L), D)
  BY <1>3, <1>4, SumSame
<1>8. /\ SumOver(LeftsOf(N), DOMAIN N) = SumOver(LeftsOf(L), D) + l.left
      /\ SumOver(ValuesOf(N), DOMAIN N) = SumOver(ValuesOf(L), D) + Max2(l.left, 0) * l.cost
  BY <1>2, <1>5, <1>6, <1>7
<1>9. \A i \in DOMAIN N : N[i] = l \/ (i \in D /\ N[i] = L[i])
  BY <1>2
<1>10. D \subseteq DOMAIN N
  BY <1>2
<1> QED
  BY <1>1, <1>2, <1>8, <1>9, <1>10, Zenon DEF D

Adds == {"purchase", "adjustIn"}

LEMMA PostMoveKeeps ==
    ASSUME StockInv, NEW s \in Movers, PostMove(s)
    PROVE  StockInv'
<1>1. PICK w : w = moves[s][1]
  OBVIOUS
<1>2. PICK L, M : L = lots /\ M = lots'
  OBVIOUS
<1>3. PICK seen : seen = IF w.kind \in Journalled THEN StockState ELSE w.looked
  OBVIOUS
<1>4. PICK N : N = DrawnFrom(L, seen[1], w.take)
  OBVIOUS
<1>5. /\ moves[s] # <<>> /\ (w.kind \notin Journalled => w.looked # <<>>)
      /\ M = IF w.kind \in Adds THEN Append(N, [left |-> w.q, cost |-> w.cost]) ELSE N
      /\ sku' = seen[2] + w.delta /\ ledger' = ledger + w.delta /\ gl' = gl + w.value
      /\ issued' = IF w.kind = "issue" THEN issued + w.q ELSE issued
      /\ qtyMoved' = qtyMoved + w.q /\ method' = method
  BY <1>1, <1>2, <1>3, <1>4 DEF PostMove, Drawn, DrawnFrom, Adds
<1>6. stockMarks' = stockMarks \cup (IF w.overtaken THEN {"plan"} ELSE {})
                      \cup (IF StockState # seen THEN {"look"} ELSE {})
                      \cup (IF w.kind \in {"saleReturn", "purchaseReturn"} THEN {"return"} ELSE {})
  BY <1>1, <1>3 DEF PostMove
<1>7. moves' = [r \in Movers |-> IF r = s \/ moves[r] = <<>> THEN <<>>
                                 ELSE <<[moves[r][1] EXCEPT !.overtaken = TRUE]>>]
  BY DEF PostMove
<1>8. /\ L \in Seq(Lot) /\ sku \in Int /\ ledger \in Int /\ gl \in Int /\ issued \in Int /\ qtyMoved \in Int
  BY <1>2 DEF StockInv, StockTypes
<1>9. MoveSound(w, L) /\ (~w.overtaken => MoveFresh(w, L, StockState))
  BY <1>1, <1>2, <1>5 DEF StockInv, MovesSound
<1>10. /\ w.kind \in MoveKinds /\ w.q \in Nat \ {0} /\ w.value \in Int /\ w.cost \in Int
       /\ w.delta = IF w.kind \in Outbound \cup {"purchaseReturn"} THEN -w.q ELSE w.q
       /\ w.delta \in Int
       /\ DOMAIN w.take \subseteq DOMAIN L /\ \A i \in DOMAIN w.take : w.take[i] \in Nat
       /\ w.kind \notin Outbound => \A i \in DOMAIN w.take : w.take[i] = 0
       /\ w.kind \in Outbound /\ method # "Standard" => SumOver(w.take, DOMAIN w.take) = w.q
  BY <1>9 DEF MoveSound
<1>11. StockState[1] = L /\ StockState[2] = sku /\ StockState[3] = issued
  BY <1>2 DEF StockState
<1>12. seen[1] \in Seq(Lot) /\ seen[2] \in Int /\ DOMAIN w.take \subseteq DOMAIN seen[1]
  <2>1. CASE w.kind \in Journalled
    BY <1>3, <1>8, <1>10, <1>11, <2>1
  <2>2. CASE w.kind \notin Journalled
    BY <1>3, <1>5, <1>9, <2>2 DEF MoveSound
  <2> QED
    BY <2>1, <2>2
<1>13. /\ N \in Seq(Lot) /\ DOMAIN N = DOMAIN L
       /\ \A i \in DOMAIN L : N[i].left =
             IF i \in DOMAIN w.take /\ w.take[i] > 0 THEN seen[1][i].left - w.take[i] ELSE L[i].left
  BY <1>4, <1>8, <1>10, <1>12, DrawnLots
<1> DEFINE add == IF w.kind \in Adds THEN w.q ELSE 0
           worth == IF w.kind \in Adds THEN w.q * w.cost ELSE 0
<1>14. /\ M \in Seq(Lot) /\ DOMAIN L \subseteq DOMAIN M
       /\ \A i \in DOMAIN M : M[i].left = w.q \/ (i \in DOMAIN N /\ M[i] = N[i])
       /\ SumOver(LeftsOf(M), DOMAIN M) = SumOver(LeftsOf(N), DOMAIN N) + add
       /\ SumOver(ValuesOf(M), DOMAIN M) = SumOver(ValuesOf(N), DOMAIN N) + worth
  <2>1. CASE w.kind \in Adds
    <3>1. PICK l : l = [left |-> w.q, cost |-> w.cost]
      OBVIOUS
    <3>2. l \in Lot /\ l.left = w.q /\ l.cost = w.cost
      BY <1>10, <3>1 DEF Lot
    <3>3. M = Append(N, l)
      BY <1>5, <2>1, <3>1
    <3>4. Max2(l.left, 0) = w.q
      BY <1>10, <3>2 DEF Max2
    <3>5. /\ M \in Seq(Lot) /\ DOMAIN N \subseteq DOMAIN M
          /\ \A i \in DOMAIN M : M[i] = l \/ (i \in DOMAIN N /\ M[i] = N[i])
          /\ SumOver(LeftsOf(M), DOMAIN M) = SumOver(LeftsOf(N), DOMAIN N) + l.left
          /\ SumOver(ValuesOf(M), DOMAIN M) = SumOver(ValuesOf(N), DOMAIN N) + Max2(l.left, 0) * l.cost
      BY <1>13, <3>2, <3>3, LotAppended
    <3>6. add = w.q /\ worth = w.q * w.cost
      BY <2>1
    <3> HIDE DEF add, worth
    <3> QED
      BY <1>13, <3>2, <3>4, <3>5, <3>6
  <2>2. CASE w.kind \notin Adds
    <3>1. M = N /\ add = 0 /\ worth = 0
      BY <1>5, <2>2
    <3>2. SumOver(LeftsOf(N), DOMAIN N) \in Int /\ SumOver(ValuesOf(N), DOMAIN N) \in Int
      BY <1>13, LotSums
    <3> HIDE DEF add, worth
    <3> QED
      BY <1>13, <3>1, <3>2
  <2> QED
    BY <2>1, <2>2
<1>15. ASSUME NEW r \in Movers, moves'[r] # <<>>
       PROVE  /\ moves'[r] = <<moves'[r][1]>> /\ MoveSound(moves[r][1], lots)'
              /\ ~moves'[r][1].overtaken => MoveFresh(moves[r][1], lots, StockState)'
  <2>1. PICK x, y : x = moves[r][1] /\ y = [x EXCEPT !.overtaken = TRUE]
    OBVIOUS
  <2>2. moves[r] # <<>> /\ moves'[r] = <<y>>
    BY <1>7, <1>15, <2>1
  <2>3. MoveSound(x, L)
    BY <1>2, <2>1, <2>2 DEF StockInv, MovesSound
  <2>4. /\ y.kind = x.kind /\ y.q = x.q /\ y.delta = x.delta /\ y.value = x.value /\ y.take = x.take
        /\ y.cost = x.cost /\ y.overtaken = TRUE /\ y.looked = x.looked /\ IsMove(y)
    <3>1. IsMove(x)
      BY <2>3 DEF MoveSound
    <3> QED
      BY <2>1, <3>1 DEF IsMove
  <2>5. MoveSound(y, M)'
    BY <1>5, <1>14, <2>3, <2>4 DEF MoveSound
  <2>6. moves'[r][1] = y
    BY <2>2
  <2> QED
    BY <1>2, <2>2, <2>4, <2>5, <2>6
<1>16. MovesSound'
  BY <1>15 DEF MovesSound
<1>17. StockTypes'
  <2>1. moves' = [r \in Movers |-> moves'[r]]
    BY <1>7
  <2>2. sku' \in Int /\ ledger' \in Int /\ gl' \in Int /\ issued' \in Int /\ qtyMoved' \in Int
    <3>1. w.q \in Int /\ w.value \in Int /\ w.delta \in Int /\ seen[2] \in Int
      BY <1>10, <1>12
    <3>2. issued' = issued \/ issued' = issued + w.q
      BY <1>5
    <3>3. sku' = seen[2] + w.delta /\ ledger' = ledger + w.delta /\ gl' = gl + w.value /\ qtyMoved' = qtyMoved + w.q
      BY <1>5
    <3>4. PICK q \in Int, v \in Int, d \in Int, x \in Int : q = w.q /\ v = w.value /\ d = w.delta /\ x = seen[2]
      BY <3>1
    <3>5. issued' \in Int
      BY <1>8, <3>2, <3>4
    <3>6. sku' = x + d /\ ledger' = ledger + d /\ gl' = gl + v /\ qtyMoved' = qtyMoved + q
      BY <3>3, <3>4
    <3>7. sku' \in Int
      BY <1>8, <3>6
    <3>8. ledger' \in Int
      BY <1>8, <3>6
    <3>9. gl' \in Int
      BY <1>8, <3>6
    <3>10. qtyMoved' \in Int
      BY <1>8, <3>6
    <3> QED
      BY <3>5, <3>7, <3>8, <3>9, <3>10
  <2> QED
    BY <1>2, <1>14, <2>1, <2>2 DEF StockTypes
<1>18. /\ "look" \notin stockMarks' => "look" \notin stockMarks /\ seen = StockState
       /\ "return" \notin stockMarks' => "return" \notin stockMarks /\ w.kind \notin {"saleReturn", "purchaseReturn"}
       /\ "plan" \notin stockMarks' => "plan" \notin stockMarks /\ ~w.overtaken
  BY <1>6
<1>19. "look" \notin stockMarks' => sku' = ledger'
  BY <1>5, <1>11, <1>18 DEF StockInv
<1>20. ASSUME stockMarks' \cap {"look", "return"} = {}, method' # "Standard"
       PROVE  SumOver(LeftsOf(M), DOMAIN M) = sku'
  <2>1. seen = StockState /\ w.kind \notin {"saleReturn", "purchaseReturn"} /\ method # "Standard"
        /\ stockMarks \cap {"look", "return"} = {}
    BY <1>5, <1>18, <1>20
  <2>2. SumOver(LeftsOf(L), DOMAIN L) = sku
    BY <1>2, <2>1 DEF StockInv
  <2>3. N = DrawnFrom(L, L, w.take)
    BY <1>4, <1>11, <2>1
  <2>4. SumOver(LeftsOf(N), DOMAIN N) = sku - SumOver(w.take, DOMAIN w.take)
    BY <1>8, <1>10, <2>2, <2>3, DrawnLeft
  <2>5. CASE w.kind \in Outbound
    <3>1. SumOver(w.take, DOMAIN w.take) = w.q /\ w.delta = -w.q /\ add = 0
      BY <1>10, <2>1, <2>5 DEF Outbound, Adds
    <3> HIDE DEF add
    <3> QED
      BY <1>5, <1>8, <1>10, <1>11, <1>14, <2>1, <2>4, <3>1
  <2>6. CASE w.kind \notin Outbound
    <3>1. w.kind \in Adds /\ w.delta = w.q /\ add = w.q
      BY <1>10, <2>1, <2>6 DEF MoveKinds, Outbound, Adds
    <3>2. SumOver(w.take, DOMAIN w.take) = 0
      <4>1. IsFiniteSet(DOMAIN w.take)
        BY <1>8, <1>10, LotsFinite, FS_Subset
      <4> QED
        BY <1>10, <2>6, <4>1, SumOfZeros
    <3> HIDE DEF add
    <3> QED
      BY <1>5, <1>8, <1>10, <1>11, <1>14, <2>1, <2>4, <3>1, <3>2
  <2> QED
    BY <2>5, <2>6
<1>21. ASSUME ~w.overtaken
       PROVE  /\ seen = StockState /\ Takes(L, w.take) /\ N = DrawnFrom(L, L, w.take)
              /\ w.kind = "issue" => w.q <= QtyApproved - issued
              /\ method \notin {"Average", "Standard"} =>
                    /\ w.kind \in Outbound => Near(-w.value, SumOver(TakenValues(L, w.take), DOMAIN L), w.q)
                    /\ w.kind \in Adds => Near(w.value, w.q * w.cost, w.q)
  <2>1. MoveFresh(w, L, StockState)
    BY <1>9, <1>21
  <2>2. seen = StockState
    BY <1>3, <1>5, <2>1 DEF MoveFresh
  <2>3. N = DrawnFrom(L, L, w.take)
    BY <1>4, <1>11, <2>2
  <2> QED
    BY <1>11, <2>1, <2>2, <2>3 DEF MoveFresh, Adds
<1>22. ASSUME "plan" \notin stockMarks'
       PROVE  /\ issued' <= QtyApproved /\ \A i \in DOMAIN M : M[i].left >= 0
              /\ \A i \in DOMAIN L : L[i].left >= 0
  <2>1. ~w.overtaken /\ issued <= QtyApproved /\ \A i \in DOMAIN L : L[i].left >= 0
    BY <1>2, <1>18, <1>22 DEF StockInv
  <2>2. issued' <= QtyApproved
    <3>1. QtyApproved \in Int /\ w.q \in Int
      BY <1>10, StockAssumption
    <3>2. CASE w.kind = "issue"
      BY <1>5, <1>8, <1>21, <2>1, <3>1, <3>2
    <3>3. CASE w.kind # "issue"
      BY <1>5, <2>1, <3>3
    <3> QED
      BY <3>2, <3>3
  <2>3. \A i \in DOMAIN N : N[i].left >= 0
    BY <1>8, <1>21, <2>1, DrawnValue
  <2>4. \A i \in DOMAIN M : M[i].left >= 0
    <3> SUFFICES ASSUME NEW i \in DOMAIN M PROVE M[i].left >= 0
      OBVIOUS
    <3>1. M[i].left = w.q \/ (i \in DOMAIN N /\ M[i] = N[i])
      BY <1>14
    <3> QED
      BY <1>10, <2>3, <3>1
  <2> QED
    BY <2>1, <2>2, <2>4
<1>23. ASSUME stockMarks' = {}, method' \notin {"Average", "Standard"}
       PROVE  Near(gl', SumOver(ValuesOf(M), DOMAIN M), qtyMoved')
  <2>1. /\ ~w.overtaken /\ w.kind \notin {"saleReturn", "purchaseReturn"} /\ method \notin {"Average", "Standard"}
        /\ stockMarks = {} /\ "plan" \notin stockMarks'
    BY <1>5, <1>6, <1>18, <1>23
  <2>2. PICK V \in Int, T \in Int, X \in Int, c \in Int :
             /\ V = SumOver(ValuesOf(L), DOMAIN L) /\ T = SumOver(TakenValues(L, w.take), DOMAIN L)
             /\ X = SumOver(ValuesOf(N), DOMAIN N) /\ c = w.q * w.cost
    <3>1. SumOver(ValuesOf(L), DOMAIN L) \in Int /\ SumOver(ValuesOf(N), DOMAIN N) \in Int
      BY <1>8, <1>13, LotSums
    <3>2. SumOver(TakenValues(L, w.take), DOMAIN L) \in Int
      BY <1>8, <1>21, <2>1, TakenValuesAreInt
    <3>3. w.q * w.cost \in Int
      BY <1>10
    <3> QED
      BY <3>1, <3>2, <3>3
  <2>3. Near(gl, V, qtyMoved)
    BY <1>2, <2>1, <2>2 DEF StockInv
  <2>4. X = V - T
    <3>1. \A i \in DOMAIN L : L[i].left >= 0
      BY <1>22, <2>1
    <3>2. SumOver(ValuesOf(N), DOMAIN N) =
              SumOver(ValuesOf(L), DOMAIN L) - SumOver(TakenValues(L, w.take), DOMAIN L)
      BY <1>8, <1>21, <2>1, <3>1, DrawnValue
    <3> QED
      BY <2>2, <3>2
  <2>5. SumOver(ValuesOf(M), DOMAIN M) = X + worth
    BY <1>14, <2>2
  <2>8. PICK g \in Int, m \in Int, v \in Int, q \in Int : g = gl /\ m = qtyMoved /\ v = w.value /\ q = w.q
    BY <1>8, <1>10
  <2>9. gl' = g + v /\ qtyMoved' = m + q
    BY <1>5, <2>8
  <2>6. CASE w.kind \in Outbound
    <3>1. Near(-w.value, T, w.q) /\ worth = 0
      BY <1>21, <2>1, <2>2, <2>6 DEF Outbound, Adds
    <3> HIDE DEF worth
    <3>2. SumOver(ValuesOf(M), DOMAIN M) = V - T
      BY <2>4, <2>5, <3>1
    <3>3. Near(g, V, m) /\ Near(-v, T, q)
      BY <2>3, <2>8, <3>1
    <3>4. Near(g + v, V - T, m + q)
      BY <3>3 DEF Near
    <3> QED
      BY <2>9, <3>2, <3>4
  <2>7. CASE w.kind \notin Outbound
    <3>1. w.kind \in Adds
      BY <1>10, <2>1, <2>7 DEF MoveKinds, Outbound, Adds
    <3>2. Near(w.value, c, w.q) /\ worth = c
      BY <1>21, <2>1, <2>2, <3>1
    <3>3. T = 0
      <4>1. IsFiniteSet(DOMAIN L)
        BY <1>8, LotsFinite
      <4>2. ASSUME NEW i \in DOMAIN L PROVE TakenValues(L, w.take)[i] = 0
        <5>1. Takes(L, w.take) /\ DOMAIN w.take = DOMAIN L
          BY <1>21, <2>1 DEF Takes
        <5>2. w.take[i] = 0
          BY <1>10, <2>7, <5>1
        <5>3. TakenValues(L, w.take)[i] = w.take[i] * L[i].cost /\ L[i].cost \in Int
          BY <1>8, <5>1, TakenValuesAreInt, LotsFinite
        <5> QED
          BY <5>2, <5>3
      <4> QED
        BY <2>2, <4>1, <4>2, SumOfZeros
    <3> HIDE DEF worth
    <3>4. SumOver(ValuesOf(M), DOMAIN M) = V + c
      BY <2>4, <2>5, <3>2, <3>3
    <3>5. Near(g, V, m) /\ Near(v, c, q)
      BY <2>3, <2>8, <3>2
    <3>6. Near(g + v, V + c, m + q)
      BY <3>5 DEF Near
    <3> QED
      BY <2>9, <3>4, <3>6
  <2> QED
    BY <2>6, <2>7
<1> HIDE DEF add, worth
<1> QED
  BY <1>2, <1>16, <1>17, <1>19, <1>20, <1>22, <1>23, Zenon DEF StockInv

LEMMA StockInitInv == StockInit => StockInv
<1> SUFFICES ASSUME StockInit PROVE StockInv
  OBVIOUS
<1>1. PICK L : L = lots
  OBVIOUS
<1>2. L \in Seq([left : Nat, cost : Int])
  BY <1>1, StockAssumption DEF StockInit
<1>3. L \in Seq(Lot) /\ \A i \in DOMAIN L : L[i].left \in Nat
  <2>1. \A i \in 1 .. Len(L) : L[i] \in Lot /\ L[i].left \in Nat
    <3> DEFINE S == [left : Nat, cost : Int]
    <3>1. L \in Seq(S) => \A i \in 1 .. Len(L) : L[i] \in S
      <4> HIDE DEF S
      <4> QED
        OBVIOUS
    <3> QED
      BY <1>2, <3>1 DEF Lot
  <2>2. L = [i \in 1 .. Len(L) |-> L[i]] /\ Len(L) \in Nat
    <3> DEFINE S == [left : Nat, cost : Int]
    <3>1. L \in Seq(S) => L = [i \in 1 .. Len(L) |-> L[i]] /\ Len(L) \in Nat
      <4> HIDE DEF S
      <4> QED
        OBVIOUS
    <3> QED
      BY <1>2, <3>1
  <2> QED
    BY <2>1, <2>2
<1>4. OnHand = SumOver(OpensOf(L), DOMAIN L) /\ ValueLeft = SumOver(ValuesOf(L), DOMAIN L)
      /\ OnHand \in Int /\ ValueLeft \in Int
  <2>1. OnHand = SumFunction(OpensOf(L)) /\ ValueLeft = SumFunction(ValuesOf(L))
    BY <1>1, Zenon DEF OnHand, ValueLeft, OpenQty, OpensOf, ValuesOf
  <2> QED
    BY <1>3, <2>1, LotSums
<1>5. SumOver(LeftsOf(L), DOMAIN L) = SumOver(OpensOf(L), DOMAIN L)
  <2>1. IsFiniteSet(DOMAIN L)
    BY <1>3, LotsFinite
  <2>2. \A i \in DOMAIN L : LeftsOf(L)[i] = OpensOf(L)[i] /\ LeftsOf(L)[i] \in Int
    <3> SUFFICES ASSUME NEW i \in DOMAIN L PROVE LeftsOf(L)[i] = OpensOf(L)[i] /\ LeftsOf(L)[i] \in Int
      OBVIOUS
    <3>1. LeftsOf(L)[i] = L[i].left /\ OpensOf(L)[i] = Max2(L[i].left, 0) /\ L[i].left \in Nat
      BY <1>3, LotsFinite
    <3> QED
      BY <3>1 DEF Max2
  <2> QED
    BY <2>1, <2>2, SumSame
<1>6. sku = OnHand /\ ledger = OnHand /\ gl = ValueLeft /\ issued = 0 /\ qtyMoved = 0 /\ stockMarks = {}
      /\ moves = [s \in Movers |-> <<>>]
  BY DEF StockInit
<1>7. StockTypes /\ MovesSound
  BY <1>1, <1>3, <1>4, <1>6 DEF StockTypes, MovesSound
<1>8. Near(gl, SumOver(ValuesOf(L), DOMAIN L), qtyMoved)
  BY <1>4, <1>6 DEF Near
<1>9. SumOver(LeftsOf(L), DOMAIN L) = sku
  BY <1>4, <1>5, <1>6
<1>10. issued <= QtyApproved /\ \A i \in DOMAIN L : L[i].left >= 0
  BY <1>3, <1>6, StockAssumption
<1>11. sku = ledger
  BY <1>6
<1> QED
  BY <1>1, <1>7, <1>8, <1>9, <1>10, <1>11, Zenon DEF StockInv

LEMMA StockStepInv == StockInv /\ [StockNext]_stockVars => StockInv'
<1> SUFFICES ASSUME StockInv, [StockNext]_stockVars PROVE StockInv'
  OBVIOUS
<1>1. CASE UNCHANGED stockVars
  <2>1. /\ UNCHANGED <<lots, sku, ledger, gl, issued, qtyMoved, stockMarks, method>> /\ moves' = moves
    BY <1>1 DEF stockVars
  <2>2. moves' = [s \in Movers |-> moves'[s]] /\ \A s \in Movers : moves'[s] = moves[s]
    BY <2>1 DEF StockInv, StockTypes
  <2> QED
    BY <2>1, <2>2, PlanningKeeps
<1>2. CASE StockNext
  <2>1. PICK s \in Movers : \/ \E kind \in MoveKinds, q \in Quantities : BeginMove(s, kind, q)
                            \/ LookAgain(s) \/ PostMove(s) \/ AbandonMove(s)
    BY <1>2 DEF StockNext
  <2> QED
    BY <2>1, BeginMoveKeeps, LookAgainKeeps, PostMoveKeeps, AbandonMoveKeeps
<1> QED
  BY <1>1, <1>2

LEMMA StockIsSound == StockInv => StockAgrees
<1> SUFFICES ASSUME StockInv PROVE StockAgrees
  OBVIOUS
<1>1. PICK L \in Seq(Lot) : L = lots
  BY DEF StockInv, StockTypes
<1>2. ValueLeft = SumOver(ValuesOf(L), DOMAIN L) /\ ValueLeft \in Int
  <2>1. ValueLeft = SumFunction(ValuesOf(L))
    BY <1>1, Zenon DEF ValueLeft, OpenQty, ValuesOf
  <2> QED
    BY <2>1, LotSums
<1>3. LeftOver = SumOver(LeftsOf(L), DOMAIN L)
  <2>1. LeftOver = SumFunction(LeftsOf(L))
    BY <1>1, Zenon DEF LeftOver, LeftsOf
  <2> QED
    BY <2>1, LotSums
<1>4. ValueWithinRounding
  <2> SUFFICES ASSUME stockMarks = {}, method \notin {"Average", "Standard"}
               PROVE  LET off == gl - ValueLeft IN 2 * Max2(off, -off) <= qtyMoved
    BY DEF ValueWithinRounding
  <2>1. Near(gl, ValueLeft, qtyMoved)
    BY <1>1, <1>2 DEF StockInv
  <2>2. gl \in Int /\ qtyMoved \in Int
    BY DEF StockInv, StockTypes
  <2> QED
    BY <1>2, <2>1, <2>2 DEF Near, Max2
<1> QED
  BY <1>1, <1>3, <1>4 DEF StockInv, StockAgrees

-----------------------------------------------------------------------------
(* A fixed asset.                                                           *)
(*                                                                          *)
(* The inductive invariant says what each line and each request stands for  *)
(* (a drafted line, for what was due on the book it names; a request that   *)
(* posts, for a book it found not disposed of), and bounds the accumulated  *)
(* depreciation by the lines posted so far and by the last date.            *)

FaBook == [cost : Int, accum : Int, down : Int, up : Int, value : Int, disposed : BOOLEAN, last : Int]
Ofs == {<<>>} \cup {<<b>> : b \in FaBook}
FaLine == [type : FaTypes, amount : Int, day : Int, of : Ofs, posted : BOOLEAN]

\* A line has the amount of its type; a drafted one, what was due on the book it names.
LineOk(l) ==
    /\ l.type = Acquisition => l.amount = Cost
    /\ l.type \in {"Write-Down", "Appreciation"} => l.amount = Step
    /\ l.of # <<>> =>
          /\ l.type = "Depreciation" /\ l.amount = Due(l.of[1], l.day) /\ l.amount # 0

\* What a request has read is a book there was, and a line there is; nothing but an acquisition
\* is posted on a book without one, unless a posting overtook it.
DeskOk(d) ==
    \/ d = <<>>
    \/ \E day \in Int, b \in FaBook : d = <<"look", day, b>>
    \/ \E day \in Int, b \in FaBook : d = <<"draft", day, b>> /\ Due(b, day) # 0
    \/ \E i \in Nat, l \in FaLine, b \in FaBook :
          /\ d = <<"post", i, l, b>> /\ LineOk(l) /\ ~b.disposed
          /\ i = 0 => l.type \in {Acquisition, "Disposal"} /\ l.of = <<>>
          /\ i # 0 => i \in DOMAIN drafts
          /\ faMarks = {} => l.type = Acquisition \/ book.disposed \/ book.cost > 0

PostedLines(Q) == {i \in DOMAIN Q : Q[i].posted}

FaTypesHold ==
    /\ book \in FaBook /\ faGl \in [cost : Int, accum : Int] /\ faLedger \in Int
    /\ drafts \in Seq(FaLine) /\ \A i \in DOMAIN drafts : LineOk(drafts[i])
    /\ faDesk = [k \in Keepers |-> faDesk[k]] /\ \A k \in Keepers : DeskOk(faDesk[k])

\* The straight line, with half a unit for each line posted and, where the rest was taken at
\* once, the final rounding.
OnTheLine(b, n) ==
    2 * (Life * (-b.accum)) <=
        2 * ((Cost - Salvage) * b.last) +
            Life * (n + (IF b.value = Salvage THEN 2 * FinalRounding ELSE 0))

SteadyBook(B, n) ==
    /\ B.cost >= 0 /\ B.up >= 0 /\ B.down <= 0
    /\ B.cost = 0 => B.accum = 0 /\ B.down = 0 /\ B.up = 0 /\ B.value = 0 /\ B.last = 0
    /\ B.down = 0 => B.value >= Salvage \/ B.accum = 0
    /\ faMethod = "Straight-Line" /\ B.down = 0 /\ B.up = 0 /\ B.cost = Cost => OnTheLine(B, n)

Steady == faMarks = {} /\ ~book.disposed => SteadyBook(book, Cardinality(PostedLines(drafts)))

FaInv == FaTypesHold /\ BookAgrees /\ Steady

LEMMA TypesDiffer ==
    /\ Acquisition # "Depreciation" /\ Acquisition # "Write-Down" /\ Acquisition # "Appreciation"
    /\ Acquisition # "Disposal"
BY Zenon DEF Acquisition

LEMMA FaTypeCases ==
    ASSUME NEW t \in FaTypes
    PROVE  t = Acquisition \/ t = "Depreciation" \/ t = "Write-Down" \/ t = "Appreciation" \/ t = "Disposal"
BY DEF FaTypes

\* Depreciation is a rounded part of the basis.
LEMMA FaRounded ==
    ASSUME NEW n \in Int, NEW d \in Nat \ {0}
    PROVE  /\ FaRound(n, d) \in Int /\ d * FaRound(n, d) \in Int
           /\ 2 * (d * FaRound(n, d)) <= 2 * n + d
<1>1. FaRound(n, d) = RoundCost(n, d)
  BY DEF FaRound, RoundCost
<1> QED
  BY <1>1, RoundedCost

\* What is due leaves the salvage value, and is the straight line's but for its rounding.
LEMMA WhatIsDue ==
    ASSUME NEW b \in FaBook, NEW day \in Int, Due(b, day) # 0
    PROVE  LET basis == b.cost + b.down + b.up - Salvage
               r == FaRound(basis * (day - b.last), Life)
           IN  /\ Due(b, day) \in Int /\ ~b.disposed
               /\ b.value - Salvage > 0 /\ Due(b, day) <= b.value - Salvage
               /\ faMethod = "Straight-Line" =>
                     \/ Due(b, day) <= r
                     \/ Due(b, day) = b.value - Salvage /\ Due(b, day) <= r + FinalRounding
<1>1. /\ b.cost \in Int /\ b.down \in Int /\ b.up \in Int /\ b.value \in Int /\ b.last \in Int
      /\ b.disposed \in BOOLEAN
  BY DEF FaBook
<1>2. Salvage \in Nat /\ FinalRounding \in Nat /\ Life \in Nat \ {0}
  BY AssetAssumption
<1>3. PICK basis \in Int, days \in Int, room \in Int :
           basis = b.cost + b.down + b.up - Salvage /\ days = day - b.last /\ room = b.value - Salvage
  BY <1>1, <1>2
<1>4. basis * days \in Int /\ room * days \in Int
  BY <1>3
<1>5. PICK r \in Int, s \in Int : r = FaRound(basis * days, Life) /\ s = FaRound(room * days, 2)
  <2>1. FaRound(basis * days, Life) \in Int /\ FaRound(room * days, 2) \in Int
    BY <1>2, <1>4, FaRounded
  <2> QED
    BY <2>1
<1>6. PICK p : p = PeriodAmount(r, s)
  OBVIOUS
<1>7. (p = r \/ p = s) /\ (faMethod = "Straight-Line" => p = r)
  BY <1>6, Zenon DEF PeriodAmount
<1>8. p \in Int
  BY <1>5, <1>7
<1>9. Due(b, day) = IF b.disposed \/ days <= 0 \/ basis <= 0 \/ room <= 0 THEN 0
                    ELSE IF FinalRounding > 0 /\ room - Least(p, room) <= FinalRounding THEN room
                    ELSE Least(p, room)
  BY <1>3, <1>5, <1>6, Zenon DEF Due
<1>10. Least(p, room) \in Int /\ Least(p, room) <= room /\ Least(p, room) <= p
  BY <1>3, <1>8 DEF Least
<1>11. ~b.disposed /\ ~(room <= 0)
  <2>1. b.disposed \/ days <= 0 \/ basis <= 0 \/ room <= 0 => Due(b, day) = 0
    BY <1>9, Zenon
  <2> QED
    BY <2>1
<1>12. \/ Due(b, day) = Least(p, room)
       \/ Due(b, day) = room /\ room - Least(p, room) <= FinalRounding
  BY <1>9
<1>13. Due(b, day) \in Int /\ Due(b, day) <= room /\ room > 0
  BY <1>3, <1>10, <1>11, <1>12
<1>14. faMethod = "Straight-Line" =>
          \/ Due(b, day) <= r
          \/ Due(b, day) = room /\ Due(b, day) <= r + FinalRounding
  BY <1>2, <1>3, <1>5, <1>7, <1>10, <1>12
<1> QED
  BY <1>3, <1>5, <1>11, <1>13, <1>14, Zenon

LEMMA SumTimes ==
    ASSUME NEW a \in Int, NEW b \in Int, NEW c \in Int
    PROVE  a * (b + c) = a * b + a * c /\ a * b \in Int /\ a * c \in Int
OBVIOUS

LEMMA TimesAtMost ==
    ASSUME NEW a \in Nat, NEW b \in Int, NEW c \in Int, b <= c
    PROVE  a * b <= a * c
<1>1. PICK d \in Nat : c = b + d
  <2>1. c - b \in Nat /\ c = b + (c - b)
    OBVIOUS
  <2> QED
    BY <2>1
<1>2. a * c = a * b + a * d /\ a * b \in Int
  BY <1>1, SumTimes
<1>3. a * d \in Nat
  OBVIOUS
<1> QED
  BY <1>2, <1>3

\* One more line moves the book along the straight line, but for half a unit and what it took
\* at once.
LEMMA AlongTheLine ==
    ASSUME NEW life \in Nat \ {0}, NEW basis \in Int, NEW last \in Int, NEW day \in Int, NEW n \in Int,
           NEW e \in Nat, NEW accum \in Int, NEW amount \in Int,
           2 * (life * (-accum)) <= 2 * (basis * last) + life * n,
           amount <= FaRound(basis * (day - last), life) + e
    PROVE  2 * (life * (-(accum - amount))) <= 2 * (basis * day) + life * (n + 1 + 2 * e)
<1>1. PICK days \in Int : days = day - last
  OBVIOUS
<1>2. PICK r \in Int : r = FaRound(basis * days, life)
  <2>1. basis * days \in Int
    OBVIOUS
  <2>2. FaRound(basis * days, life) \in Int
    BY <2>1, FaRounded
  <2> QED
    BY <2>2
<1>3. PICK P \in Int, Q \in Int, x \in Int, y \in Int, z \in Int, u \in Int, N \in Int :
           /\ P = basis * last /\ Q = basis * days /\ x = life * (-accum) /\ y = life * amount
           /\ z = life * r /\ u = life * e /\ N = life * n
  <2>1. /\ basis * last \in Int /\ basis * days \in Int /\ life * (-accum) \in Int /\ life * amount \in Int
        /\ life * r \in Int /\ life * e \in Int /\ life * n \in Int
    OBVIOUS
  <2> QED
    BY <2>1
<1>4. 2 * z <= 2 * Q + life
  BY <1>2, <1>3, FaRounded
<1>5. y <= z + u
  <2>1. amount <= r + e
    BY <1>1, <1>2
  <2>2. life * amount <= life * (r + e)
    BY <2>1, TimesAtMost
  <2>3. life * (r + e) = life * r + life * e
    BY SumTimes
  <2> QED
    BY <1>3, <2>2, <2>3
<1>6. basis * day = P + Q
  <2>1. day = last + days
    BY <1>1
  <2>2. basis * (last + days) = basis * last + basis * days
    BY SumTimes
  <2> QED
    BY <1>3, <2>1, <2>2
<1>7. life * (-(accum - amount)) = x + y
  <2>1. -(accum - amount) = (-accum) + amount
    OBVIOUS
  <2>2. life * ((-accum) + amount) = life * (-accum) + life * amount
    BY SumTimes
  <2> QED
    BY <1>3, <2>1, <2>2
<1>8. life * (n + 1 + 2 * e) = N + life + 2 * u
  <2>1. life * (n + (1 + 2 * e)) = life * n + life * (1 + 2 * e)
    BY SumTimes
  <2>2. life * (1 + 2 * e) = life * 1 + life * (2 * e)
    BY SumTimes
  <2>3. life * (2 * e) = 2 * (life * e)
    <3>1. life * (e + e) = life * e + life * e
      BY SumTimes
    <3>2. 2 * e = e + e /\ 2 * (life * e) = life * e + life * e
      BY <1>3
    <3> QED
      BY <3>1, <3>2
  <2>4. n + 1 + 2 * e = n + (1 + 2 * e) /\ life * 1 = life
    OBVIOUS
  <2> QED
    BY <1>3, <2>1, <2>2, <2>3, <2>4
<1>9. 2 * x <= 2 * P + N
  BY <1>3
<1>10. 2 * (x + y) <= 2 * (P + Q) + (N + life + 2 * u)
  BY <1>4, <1>5, <1>9
<1> QED
  BY <1>6, <1>7, <1>8, <1>10

\* What a posting adds: to the value, what its parts add; a disposal takes all that was read.
LEMMA WhatIsAdded ==
    ASSUME NEW t \in FaTypes, NEW a \in Int, NEW b \in FaBook, NEW d, d = FaDelta(t, a, b)
    PROVE  /\ d.cost \in Int /\ d.accum \in Int /\ d.down \in Int /\ d.up \in Int /\ d.value \in Int
           /\ t # "Disposal" => d.value = d.cost + d.accum + d.down + d.up
           /\ t = Acquisition => d.cost = a /\ d.accum = 0 /\ d.down = 0 /\ d.up = 0
           /\ t = "Depreciation" => d.cost = 0 /\ d.accum = -a /\ d.down = 0 /\ d.up = 0
           /\ t = "Write-Down" => d.cost = 0 /\ d.accum = 0 /\ d.down = -a /\ d.up = 0
           /\ t = "Appreciation" => d.cost = 0 /\ d.accum = 0 /\ d.down = 0 /\ d.up = a
           /\ t = "Disposal" => /\ d.cost = -b.cost /\ d.accum = -b.accum /\ d.down = -b.down
                                /\ d.up = -b.up /\ d.value = -b.value
<1>1. d = FaDelta(t, a, b)
  OBVIOUS
<1>2. CASE t = Acquisition
  <2>1. d = [NoBook EXCEPT !.cost = a, !.value = a]
    BY <1>1, <1>2, TypesDiffer DEF FaDelta
  <2>2. d.cost = a /\ d.accum = 0 /\ d.down = 0 /\ d.up = 0 /\ d.value = a
    BY <2>1 DEF NoBook
  <2> QED
    BY <1>1, <1>2, <2>2, TypesDiffer
<1>3. CASE t = "Depreciation"
  <2>1. d = [NoBook EXCEPT !.accum = -a, !.value = -a]
    BY <1>1, <1>3, TypesDiffer DEF FaDelta
  <2>2. d.cost = 0 /\ d.accum = -a /\ d.down = 0 /\ d.up = 0 /\ d.value = -a
    BY <2>1 DEF NoBook
  <2> QED
    BY <1>1, <1>3, <2>2, TypesDiffer
<1>4. CASE t = "Write-Down"
  <2>1. d = [NoBook EXCEPT !.down = -a, !.value = -a]
    BY <1>1, <1>4, TypesDiffer DEF FaDelta
  <2>2. d.cost = 0 /\ d.accum = 0 /\ d.down = -a /\ d.up = 0 /\ d.value = -a
    BY <2>1 DEF NoBook
  <2> QED
    BY <1>1, <1>4, <2>2, TypesDiffer
<1>5. CASE t = "Appreciation"
  <2>1. d = [NoBook EXCEPT !.up = a, !.value = a]
    BY <1>1, <1>5, TypesDiffer DEF FaDelta
  <2>2. d.cost = 0 /\ d.accum = 0 /\ d.down = 0 /\ d.up = a /\ d.value = a
    BY <2>1 DEF NoBook
  <2> QED
    BY <1>1, <1>5, <2>2, TypesDiffer
<1>6. CASE t = "Disposal"
  <2>1. d = [NoBook EXCEPT !.cost = -b.cost, !.accum = -b.accum, !.down = -b.down,
                           !.up = -b.up, !.value = -b.value]
    BY <1>1, <1>6, TypesDiffer DEF FaDelta
  <2>2. d.cost = -b.cost /\ d.accum = -b.accum /\ d.down = -b.down /\ d.up = -b.up /\ d.value = -b.value
    BY <2>1 DEF NoBook
  <2>3. b.cost \in Int /\ b.accum \in Int /\ b.down \in Int /\ b.up \in Int /\ b.value \in Int
    BY DEF FaBook
  <2> QED
    BY <1>1, <1>6, <2>2, <2>3, TypesDiffer
<1> QED
  BY <1>2, <1>3, <1>4, <1>5, <1>6, FaTypeCases

\* What a request has read stays what it is; a book without an acquisition gets no other line.
LEMMA LineStays == faMethod' = faMethod => \A l : LineOk(l)' <=> LineOk(l)
<1> SUFFICES ASSUME faMethod' = faMethod PROVE \A l : LineOk(l)' <=> LineOk(l)
  OBVIOUS
<1>1. \A b, day : Due(b, day)' = Due(b, day)
  BY DEF Due, PeriodAmount
<1> QED
  BY <1>1 DEF LineOk

LEMMA DeskStays ==
    ASSUME NEW d, DeskOk(d), faMethod' = faMethod, DOMAIN drafts \subseteq DOMAIN drafts',
           faMarks' = {} => /\ faMarks = {}
                            /\ book.disposed \/ book.cost > 0 => book'.disposed \/ book'.cost > 0
    PROVE  DeskOk(d)'
<1>1. \A b, day : Due(b, day)' = Due(b, day)
  BY DEF Due, PeriodAmount
<1>2. CASE d = <<>>
  BY <1>2 DEF DeskOk
<1>3. CASE \E day \in Int, b \in FaBook : d = <<"look", day, b>>
  BY <1>3, Zenon DEF DeskOk
<1>4. CASE \E day \in Int, b \in FaBook : d = <<"draft", day, b>> /\ Due(b, day) # 0
  <2>1. \E day \in Int, b \in FaBook : d = <<"draft", day, b>> /\ Due(b, day)' # 0
    BY <1>1, <1>4, Zenon
  <2> QED
    BY <2>1, Zenon DEF DeskOk
<1>5. CASE \E i \in Nat, l \in FaLine, b \in FaBook :
              /\ d = <<"post", i, l, b>> /\ LineOk(l) /\ ~b.disposed
              /\ i = 0 => l.type \in {Acquisition, "Disposal"} /\ l.of = <<>>
              /\ i # 0 => i \in DOMAIN drafts
              /\ faMarks = {} => l.type = Acquisition \/ book.disposed \/ book.cost > 0
  <2>1. PICK i \in Nat, l \in FaLine, b \in FaBook :
              /\ d = <<"post", i, l, b>> /\ LineOk(l) /\ ~b.disposed
              /\ i = 0 => l.type \in {Acquisition, "Disposal"} /\ l.of = <<>>
              /\ i # 0 => i \in DOMAIN drafts
              /\ faMarks = {} => l.type = Acquisition \/ book.disposed \/ book.cost > 0
    BY <1>5
  <2>2. /\ d = <<"post", i, l, b>> /\ LineOk(l)' /\ ~b.disposed
        /\ i = 0 => l.type \in {Acquisition, "Disposal"} /\ l.of = <<>>
        /\ i # 0 => i \in DOMAIN drafts'
        /\ faMarks' = {} => l.type = Acquisition \/ book'.disposed \/ book'.cost > 0
    BY <2>1, LineStays
  <2> QED
    BY <2>2, Zenon DEF DeskOk
<1> QED
  BY <1>2, <1>3, <1>4, <1>5, Zenon DEF DeskOk

\* A step that posts nothing: it may enter lines, and read.
LEMMA ReadingKeeps ==
    ASSUME FaInv, UNCHANGED <<faMethod, book, faGl, faLedger, faMarks>>,
           drafts' \in Seq(FaLine), DOMAIN drafts \subseteq DOMAIN drafts',
           PostedLines(drafts') = PostedLines(drafts), \A i \in DOMAIN drafts' : LineOk(drafts'[i]),
           faDesk' = [k \in Keepers |-> faDesk'[k]],
           \A k \in Keepers : faDesk'[k] = faDesk[k] \/ DeskOk(faDesk'[k])
    PROVE  FaInv'
<1>2. \A l : LineOk(l)' <=> LineOk(l)
  BY LineStays
<1>3. ASSUME NEW d, DeskOk(d) PROVE DeskOk(d)'
  BY <1>3, DeskStays
<1>4. \A k \in Keepers : DeskOk(faDesk[k])
  BY DEF FaInv, FaTypesHold
<1>5. \A k \in Keepers : DeskOk(faDesk'[k])
  BY <1>4
<1>6. ASSUME NEW k \in Keepers PROVE DeskOk(faDesk[k])'
  <2>1. PICK d : d = faDesk'[k]
    OBVIOUS
  <2>2. DeskOk(d)
    BY <1>5, <2>1
  <2>3. DeskOk(d)'
    BY <1>3, <2>2
  <2> QED
    BY <2>1, <2>3, Zenon DEF DeskOk
<1>7. ASSUME NEW i \in DOMAIN drafts' PROVE LineOk(drafts[i])'
  <2>1. PICK l : l = drafts'[i]
    OBVIOUS
  <2>2. LineOk(l)'
    BY <1>2, <2>1
  <2> QED
    BY <2>1, <2>2, Zenon DEF LineOk
<1>8. FaTypesHold'
  BY <1>6, <1>7 DEF FaInv, FaTypesHold
<1>9. BookAgrees'
  BY DEF FaInv, BookAgrees
<1>10. Steady'
  BY DEF FaInv, Steady, SteadyBook, OnTheLine
<1> QED
  BY <1>8, <1>9, <1>10 DEF FaInv

LEMMA LineMade ==
    ASSUME NEW t \in FaTypes, NEW a \in Int, NEW day \in Int, NEW of \in Ofs, NEW l, l = Draft(t, a, day, of)
    PROVE  l \in FaLine /\ l.type = t /\ l.amount = a /\ l.day = day /\ l.of = of /\ ~l.posted
BY DEF Draft, FaLine

LEMMA LineEntered ==
    ASSUME FaInv, NEW l \in FaLine, LineOk(l), ~l.posted, drafts' = Append(drafts, l)
    PROVE  /\ drafts' \in Seq(FaLine) /\ DOMAIN drafts \subseteq DOMAIN drafts'
           /\ PostedLines(drafts') = PostedLines(drafts) /\ \A i \in DOMAIN drafts' : LineOk(drafts'[i])
<1>0. PICK R : R = drafts'
  OBVIOUS
<1>1. PICK Q \in Seq(FaLine) : Q = drafts /\ R = drafts'
  BY <1>0 DEF FaInv, FaTypesHold
<1>2. R = Append(Q, l) /\ \A i \in DOMAIN Q : LineOk(Q[i])
  BY <1>1 DEF FaInv, FaTypesHold
<1>3. /\ R \in Seq(FaLine) /\ DOMAIN R = DOMAIN Q \cup {Len(Q) + 1} /\ R[Len(Q) + 1] = l
      /\ Len(Q) + 1 \notin DOMAIN Q /\ \A i \in DOMAIN Q : R[i] = Q[i]
  BY <1>2
<1>4. \A i \in DOMAIN R : R[i].posted <=> i \in DOMAIN Q /\ Q[i].posted
  <2> SUFFICES ASSUME NEW i \in DOMAIN R PROVE R[i].posted <=> i \in DOMAIN Q /\ Q[i].posted
    OBVIOUS
  <2>1. CASE i \in DOMAIN Q
    BY <1>3, <2>1
  <2>2. CASE i \notin DOMAIN Q
    <3>1. R[i] = l
      BY <1>3, <2>2
    <3> QED
      BY <2>2, <3>1
  <2> QED
    BY <2>1, <2>2
<1>5. PostedLines(R) = PostedLines(Q)
  BY <1>3, <1>4 DEF PostedLines
<1>6. \A i \in DOMAIN R : LineOk(R[i])
  <2> SUFFICES ASSUME NEW i \in DOMAIN R PROVE LineOk(R[i])
    OBVIOUS
  <2>1. (i \in DOMAIN Q /\ R[i] = Q[i]) \/ R[i] = l
    BY <1>3
  <2> QED
    BY <1>2, <2>1
<1>7. DOMAIN Q \subseteq DOMAIN R
  BY <1>3
<1> QED
  BY <1>1, <1>3, <1>5, <1>6, <1>7

LEMMA NoBookNamed == <<>> \in Ofs
BY DEF Ofs

LEMMA DeskingKeeps ==
    ASSUME FaInv, UNCHANGED <<faMethod, book, faGl, faLedger, faMarks, drafts>>,
           NEW k \in Keepers, NEW d, DeskOk(d), faDesk' = [faDesk EXCEPT ![k] = d]
    PROVE  FaInv'
<1>1. faDesk = [r \in Keepers |-> faDesk[r]]
  BY DEF FaInv, FaTypesHold
<1>2. faDesk' = [r \in Keepers |-> faDesk'[r]] /\ faDesk'[k] = d /\ \A r \in Keepers \ {k} : faDesk'[r] = faDesk[r]
  BY <1>1
<1>3. /\ drafts' \in Seq(FaLine) /\ DOMAIN drafts \subseteq DOMAIN drafts'
      /\ PostedLines(drafts') = PostedLines(drafts) /\ \A i \in DOMAIN drafts' : LineOk(drafts'[i])
  BY DEF FaInv, FaTypesHold
<1> QED
  BY <1>2, <1>3, ReadingKeeps

LEMMA NothingOnDesk == DeskOk(<<>>)
BY DEF DeskOk

\* Lines entered by hand or drafted, and what requests read.
LEMMA EnterLineKeeps ==
    ASSUME FaInv, NEW entry \in EnteredByHand, EnterLine(entry[1], entry[2])
    PROVE  FaInv'
<1>1. PICK type \in FaTypes, day \in Int : type = entry[1] /\ day = entry[2]
  BY AssetAssumption
<1>2. PICK a \in Int : a = IF type = Acquisition THEN Cost ELSE Step
  BY AssetAssumption
<1>3. PICK l : l = Draft(type, a, day, <<>>)
  OBVIOUS
<1>4. l \in FaLine /\ l.type = type /\ l.amount = a /\ l.of = <<>> /\ ~l.posted
  <2>1. PICK of \in Ofs : of = <<>>
    BY NoBookNamed
  <2>2. l = Draft(type, a, day, of)
    BY <1>3, <2>1
  <2>3. l \in FaLine
    BY <2>2, LineMade, Zenon
  <2> QED
    BY <1>3, <2>3 DEF Draft
<1>5. LineOk(l)
  BY <1>2, <1>4, TypesDiffer DEF LineOk
<1>6. drafts' = Append(drafts, l) /\ UNCHANGED <<faMethod, book, faGl, faLedger, faDesk, faMarks>>
  BY <1>1, <1>2, <1>3 DEF EnterLine
<1>7. faDesk' = [k \in Keepers |-> faDesk'[k]]
  BY <1>6 DEF FaInv, FaTypesHold
<1> QED
  BY <1>4, <1>5, <1>6, <1>7, LineEntered, ReadingKeeps

LEMMA CalculateKeeps ==
    ASSUME FaInv, NEW k \in Keepers, NEW day \in Days, Calculate(k, day)
    PROVE  FaInv'
<1>1. PICK d : d = <<"look", day, book>>
  OBVIOUS
<1>2. day \in Int /\ book \in FaBook
  BY AssetAssumption DEF FaInv, FaTypesHold
<1>3. DeskOk(d)
  BY <1>1, <1>2, Zenon DEF DeskOk
<1>4. faDesk' = [faDesk EXCEPT ![k] = d] /\ UNCHANGED <<faMethod, book, faGl, faLedger, faMarks, drafts>>
  BY <1>1 DEF Calculate
<1> QED
  BY <1>3, <1>4, DeskingKeeps

LEMMA LookForLineKeeps ==
    ASSUME FaInv, NEW k \in Keepers, LookForLine(k)
    PROVE  FaInv'
<1>1. PICK e : e = faDesk[k]
  OBVIOUS
<1>2. e # <<>> /\ e[1] = "look" /\ DeskOk(e)
  BY <1>1 DEF LookForLine, FaInv, FaTypesHold
<1>3. PICK day \in Int, b \in FaBook : e = <<"look", day, b>>
  BY <1>2 DEF DeskOk
<1>4. PICK d : /\ faDesk' = [faDesk EXCEPT ![k] = d]
               /\ d = <<>> \/ (d = <<"draft", day, b>> /\ Due(b, day) # 0)
  <2> DEFINE found == \E i \in DOMAIN drafts :
                 drafts[i].type = "Depreciation" /\ ~drafts[i].posted /\ drafts[i].day = day
  <2>1. faDesk' = [faDesk EXCEPT ![k] =
                IF found \/ Due(b, day) = 0 THEN <<>> ELSE <<"draft", day, b>>]
    BY <1>1, <1>3 DEF LookForLine
  <2> HIDE DEF found
  <2> QED
    BY <2>1
<1>5. DeskOk(d)
  BY <1>4, Zenon DEF DeskOk
<1>6. UNCHANGED <<faMethod, book, faGl, faLedger, faMarks, drafts>>
  BY DEF LookForLine
<1> QED
  BY <1>4, <1>5, <1>6, DeskingKeeps

LEMMA DraftLineKeeps ==
    ASSUME FaInv, NEW k \in Keepers, DraftLine(k)
    PROVE  FaInv'
<1>1. PICK e : e = faDesk[k]
  OBVIOUS
<1>2. e # <<>> /\ e[1] = "draft" /\ DeskOk(e)
  BY <1>1 DEF DraftLine, FaInv, FaTypesHold
<1>3. PICK day \in Int, b \in FaBook : e = <<"draft", day, b>> /\ Due(b, day) # 0
  BY <1>2 DEF DeskOk
<1>4. PICK a \in Int : a = Due(b, day)
  BY <1>3, WhatIsDue
<1>5. PICK l : l = Draft("Depreciation", a, day, <<b>>)
  OBVIOUS
<1>6. "Depreciation" \in FaTypes /\ <<b>> \in Ofs
  BY DEF FaTypes, Ofs
<1>7. l \in FaLine /\ l.type = "Depreciation" /\ l.amount = a /\ l.day = day /\ l.of = <<b>> /\ ~l.posted
  <2>1. PICK type \in FaTypes, of \in Ofs : type = "Depreciation" /\ of = <<b>>
    BY <1>6
  <2>2. l = Draft(type, a, day, of)
    BY <1>5, <2>1
  <2>3. l \in FaLine
    BY <2>2, LineMade, Zenon
  <2> QED
    BY <1>5, <2>3 DEF Draft
<1>8. LineOk(l)
  BY <1>3, <1>4, <1>7, TypesDiffer DEF LineOk
<1>9. /\ drafts' = Append(drafts, l) /\ faDesk' = [faDesk EXCEPT ![k] = <<>>]
      /\ UNCHANGED <<faMethod, book, faGl, faLedger, faMarks>>
  BY <1>1, <1>3, <1>4, <1>5 DEF DraftLine
<1>10. /\ faDesk' = [r \in Keepers |-> faDesk'[r]]
       /\ \A r \in Keepers : faDesk'[r] = faDesk[r] \/ DeskOk(faDesk'[r])
  <2>1. faDesk = [r \in Keepers |-> faDesk[r]]
    BY DEF FaInv, FaTypesHold
  <2>2. \A r \in Keepers : faDesk'[r] = faDesk[r] \/ faDesk'[r] = <<>>
    BY <1>9, <2>1
  <2> QED
    BY <1>9, <2>1, <2>2, NothingOnDesk
<1> QED
  BY <1>7, <1>8, <1>9, <1>10, LineEntered, ReadingKeeps

LEMMA BeginLineKeeps ==
    ASSUME FaInv, NEW k \in Keepers, NEW i \in DOMAIN drafts, BeginLine(k, i)
    PROVE  FaInv'
<1>1. PICK l : l = drafts[i]
  OBVIOUS
<1>2. /\ i \in Nat /\ i # 0 /\ l \in FaLine /\ LineOk(l) /\ book \in FaBook
  BY <1>1 DEF FaInv, FaTypesHold
<1>3. PICK d : d = <<"post", i, l, book>>
  OBVIOUS
<1>4. ~book.disposed /\ (l.type = Acquisition \/ book.cost > 0)
  BY <1>1 DEF BeginLine
<1>5. DeskOk(d)
  BY <1>2, <1>3, <1>4, Zenon DEF DeskOk
<1>6. faDesk' = [faDesk EXCEPT ![k] = d] /\ UNCHANGED <<faMethod, book, faGl, faLedger, faMarks, drafts>>
  BY <1>1, <1>3 DEF BeginLine
<1> QED
  BY <1>5, <1>6, DeskingKeeps

LEMMA BeginDocumentKeeps ==
    ASSUME FaInv, NEW k \in Keepers, NEW type \in {"Disposal", Acquisition}, BeginDocument(k, type)
    PROVE  FaInv'
<1>1. type \in FaTypes /\ Cost \in Int /\ 0 \in Int /\ 0 \in Nat /\ book \in FaBook
  BY AssetAssumption DEF FaTypes, FaInv, FaTypesHold
<1>2. PICK l : l = Draft(type, Cost, 0, <<>>)
  OBVIOUS
<1>3. l \in FaLine /\ l.type = type /\ l.amount = Cost /\ l.of = <<>>
  <2>1. PICK of \in Ofs : of = <<>>
    BY NoBookNamed
  <2>2. PICK a \in Int, day \in Int : a = Cost /\ day = 0
    BY <1>1
  <2>3. l = Draft(type, a, day, of)
    BY <1>2, <2>1, <2>2
  <2>4. l \in FaLine
    BY <1>1, <2>3, LineMade, Zenon
  <2> QED
    BY <1>2, <2>4 DEF Draft
<1>4. LineOk(l)
  BY <1>3, TypesDiffer DEF LineOk
<1>5. PICK d : d = <<"post", 0, l, book>>
  OBVIOUS
<1>6. ~book.disposed /\ (l.type = Acquisition \/ book.cost > 0)
  BY <1>3 DEF BeginDocument
<1>7. DeskOk(d)
  <2>1. /\ d = <<"post", 0, l, book>> /\ LineOk(l) /\ ~book.disposed
        /\ 0 = 0 => l.type \in {Acquisition, "Disposal"} /\ l.of = <<>>
        /\ 0 # 0 => 0 \in DOMAIN drafts
        /\ faMarks = {} => l.type = Acquisition \/ book.disposed \/ book.cost > 0
    BY <1>3, <1>4, <1>5, <1>6
  <2> QED
    BY <1>1, <1>3, <2>1, Zenon DEF DeskOk
<1>8. faDesk' = [faDesk EXCEPT ![k] = d] /\ UNCHANGED <<faMethod, book, faGl, faLedger, faMarks, drafts>>
  BY <1>2, <1>5 DEF BeginDocument
<1> QED
  BY <1>7, <1>8, DeskingKeeps

LEMMA GiveUpKeeps ==
    ASSUME FaInv, NEW k \in Keepers, GiveUp(k)
    PROVE  FaInv'
BY NothingOnDesk, DeskingKeeps DEF GiveUp

-----------------------------------------------------------------------------
(* What a posting leaves.                                                   *)

Posts(i, l, b, d, B, C) ==
    C = [cost |-> B.cost + d.cost, accum |-> B.accum + d.accum, down |-> B.down + d.down, up |-> B.up + d.up,
         value |-> IF i = 0 /\ l.type = "Disposal" THEN 0 ELSE B.value + d.value,
         disposed |-> IF i = 0 THEN l.type = "Disposal" \/ B.disposed ELSE l.type = "Disposal",
         last |-> IF l.type = "Depreciation" THEN l.day ELSE B.last]

LEMMA BookFields ==
    ASSUME NEW b \in FaBook
    PROVE  /\ b.cost \in Int /\ b.accum \in Int /\ b.down \in Int /\ b.up \in Int /\ b.value \in Int
           /\ b.disposed \in BOOLEAN /\ b.last \in Int
BY DEF FaBook

LEMMA PostedFields ==
    ASSUME NEW i, NEW l, NEW b, NEW d, NEW B, NEW C, Posts(i, l, b, d, B, C)
    PROVE  /\ C.cost = B.cost + d.cost /\ C.accum = B.accum + d.accum /\ C.down = B.down + d.down
           /\ C.up = B.up + d.up
           /\ C.value = IF i = 0 /\ l.type = "Disposal" THEN 0 ELSE B.value + d.value
           /\ C.disposed = IF i = 0 THEN l.type = "Disposal" \/ B.disposed ELSE l.type = "Disposal"
           /\ C.last = IF l.type = "Depreciation" THEN l.day ELSE B.last
BY DEF Posts

\* The book remains one.
LEMMA PostedBook ==
    ASSUME NEW i \in Nat, NEW l \in FaLine, NEW b \in FaBook, NEW d, d = FaDelta(l.type, l.amount, b),
           NEW B \in FaBook, NEW C, Posts(i, l, b, d, B, C)
    PROVE  C \in FaBook
<1>1. l.type \in FaTypes /\ l.amount \in Int /\ l.day \in Int
  BY DEF FaLine
<1>2. d.cost \in Int /\ d.accum \in Int /\ d.down \in Int /\ d.up \in Int /\ d.value \in Int
  BY <1>1, WhatIsAdded
<1>3. /\ B.cost \in Int /\ B.accum \in Int /\ B.down \in Int /\ B.up \in Int /\ B.value \in Int
      /\ B.disposed \in BOOLEAN /\ B.last \in Int
  BY BookFields
<1>4. B.cost + d.cost \in Int
  BY <1>2, <1>3
<1>5. B.accum + d.accum \in Int
  BY <1>2, <1>3
<1>6. B.down + d.down \in Int
  BY <1>2, <1>3
<1>7. B.up + d.up \in Int
  BY <1>2, <1>3
<1>8. B.value + d.value \in Int
  BY <1>2, <1>3
<1>9. PICK v \in Int, f \in BOOLEAN, last \in Int :
           /\ v = IF i = 0 /\ l.type = "Disposal" THEN 0 ELSE B.value + d.value
           /\ f = IF i = 0 THEN l.type = "Disposal" \/ B.disposed ELSE l.type = "Disposal"
           /\ last = IF l.type = "Depreciation" THEN l.day ELSE B.last
  <2>1. (IF i = 0 /\ l.type = "Disposal" THEN 0 ELSE B.value + d.value) \in Int
    BY <1>8
  <2>2. (IF i = 0 THEN l.type = "Disposal" \/ B.disposed ELSE l.type = "Disposal") \in BOOLEAN
    BY <1>3
  <2>3. (IF l.type = "Depreciation" THEN l.day ELSE B.last) \in Int
    BY <1>1, <1>3
  <2> QED
    BY <2>1, <2>2, <2>3, Zenon
<1>10. C = [cost |-> B.cost + d.cost, accum |-> B.accum + d.accum, down |-> B.down + d.down, up |-> B.up + d.up,
            value |-> v, disposed |-> f, last |-> last]
  BY <1>9 DEF Posts
<1> QED
  BY <1>4, <1>5, <1>6, <1>7, <1>9, <1>10 DEF FaBook

\* What a disposal compared is every field but the last date.
LEMMA SameBook ==
    ASSUME NEW B \in FaBook, NEW b \in FaBook, [B EXCEPT !.last = 0] = [b EXCEPT !.last = 0]
    PROVE  /\ B.cost = b.cost /\ B.accum = b.accum /\ B.down = b.down /\ B.up = b.up /\ B.value = b.value
           /\ B.disposed = b.disposed
<1>1. /\ [B EXCEPT !.last = 0].cost = B.cost /\ [B EXCEPT !.last = 0].accum = B.accum
      /\ [B EXCEPT !.last = 0].down = B.down /\ [B EXCEPT !.last = 0].up = B.up
      /\ [B EXCEPT !.last = 0].value = B.value /\ [B EXCEPT !.last = 0].disposed = B.disposed
  BY DEF FaBook
<1>2. /\ [b EXCEPT !.last = 0].cost = b.cost /\ [b EXCEPT !.last = 0].accum = b.accum
      /\ [b EXCEPT !.last = 0].down = b.down /\ [b EXCEPT !.last = 0].up = b.up
      /\ [b EXCEPT !.last = 0].value = b.value /\ [b EXCEPT !.last = 0].disposed = b.disposed
  BY DEF FaBook
<1> QED
  BY <1>1, <1>2

\* Books, ledger and accounts that agree still do after a posting of what was read.
LEMMA PostingAgrees ==
    ASSUME NEW i \in Nat, NEW l \in FaLine, NEW b \in FaBook, NEW d, d = FaDelta(l.type, l.amount, b),
           NEW B \in FaBook, NEW C, Posts(i, l, b, d, B, C),
           NEW g \in [cost : Int, accum : Int], NEW g1, NEW n \in Int,
           B.value = n, B.value = B.cost + B.accum + B.down + B.up,
           g = [cost |-> B.cost + B.up, accum |-> B.accum + B.down],
           g1 = [cost |-> g.cost + d.cost + d.up, accum |-> g.accum + d.accum + d.down],
           ~b.disposed,
           l.type = "Disposal" => [B EXCEPT !.last = 0] = [b EXCEPT !.last = 0],
           l.type # "Disposal" => ~B.disposed
    PROVE  /\ C.value = n + d.value /\ C.value = C.cost + C.accum + C.down + C.up
           /\ g1 = [cost |-> C.cost + C.up, accum |-> C.accum + C.down]
           /\ C.disposed => C.value = 0 /\ C.cost = 0
<1>1. l.type \in FaTypes /\ l.amount \in Int
  BY DEF FaLine
<1>2. /\ d.cost \in Int /\ d.accum \in Int /\ d.down \in Int /\ d.up \in Int /\ d.value \in Int
      /\ l.type # "Disposal" => d.value = d.cost + d.accum + d.down + d.up
      /\ l.type = "Disposal" => /\ d.cost = -b.cost /\ d.accum = -b.accum /\ d.down = -b.down
                                /\ d.up = -b.up /\ d.value = -b.value
  BY <1>1, WhatIsAdded
<1>3. /\ B.cost \in Int /\ B.accum \in Int /\ B.down \in Int /\ B.up \in Int /\ B.value \in Int
      /\ B.disposed \in BOOLEAN
  BY BookFields
<1>4. /\ C.cost = B.cost + d.cost /\ C.accum = B.accum + d.accum /\ C.down = B.down + d.down
      /\ C.up = B.up + d.up
      /\ C.value = IF i = 0 /\ l.type = "Disposal" THEN 0 ELSE B.value + d.value
      /\ C.disposed = IF i = 0 THEN l.type = "Disposal" \/ B.disposed ELSE l.type = "Disposal"
  BY PostedFields
<1>5. g1.cost = C.cost + C.up /\ g1.accum = C.accum + C.down
  <2>1. g.cost = B.cost + B.up /\ g.accum = B.accum + B.down
    OBVIOUS
  <2>2. g1.cost = g.cost + d.cost + d.up /\ g1.accum = g.accum + d.accum + d.down
    OBVIOUS
  <2>3. g1.cost = C.cost + C.up
    BY <1>2, <1>3, <1>4, <2>1, <2>2
  <2>4. g1.accum = C.accum + C.down
    BY <1>2, <1>3, <1>4, <2>1, <2>2
  <2> QED
    BY <2>3, <2>4
<1>6. g1 = [cost |-> C.cost + C.up, accum |-> C.accum + C.down]
  <2>1. g1 = [cost |-> g1.cost, accum |-> g1.accum]
    OBVIOUS
  <2> QED
    BY <1>5, <2>1
<1>7. CASE l.type = "Disposal"
  <2>1. B.cost = b.cost /\ B.accum = b.accum /\ B.down = b.down /\ B.up = b.up /\ B.value = b.value
    BY <1>7, SameBook
  <2>2. C.cost = 0 /\ C.accum = 0 /\ C.down = 0 /\ C.up = 0
    BY <1>2, <1>3, <1>4, <1>7, <2>1
  <2>3. B.value + d.value = 0
    BY <1>2, <1>3, <1>7, <2>1
  <2>4. C.value = 0
    BY <1>4, <2>3
  <2> QED
    BY <1>6, <2>2, <2>3, <2>4
<1>8. CASE l.type # "Disposal"
  <2>1. ~C.disposed /\ C.value = B.value + d.value
    BY <1>4, <1>8
  <2>2. C.value = C.cost + C.accum + C.down + C.up
    <3>1. d.value = d.cost + d.accum + d.down + d.up /\ B.value = B.cost + B.accum + B.down + B.up
      BY <1>2, <1>8
    <3>2. PICK a1 \in Int, a2 \in Int, a3 \in Int, a4 \in Int, a5 \in Int :
              a1 = B.cost /\ a2 = B.accum /\ a3 = B.down /\ a4 = B.up /\ a5 = B.value
      BY <1>3
    <3>3. PICK d1 \in Int, d2 \in Int, d3 \in Int, d4 \in Int, d5 \in Int :
              d1 = d.cost /\ d2 = d.accum /\ d3 = d.down /\ d4 = d.up /\ d5 = d.value
      BY <1>2
    <3>4. C.value = a5 + d5 /\ C.cost = a1 + d1 /\ C.accum = a2 + d2 /\ C.down = a3 + d3 /\ C.up = a4 + d4
      BY <1>4, <2>1, <3>2, <3>3
    <3>5. d5 = d1 + d2 + d3 + d4 /\ a5 = a1 + a2 + a3 + a4
      BY <3>1, <3>2, <3>3
    <3> QED
      BY <3>4, <3>5
  <2> QED
    BY <1>6, <2>1, <2>2
<1> QED
  BY <1>7, <1>8

\* A book that is steady stays so after a line posted on the book it was made of.
LEMMA PostingIsSteady ==
    ASSUME NEW B \in FaBook, NEW n \in Nat, SteadyBook(B, n), NEW i \in Nat, NEW l \in FaLine, LineOk(l),
           NEW b \in FaBook, NEW d, d = FaDelta(l.type, l.amount, b), NEW C, Posts(i, l, b, d, B, C), ~C.disposed,
           l.type # Acquisition => B.cost > 0,
           l.type = "Depreciation" => l.of = <<B>>,
           NEW m \in Nat, m >= n, l.type = "Depreciation" => m = n + 1
    PROVE  SteadyBook(C, m)
<1>1. l.type \in FaTypes /\ l.amount \in Int /\ l.day \in Int
  BY DEF FaLine
<1>2. /\ B.cost \in Int /\ B.accum \in Int /\ B.down \in Int /\ B.up \in Int /\ B.value \in Int
      /\ B.last \in Int
  BY BookFields
<1>3. /\ C.cost = B.cost + d.cost /\ C.accum = B.accum + d.accum /\ C.down = B.down + d.down
      /\ C.up = B.up + d.up
      /\ C.value = IF i = 0 /\ l.type = "Disposal" THEN 0 ELSE B.value + d.value
      /\ C.disposed = IF i = 0 THEN l.type = "Disposal" \/ B.disposed ELSE l.type = "Disposal"
      /\ C.last = IF l.type = "Depreciation" THEN l.day ELSE B.last
  BY PostedFields
<1>4. l.type # "Disposal"
  BY <1>3
<1>5. /\ d.cost \in Int /\ d.accum \in Int /\ d.down \in Int /\ d.up \in Int
      /\ d.value = d.cost + d.accum + d.down + d.up
      /\ l.type = Acquisition => d.cost = l.amount /\ d.accum = 0 /\ d.down = 0 /\ d.up = 0
      /\ l.type = "Depreciation" => d.cost = 0 /\ d.accum = -l.amount /\ d.down = 0 /\ d.up = 0
      /\ l.type = "Write-Down" => d.cost = 0 /\ d.accum = 0 /\ d.down = -l.amount /\ d.up = 0
      /\ l.type = "Appreciation" => d.cost = 0 /\ d.accum = 0 /\ d.down = 0 /\ d.up = l.amount
  <2>1. PICK t \in FaTypes, a \in Int : t = l.type /\ a = l.amount
    BY <1>1
  <2>2. d = FaDelta(t, a, b)
    BY <2>1
  <2>3. /\ d.cost \in Int /\ d.accum \in Int /\ d.down \in Int /\ d.up \in Int
        /\ t # "Disposal" => d.value = d.cost + d.accum + d.down + d.up
        /\ t = Acquisition => d.cost = a /\ d.accum = 0 /\ d.down = 0 /\ d.up = 0
        /\ t = "Depreciation" => d.cost = 0 /\ d.accum = -a /\ d.down = 0 /\ d.up = 0
        /\ t = "Write-Down" => d.cost = 0 /\ d.accum = 0 /\ d.down = -a /\ d.up = 0
        /\ t = "Appreciation" => d.cost = 0 /\ d.accum = 0 /\ d.down = 0 /\ d.up = a
    BY <2>2, WhatIsAdded
  <2> QED
    BY <1>4, <2>1, <2>3
<1>6. /\ Cost \in Nat \ {0} /\ Step \in Nat \ {0} /\ Life \in Nat \ {0}
      /\ Salvage \in Nat /\ FinalRounding \in Nat
  BY AssetAssumption
<1>7. /\ B.cost >= 0 /\ B.up >= 0 /\ B.down <= 0
      /\ B.cost = 0 => B.accum = 0 /\ B.down = 0 /\ B.up = 0 /\ B.value = 0 /\ B.last = 0
      /\ B.down = 0 => B.value >= Salvage \/ B.accum = 0
      /\ faMethod = "Straight-Line" /\ B.down = 0 /\ B.up = 0 /\ B.cost = Cost => OnTheLine(B, n)
  BY Zenon DEF SteadyBook
<1>8. CASE l.type = Acquisition
  <2>1. d.cost = Cost /\ d.accum = 0 /\ d.down = 0 /\ d.up = 0 /\ d.value = Cost
    <3>1. l.amount = Cost
      BY <1>8 DEF LineOk
    <3> QED
      BY <1>5, <1>6, <1>8, <3>1
  <2>2. C.cost = B.cost + Cost /\ C.accum = B.accum /\ C.down = B.down /\ C.up = B.up
    BY <1>2, <1>3, <2>1
  <2>3. C.value = B.value + Cost /\ C.last = B.last
    BY <1>3, <1>4, <1>8, <2>1, TypesDiffer
  <2>4. C.cost >= 0 /\ C.cost # 0 /\ C.up >= 0 /\ C.down <= 0
    BY <1>2, <1>6, <1>7, <2>2
  <2>5. C.down = 0 => C.value >= Salvage \/ C.accum = 0
    BY <1>2, <1>6, <1>7, <2>2, <2>3
  <2>6. ASSUME faMethod = "Straight-Line", C.down = 0, C.up = 0, C.cost = Cost PROVE OnTheLine(C, m)
    <3>1. B.cost = 0
      BY <1>2, <1>6, <2>2, <2>6
    <3>2. C.accum = 0 /\ C.last = 0
      BY <1>7, <2>2, <2>3, <3>1
    <3>3. PICK y \in Nat : y = IF C.value = Salvage THEN 2 * FinalRounding ELSE 0
      BY <1>6
    <3>4. Life * (-C.accum) = 0 /\ (Cost - Salvage) * C.last = 0
      BY <1>6, <3>2
    <3>5. Life * (m + y) \in Nat
      BY <1>6
    <3>6. 2 * (Life * (-C.accum)) <= 2 * ((Cost - Salvage) * C.last) + Life * (m + y)
      BY <3>4, <3>5
    <3> QED
      BY <3>3, <3>6 DEF OnTheLine
  <2> QED
    BY <2>4, <2>5, <2>6, Zenon DEF SteadyBook
<1>9. CASE l.type = "Depreciation"
  <2>1. l.of = <<B>> /\ m = n + 1 /\ B.cost > 0
    BY <1>9, TypesDiffer
  <2>2. l.of # <<>> /\ l.of[1] = B
    BY <2>1
  <2>3. PICK a \in Int : a = l.amount /\ a = Due(B, l.day) /\ a # 0
    <3>1. l.amount = Due(l.of[1], l.day) /\ l.amount # 0
      BY <2>2 DEF LineOk
    <3> QED
      BY <1>1, <2>2, <3>1
  <2>4. PICK basis \in Int, day \in Int : basis = B.cost + B.down + B.up - Salvage /\ day = l.day
    BY <1>1, <1>2, <1>6
  <2>5. PICK r \in Int : r = FaRound(basis * (day - B.last), Life)
    <3>1. basis * (day - B.last) \in Int
      BY <1>2, <2>4
    <3> QED
      BY <1>6, <3>1, FaRounded
  <2>6. /\ a <= B.value - Salvage /\ B.value - Salvage > 0
        /\ faMethod = "Straight-Line" =>
              \/ a <= r
              \/ a = B.value - Salvage /\ a <= r + FinalRounding
    BY <1>1, <2>3, <2>4, <2>5, WhatIsDue
  <2>7. d.cost = 0 /\ d.accum = -a /\ d.down = 0 /\ d.up = 0 /\ d.value = -a
    BY <1>5, <1>9, <2>3
  <2>8. C.cost = B.cost /\ C.accum = B.accum - a /\ C.down = B.down /\ C.up = B.up
    <3>1. C.cost = B.cost + 0 /\ C.accum = B.accum + (-a) /\ C.down = B.down + 0 /\ C.up = B.up + 0
      BY <1>3, <2>7
    <3> QED
      BY <1>2, <3>1
  <2>9. C.value = B.value - a /\ C.last = day
    <3>1. C.value = B.value + (-a) /\ C.last = l.day
      BY <1>3, <1>4, <1>9, <2>7
    <3> QED
      BY <1>2, <2>4, <3>1
  <2>10. C.value >= Salvage
    BY <1>2, <1>6, <2>6, <2>9
  <2>11. ASSUME faMethod = "Straight-Line", C.down = 0, C.up = 0, C.cost = Cost PROVE OnTheLine(C, m)
    <3>1. B.down = 0 /\ B.up = 0 /\ B.cost = Cost /\ basis = Cost - Salvage
      BY <1>6, <2>4, <2>8, <2>11
    <3>2. OnTheLine(B, n)
      BY <1>7, <2>11, <3>1
    <3>3. 2 * (Life * (-B.accum)) <= 2 * (basis * B.last) + Life * n
      <4>1. B.value # Salvage
        BY <1>2, <1>6, <2>6
      <4>2. 2 * (Life * (-B.accum)) <= 2 * ((Cost - Salvage) * B.last) + Life * (n + 0)
        BY <3>2, <4>1 DEF OnTheLine
      <4>3. n + 0 = n
        OBVIOUS
      <4> QED
        BY <3>1, <4>2, <4>3
    <3>4. PICK e \in Nat : a <= r + e /\ (e = 0 \/ (e = FinalRounding /\ C.value = Salvage))
      <4>1. CASE a <= r
        <5>1. a <= r + 0
          BY <4>1
        <5> QED
          BY <5>1
      <4>2. CASE ~(a <= r)
        <5>1. a = B.value - Salvage /\ a <= r + FinalRounding
          BY <2>6, <2>11, <4>2
        <5>2. C.value = Salvage
          BY <1>2, <1>6, <2>9, <5>1
        <5> QED
          BY <1>6, <5>1, <5>2
      <4> QED
        BY <4>1, <4>2
    <3>5. a <= FaRound(basis * (day - B.last), Life) + e
      BY <2>5, <3>4
    <3>6. 2 * (Life * (-(B.accum - a))) <= 2 * (basis * day) + Life * (n + 1 + 2 * e)
      <4>1. PICK k \in Nat \ {0}, z \in Int, x \in Int : k = Life /\ z = B.last /\ x = B.accum
        BY <1>2, <1>6
      <4>2. 2 * (k * (-x)) <= 2 * (basis * z) + k * n /\ a <= FaRound(basis * (day - z), k) + e
        BY <3>3, <3>5, <4>1
      <4>3. 2 * (k * (-(x - a))) <= 2 * (basis * day) + k * (n + 1 + 2 * e)
        <5>1. n \in Int
          OBVIOUS
        <5> QED
          BY <4>2, <5>1, AlongTheLine
      <4> QED
        BY <4>1, <4>3
    <3>7. PICK y \in Nat : y = IF C.value = Salvage THEN 2 * FinalRounding ELSE 0
      BY <1>6
    <3>8. n + 1 + 2 * e <= m + y /\ n + 1 + 2 * e \in Int /\ m + y \in Int
      BY <1>6, <2>1, <3>4, <3>7
    <3>9. Life * (n + 1 + 2 * e) <= Life * (m + y)
      BY <1>6, <3>8, TimesAtMost
    <3>10. PICK x \in Int, p \in Int, u \in Int, v \in Int :
               /\ x = Life * (-(B.accum - a)) /\ p = basis * day
               /\ u = Life * (n + 1 + 2 * e) /\ v = Life * (m + y)
      <4>1. Life * (-(B.accum - a)) \in Int
        BY <1>2, <1>6
      <4>2. basis * day \in Int
        OBVIOUS
      <4>3. Life * (n + 1 + 2 * e) \in Int /\ Life * (m + y) \in Int
        BY <1>6, <3>8
      <4> QED
        BY <4>1, <4>2, <4>3
    <3>11. 2 * x <= 2 * p + v
      BY <3>6, <3>9, <3>10
    <3>12. 2 * (Life * (-C.accum)) <= 2 * ((Cost - Salvage) * C.last) + Life * (m + y)
      BY <2>8, <2>9, <3>1, <3>10, <3>11
    <3> QED
      BY <3>7, <3>12, Zenon DEF OnTheLine
  <2>12. C.cost >= 0 /\ C.cost # 0 /\ C.up >= 0 /\ C.down <= 0
    BY <1>2, <1>7, <2>1, <2>8
  <2> QED
    BY <2>10, <2>11, <2>12, Zenon DEF SteadyBook
<1>10. CASE l.type = "Write-Down"
  <2>1. l.amount = Step
    BY <1>10 DEF LineOk
  <2>2. d.cost = 0 /\ d.down = -Step /\ d.up = 0
    BY <1>5, <1>10, <2>1
  <2>3. C.cost = B.cost /\ C.down = B.down - Step /\ C.up = B.up
    <3>1. C.cost = B.cost + 0 /\ C.down = B.down + (-Step) /\ C.up = B.up + 0
      BY <1>3, <2>2
    <3> QED
      BY <1>2, <1>6, <3>1
  <2>4. B.cost > 0
    BY <1>10, TypesDiffer
  <2>5. C.cost >= 0 /\ C.cost # 0 /\ C.up >= 0 /\ C.down <= 0 /\ C.down # 0
    BY <1>2, <1>6, <1>7, <2>3, <2>4
  <2> QED
    BY <2>5, Zenon DEF SteadyBook
<1>11. CASE l.type = "Appreciation"
  <2>1. l.amount = Step
    BY <1>11 DEF LineOk
  <2>2. d.cost = 0 /\ d.accum = 0 /\ d.down = 0 /\ d.up = Step /\ d.value = Step
    BY <1>5, <1>6, <1>11, <2>1
  <2>3. C.cost = B.cost /\ C.accum = B.accum /\ C.down = B.down /\ C.up = B.up + Step /\ C.value = B.value + Step
    <3>1. C.cost = B.cost + 0 /\ C.accum = B.accum + 0 /\ C.down = B.down + 0 /\ C.up = B.up + Step
      BY <1>3, <2>2
    <3>2. C.value = B.value + Step
      BY <1>3, <1>4, <2>2
    <3> QED
      BY <1>2, <3>1, <3>2
  <2>4. B.cost > 0
    BY <1>11, TypesDiffer
  <2>5. C.cost >= 0 /\ C.cost # 0 /\ C.up >= 0 /\ C.down <= 0 /\ C.up # 0
    BY <1>2, <1>6, <1>7, <2>3, <2>4
  <2>6. C.down = 0 => C.value >= Salvage \/ C.accum = 0
    BY <1>2, <1>6, <1>7, <2>3
  <2> QED
    BY <2>5, <2>6, Zenon DEF SteadyBook
<1> QED
  BY <1>1, <1>4, <1>8, <1>9, <1>10, <1>11, FaTypeCases

\* The line is posted, the others stay.
WithPosted(Q, i) == [Q EXCEPT ![i].posted = TRUE]

LEMMA LinePosted ==
    ASSUME NEW Q \in Seq(FaLine), NEW i \in DOMAIN Q, NEW R, R = WithPosted(Q, i),
           \A j \in DOMAIN Q : LineOk(Q[j])
    PROVE  /\ R \in Seq(FaLine) /\ DOMAIN R = DOMAIN Q /\ \A j \in DOMAIN R : LineOk(R[j])
           /\ PostedLines(R) = PostedLines(Q) \cup {i}
<1>1. PICK q : q = [Q[i] EXCEPT !.posted = TRUE]
  OBVIOUS
<1>2. Q[i] \in FaLine /\ LineOk(Q[i]) /\ DOMAIN Q = 1 .. Len(Q) /\ i \in 1 .. Len(Q)
  OBVIOUS
<1>3. q \in FaLine /\ q.type = Q[i].type /\ q.amount = Q[i].amount /\ q.day = Q[i].day /\ q.of = Q[i].of /\ q.posted
  BY <1>1, <1>2 DEF FaLine
<1>4. LineOk(q)
  BY <1>2, <1>3, Zenon DEF LineOk
<1>5. R = [Q EXCEPT ![i] = q]
  BY <1>1 DEF WithPosted
<1>6. /\ R \in Seq(FaLine) /\ DOMAIN R = 1 .. Len(Q) /\ R[i] = q
      /\ \A j \in 1 .. Len(Q) \ {i} : R[j] = Q[j]
  <2>1. i \in 1 .. Len(Q) /\ q \in FaLine
    BY <1>2, <1>3
  <2> QED
    BY <1>5, <2>1, ElementRewritten
<1>7. \A j \in DOMAIN R : LineOk(R[j]) /\ (R[j].posted <=> Q[j].posted \/ j = i)
  <2> SUFFICES ASSUME NEW j \in 1 .. Len(Q) PROVE LineOk(R[j]) /\ (R[j].posted <=> Q[j].posted \/ j = i)
    BY <1>6
  <2>1. CASE j = i
    BY <1>3, <1>4, <1>6, <2>1
  <2>2. CASE j # i
    <3>1. R[j] = Q[j] /\ LineOk(Q[j])
      BY <1>2, <1>6, <2>2
    <3> QED
      BY <2>2, <3>1
  <2> QED
    BY <2>1, <2>2
<1>8. PostedLines(R) = PostedLines(Q) \cup {i}
  BY <1>2, <1>6, <1>7 DEF PostedLines
<1> QED
  BY <1>2, <1>6, <1>7, <1>8

LEMMA PostedLinesFinite ==
    ASSUME NEW Q \in Seq(FaLine)
    PROVE  /\ IsFiniteSet(PostedLines(Q)) /\ Cardinality(PostedLines(Q)) \in Nat
           /\ Cardinality(PostedLines(Q)) <= Len(Q)
<1>1. DOMAIN Q = 1 .. Len(Q) /\ Len(Q) \in Nat /\ Len(Q) \in Int /\ 1 \in Int
  OBVIOUS
<1>2. IsFiniteSet(1 .. Len(Q)) /\ Cardinality(1 .. Len(Q)) = Len(Q)
  <2>1. /\ IsFiniteSet(1 .. Len(Q))
        /\ Cardinality(1 .. Len(Q)) = IF 1 > Len(Q) THEN 0 ELSE Len(Q) - 1 + 1
    BY <1>1, FS_Interval, Zenon
  <2> QED
    BY <1>1, <2>1
<1>3. PostedLines(Q) \subseteq 1 .. Len(Q)
  BY <1>1 DEF PostedLines
<1>4. IsFiniteSet(PostedLines(Q)) /\ Cardinality(PostedLines(Q)) <= Cardinality(1 .. Len(Q))
  BY <1>2, <1>3, FS_Subset
<1> QED
  BY <1>2, <1>4, FS_CardinalityType

LEMMA PostFaKeeps ==
    ASSUME FaInv, NEW k \in Keepers, PostFa(k)
    PROVE  FaInv'
<1>1. PICK e : e = faDesk[k]
  OBVIOUS
<1>2. e # <<>> /\ e[1] = "post" /\ DeskOk(e)
  BY <1>1 DEF PostFa, FaInv, FaTypesHold
<1>3. PICK i \in Nat, l \in FaLine, b \in FaBook :
          /\ e = <<"post", i, l, b>> /\ LineOk(l) /\ ~b.disposed
          /\ i = 0 => l.type \in {Acquisition, "Disposal"} /\ l.of = <<>>
          /\ i # 0 => i \in DOMAIN drafts
          /\ faMarks = {} => l.type = Acquisition \/ book.disposed \/ book.cost > 0
  BY <1>2 DEF DeskOk
<1>4. PICK d : d = FaDelta(l.type, l.amount, b)
  OBVIOUS
<1>0. PICK C, R : C = book' /\ R = drafts'
  OBVIOUS
<1>5. PICK B \in FaBook, Q \in Seq(FaLine) : B = book /\ Q = drafts /\ C = book' /\ R = drafts'
  <2>1. book \in FaBook /\ drafts \in Seq(FaLine)
    BY DEF FaInv, FaTypesHold
  <2> QED
    BY <1>0, <2>1, Zenon
<1>6. e[2] = i /\ e[3] = l /\ e[4] = b
  BY <1>3
<1> DEFINE twice == i # 0 /\ Q[i].posted
           disposal == l.type = "Disposal"
           changed == [B EXCEPT !.last = 0] # [b EXCEPT !.last = 0]
<1>7. /\ Posts(i, l, b, d, B, C)
      /\ faGl' = IF twice THEN faGl ELSE [cost |-> faGl.cost + d.cost + d.up, accum |-> faGl.accum + d.accum + d.down]
      /\ faLedger' = faLedger + d.value
      /\ R = IF i = 0 THEN Q ELSE WithPosted(Q, i)
      /\ faDesk' = [faDesk EXCEPT ![k] = <<>>] /\ faMethod' = faMethod
  BY <1>1, <1>4, <1>5, <1>6 DEF PostFa, Posts, WithPosted
<1>8. faMarks' = faMarks \cup (IF twice THEN {"twice"} ELSE {})
                         \cup (IF disposal /\ changed THEN {"changed"} ELSE {})
                         \cup (IF ~disposal /\ B.disposed THEN {"revived"} ELSE {})
                         \cup (IF l.of # <<>> /\ l.of # <<B>> THEN {"stale"} ELSE {})
                         \cup (IF l.of = <<>> /\ l.type = "Depreciation" THEN {"manual"} ELSE {})
  BY <1>1, <1>5, <1>6 DEF PostFa
<1> HIDE DEF twice, disposal, changed
<1>9. l.type \in FaTypes /\ l.amount \in Int
  BY DEF FaLine
<1>10. /\ d.cost \in Int /\ d.accum \in Int /\ d.down \in Int /\ d.up \in Int /\ d.value \in Int
       /\ l.type = Acquisition => d.cost = l.amount
       /\ l.type \in {"Depreciation", "Write-Down", "Appreciation"} => d.cost = 0
  <2>1. PICK t \in FaTypes, a \in Int : t = l.type /\ a = l.amount
    BY <1>9
  <2>2. d = FaDelta(t, a, b)
    BY <1>4, <2>1
  <2>3. /\ d.cost \in Int /\ d.accum \in Int /\ d.down \in Int /\ d.up \in Int /\ d.value \in Int
        /\ t = Acquisition => d.cost = a
        /\ t = "Depreciation" => d.cost = 0
        /\ t = "Write-Down" => d.cost = 0
        /\ t = "Appreciation" => d.cost = 0
    BY <2>2, WhatIsAdded
  <2> QED
    BY <2>1, <2>3
<1>11. C \in FaBook
  BY <1>4, <1>7, PostedBook
<1>12. /\ C.cost = B.cost + d.cost
       /\ C.disposed = IF i = 0 THEN l.type = "Disposal" \/ B.disposed ELSE l.type = "Disposal"
  BY <1>7, PostedFields
<1>13. faMarks' = {} => faMarks = {} /\ (B.disposed \/ B.cost > 0 => C.disposed \/ C.cost > 0)
  <2> SUFFICES ASSUME faMarks' = {}, B.disposed \/ B.cost > 0, ~C.disposed
               PROVE  C.cost > 0
    BY <1>8
  <2>1. l.type # "Disposal" /\ ~B.disposed
    <3>1. l.type # "Disposal"
      BY <1>12
    <3> QED
      BY <1>8, <3>1 DEF disposal
  <2>2. B.cost > 0 /\ B.cost \in Int /\ d.cost \in Int /\ d.cost >= 0
    <3>1. l.type = Acquisition => d.cost = Cost /\ Cost \in Nat
      BY <1>3, <1>10, AssetAssumption DEF LineOk
    <3>2. l.type # Acquisition => d.cost = 0
      BY <1>9, <1>10, <2>1, FaTypeCases
    <3>3. B.cost \in Int
      BY BookFields
    <3> QED
      BY <1>10, <2>1, <3>1, <3>2, <3>3
  <2> QED
    BY <1>12, <2>2
<1>14. /\ R \in Seq(FaLine) /\ DOMAIN R = DOMAIN Q /\ \A j \in DOMAIN R : LineOk(R[j])
       /\ PostedLines(R) = IF i = 0 THEN PostedLines(Q) ELSE PostedLines(Q) \cup {i}
  <2>1. \A j \in DOMAIN Q : LineOk(Q[j])
    BY <1>5 DEF FaInv, FaTypesHold
  <2>2. CASE i = 0
    BY <1>7, <2>1, <2>2
  <2>3. CASE i # 0
    <3>1. i \in DOMAIN Q /\ R = WithPosted(Q, i)
      BY <1>3, <1>5, <1>7, <2>3
    <3> QED
      BY <2>1, <2>3, <3>1, LinePosted
  <2> QED
    BY <2>2, <2>3
<1>15. FaTypesHold'
  <2>1. faGl' \in [cost : Int, accum : Int] /\ faLedger' \in Int
    <3>1. faGl \in [cost : Int, accum : Int] /\ faLedger \in Int
      BY DEF FaInv, FaTypesHold
    <3>2. PICK x \in Int, y \in Int : x = faGl.cost /\ y = faGl.accum
      BY <3>1
    <3>3. x + d.cost + d.up \in Int
      BY <1>10
    <3>4. y + d.accum + d.down \in Int
      BY <1>10
    <3>5. faLedger + d.value \in Int
      BY <1>10, <3>1
    <3> QED
      BY <1>7, <3>1, <3>2, <3>3, <3>4, <3>5
  <2>2. faDesk' = [r \in Keepers |-> faDesk'[r]]
    BY <1>7 DEF FaInv, FaTypesHold
  <2>3. ASSUME NEW r \in Keepers PROVE DeskOk(faDesk[r])'
    <3>1. PICK x : x = faDesk'[r]
      OBVIOUS
    <3>2. DeskOk(x)
      <4>1. x = <<>> \/ x = faDesk[r]
        BY <1>7, <3>1 DEF FaInv, FaTypesHold
      <4>2. DeskOk(faDesk[r])
        BY DEF FaInv, FaTypesHold
      <4> QED
        BY <4>1, <4>2, NothingOnDesk
    <3>3. DeskOk(x)'
      <4>1. DOMAIN drafts \subseteq DOMAIN drafts' /\ faMethod' = faMethod
        BY <1>5, <1>7, <1>14
      <4>2. faMarks' = {} => /\ faMarks = {}
                             /\ book.disposed \/ book.cost > 0 => book'.disposed \/ book'.cost > 0
        BY <1>5, <1>13
      <4> QED
        BY <3>2, <4>1, <4>2, DeskStays
    <3> QED
      BY <3>1, <3>3, Zenon DEF DeskOk
  <2>4. ASSUME NEW j \in DOMAIN drafts' PROVE LineOk(drafts[j])'
    <3>1. PICK x : x = drafts'[j]
      OBVIOUS
    <3>2. LineOk(x)
      BY <1>5, <1>14, <3>1
    <3>3. LineOk(x)'
      BY <1>7, <3>2, LineStays
    <3> QED
      BY <3>1, <3>3, Zenon DEF LineOk
  <2>5. book' \in FaBook /\ drafts' \in Seq(FaLine)
    BY <1>5, <1>11, <1>14
  <2> QED
    BY <2>1, <2>2, <2>3, <2>4, <2>5, Zenon DEF FaTypesHold
<1>16. BookAgrees'
  <2> SUFFICES ASSUME faMarks' \cap {"twice", "changed", "revived"} = {}
               PROVE  /\ C.value = faLedger'
                      /\ C.value = C.cost + C.accum + C.down + C.up
                      /\ faGl' = [cost |-> C.cost + C.up, accum |-> C.accum + C.down]
                      /\ C.disposed => C.value = 0 /\ C.cost = 0
    BY <1>5, Zenon DEF BookAgrees
  <2>1. /\ faMarks \cap {"twice", "changed", "revived"} = {} /\ ~twice
        /\ disposal => ~changed
        /\ ~disposal => ~B.disposed
    BY <1>8
  <2>2. /\ B.value = faLedger /\ B.value = B.cost + B.accum + B.down + B.up
        /\ faGl = [cost |-> B.cost + B.up, accum |-> B.accum + B.down]
    BY <1>5, <2>1 DEF FaInv, BookAgrees
  <2>3. faGl' = [cost |-> faGl.cost + d.cost + d.up, accum |-> faGl.accum + d.accum + d.down]
    BY <1>7, <2>1
  <2>4. /\ l.type = "Disposal" => [B EXCEPT !.last = 0] = [b EXCEPT !.last = 0]
        /\ l.type # "Disposal" => ~B.disposed
    BY <2>1 DEF disposal, changed
  <2>8. PICK g1 : g1 = faGl'
    OBVIOUS
  <2>5. PICK g \in [cost : Int, accum : Int], n \in Int : g = faGl /\ n = faLedger /\ g1 = faGl'
    <3>1. faGl \in [cost : Int, accum : Int] /\ faLedger \in Int
      BY DEF FaInv, FaTypesHold
    <3> QED
      BY <2>8, <3>1, Zenon
  <2>6. /\ B.value = n /\ g = [cost |-> B.cost + B.up, accum |-> B.accum + B.down]
        /\ g1 = [cost |-> g.cost + d.cost + d.up, accum |-> g.accum + d.accum + d.down]
    BY <2>2, <2>3, <2>5
  <2>7. /\ C.value = n + d.value /\ C.value = C.cost + C.accum + C.down + C.up
        /\ g1 = [cost |-> C.cost + C.up, accum |-> C.accum + C.down]
        /\ C.disposed => C.value = 0 /\ C.cost = 0
    <3>1. Posts(i, l, b, d, B, C) /\ d = FaDelta(l.type, l.amount, b) /\ ~b.disposed
      BY <1>3, <1>4, <1>7
    <3>2. B.value = B.cost + B.accum + B.down + B.up
      BY <2>2
    <3> QED
      BY <2>4, <2>6, <3>1, <3>2, PostingAgrees
  <2> QED
    BY <1>7, <2>5, <2>7
<1>17. Steady'
  <2> SUFFICES ASSUME faMarks' = {}, ~C.disposed
               PROVE  SteadyBook(C, Cardinality(PostedLines(R)))
    <3>1. PICK m : m = Cardinality(PostedLines(R))
      OBVIOUS
    <3>2. SteadyBook(C, m)' <=> SteadyBook(C, m)
      BY <1>7 DEF SteadyBook, OnTheLine
    <3>3. m = Cardinality(PostedLines(drafts'))
      BY <1>5, <3>1
    <3> QED
      BY <1>5, <3>1, <3>2, <3>3 DEF Steady, SteadyBook, OnTheLine, PostedLines
  <2>1. l.type # "Disposal" /\ ~B.disposed /\ ~twice /\ faMarks = {}
    <3>1. l.type # "Disposal"
      BY <1>12
    <3> QED
      BY <1>8, <3>1 DEF disposal
  <2>2. /\ l.type = "Depreciation" => l.of # <<>>
        /\ l.of # <<>> => l.of = <<B>>
    BY <1>8
  <2>3. PICK n \in Nat, m \in Nat :
            /\ n = Cardinality(PostedLines(Q)) /\ m = Cardinality(PostedLines(R))
            /\ m >= n /\ (l.type = "Depreciation" => m = n + 1)
    <3>1. IsFiniteSet(PostedLines(Q)) /\ Cardinality(PostedLines(Q)) \in Nat
      BY PostedLinesFinite
    <3>2. CASE i = 0
      <4>1. l.type # "Depreciation"
        BY <1>3, <3>2, TypesDiffer
      <4> QED
        BY <1>14, <3>1, <3>2, <4>1
    <3>3. CASE i # 0
      <4>1. i \notin PostedLines(Q)
        BY <2>1, <3>3 DEF twice, PostedLines
      <4>2. Cardinality(PostedLines(Q) \cup {i}) = Cardinality(PostedLines(Q)) + 1
        BY <3>1, <4>1, FS_AddElement
      <4> QED
        BY <1>14, <3>1, <3>3, <4>2
    <3> QED
      BY <3>2, <3>3
  <2>4. SteadyBook(B, n)
    BY <1>5, <2>1, <2>3 DEF FaInv, Steady
  <2>5. l.type # Acquisition => B.cost > 0
    BY <1>3, <1>5, <2>1
  <2>6. l.type = "Depreciation" => l.of = <<B>>
    BY <2>2
  <2>7. SteadyBook(C, m)
    BY <1>3, <1>4, <1>7, <2>3, <2>4, <2>5, <2>6, PostingIsSteady
  <2> QED
    BY <2>3, <2>7
<1> QED
  BY <1>15, <1>16, <1>17 DEF FaInv

LEMMA FaInitInv == FaInit => FaInv
<1> SUFFICES ASSUME FaInit PROVE FaInv
  OBVIOUS
<1>1. /\ book = NoBook /\ faGl = [cost |-> 0, accum |-> 0] /\ faLedger = 0 /\ drafts = <<>>
      /\ faDesk = [k \in Keepers |-> <<>>] /\ faMarks = {}
  BY DEF FaInit
<1>2. /\ book.cost = 0 /\ book.accum = 0 /\ book.down = 0 /\ book.up = 0 /\ book.value = 0
      /\ ~book.disposed /\ book.last = 0 /\ book \in FaBook
  BY <1>1 DEF NoBook, FaBook
<1>3. drafts \in Seq(FaLine) /\ DOMAIN drafts = {}
  BY <1>1
<1>4. FaTypesHold
  <2>1. \A k \in Keepers : DeskOk(faDesk[k])
    BY <1>1, NothingOnDesk
  <2> QED
    BY <1>1, <1>2, <1>3, <2>1 DEF FaTypesHold
<1>5. BookAgrees
  BY <1>1, <1>2 DEF BookAgrees
<1>6. SteadyBook(book, Cardinality(PostedLines(drafts)))
  <2>1. Cost # 0
    BY AssetAssumption
  <2> QED
    BY <1>2, <2>1 DEF SteadyBook
<1> QED
  BY <1>4, <1>5, <1>6 DEF FaInv, Steady

LEMMA FaStepInv == FaInv /\ [FaNext]_faVars => FaInv'
<1> SUFFICES ASSUME FaInv, [FaNext]_faVars PROVE FaInv'
  OBVIOUS
<1>1. CASE UNCHANGED faVars
  <2>1. UNCHANGED <<faMethod, book, faGl, faLedger, faMarks, drafts, faDesk>>
    BY <1>1 DEF faVars
  <2>2. /\ drafts' \in Seq(FaLine) /\ DOMAIN drafts \subseteq DOMAIN drafts'
        /\ PostedLines(drafts') = PostedLines(drafts) /\ \A i \in DOMAIN drafts' : LineOk(drafts'[i])
        /\ faDesk' = [k \in Keepers |-> faDesk'[k]] /\ \A k \in Keepers : faDesk'[k] = faDesk[k]
    BY <2>1 DEF FaInv, FaTypesHold
  <2> QED
    BY <2>1, <2>2, ReadingKeeps
<1>2. CASE FaNext
  <2>1. \/ \E entry \in EnteredByHand : EnterLine(entry[1], entry[2])
        \/ \E k \in Keepers :
              \/ \E day \in Days : Calculate(k, day)
              \/ \E i \in DOMAIN drafts : BeginLine(k, i)
              \/ \E type \in {"Disposal", Acquisition} : BeginDocument(k, type)
              \/ LookForLine(k) \/ DraftLine(k) \/ PostFa(k) \/ GiveUp(k)
    BY <1>2, Zenon DEF FaNext
  <2>2. CASE \E entry \in EnteredByHand : EnterLine(entry[1], entry[2])
    BY <2>2, EnterLineKeeps
  <2>3. ASSUME NEW k \in Keepers,
               \/ \E day \in Days : Calculate(k, day)
               \/ \E i \in DOMAIN drafts : BeginLine(k, i)
               \/ \E type \in {"Disposal", Acquisition} : BeginDocument(k, type)
               \/ LookForLine(k) \/ DraftLine(k) \/ PostFa(k) \/ GiveUp(k)
        PROVE  FaInv'
    BY <2>3, CalculateKeeps, BeginLineKeeps, BeginDocumentKeeps, LookForLineKeeps, DraftLineKeeps,
       PostFaKeeps, GiveUpKeeps
  <2> QED
    BY <2>1, <2>2, <2>3
<1> QED
  BY <1>1, <1>2

LEMMA AssetIsSound == FaInv => AssetSound
<1> SUFFICES ASSUME FaInv PROVE AssetSound
  OBVIOUS
<1>1. PICK n \in Nat, len \in Nat : n = Cardinality(PostedLines(drafts)) /\ len = Len(drafts) /\ n <= len
  <2>1. drafts \in Seq(FaLine)
    BY DEF FaInv, FaTypesHold
  <2>2. Len(drafts) \in Nat
    BY <2>1
  <2> QED
    BY <2>1, <2>2, PostedLinesFinite
<1>2. ASSUME faMarks = {}, book.down = 0, ~book.disposed, book.cost > 0
      PROVE  /\ book.value >= Salvage \/ book.accum = 0
             /\ faMethod = "Straight-Line" /\ book.up = 0 /\ book.cost = Cost =>
                   2 * Life * (-book.accum) <=
                       2 * (book.cost - Salvage) * book.last + Life * (Len(drafts) + 2 * FinalRounding)
  <2>1. SteadyBook(book, n)
    BY <1>1, <1>2 DEF FaInv, Steady
  <2>2. book.value >= Salvage \/ book.accum = 0
    BY <1>2, <2>1, Zenon DEF SteadyBook
  <2>3. ASSUME faMethod = "Straight-Line", book.up = 0, book.cost = Cost
        PROVE  2 * Life * (-book.accum) <=
                   2 * (book.cost - Salvage) * book.last + Life * (Len(drafts) + 2 * FinalRounding)
    <3>1. OnTheLine(book, n)
      BY <1>2, <2>1, <2>3, Zenon DEF SteadyBook
    <3>2. PICK a \in Int, z \in Int, w \in Int, r \in Nat, k \in Nat \ {0} :
              a = -book.accum /\ z = book.last /\ w = Cost - Salvage /\ r = FinalRounding /\ k = Life
      <4>1. book \in FaBook
        BY DEF FaInv, FaTypesHold
      <4>2. book.accum \in Int /\ book.last \in Int /\ -book.accum \in Int
        BY <4>1, BookFields
      <4>3. Cost - Salvage \in Int
        BY AssetAssumption
      <4> QED
        BY <4>2, <4>3, AssetAssumption
    <3>3. PICK y \in Nat : y = (IF book.value = Salvage THEN 2 * r ELSE 0) /\ y <= 2 * r
      OBVIOUS
    <3>4. 2 * (k * a) <= 2 * (w * z) + k * (n + y)
      BY <3>1, <3>2, <3>3 DEF OnTheLine
    <3>5. k * (n + y) <= k * (len + 2 * r)
      <4>1. n + y <= len + 2 * r /\ n + y \in Int /\ len + 2 * r \in Int
        BY <1>1, <3>3
      <4> QED
        BY <4>1, TimesAtMost
    <3>6. 2 * (k * a) = 2 * k * a /\ 2 * (w * z) = 2 * w * z
      OBVIOUS
    <3>7. PICK p \in Int, q \in Int, u \in Int, v \in Int :
              p = k * a /\ q = w * z /\ u = k * (n + y) /\ v = k * (len + 2 * r)
      <4>1. k * a \in Int /\ w * z \in Int
        OBVIOUS
      <4>2. k * (n + y) \in Int /\ k * (len + 2 * r) \in Int
        OBVIOUS
      <4> QED
        BY <4>1, <4>2
    <3>8. 2 * p <= 2 * q + v
      BY <3>4, <3>5, <3>7
    <3>9. 2 * k * a <= 2 * w * z + k * (len + 2 * r)
      BY <3>6, <3>7, <3>8
    <3> QED
      BY <1>1, <2>3, <3>2, <3>9
  <2> QED
    BY <2>2, <2>3
<1>3. DepreciationSound
  BY <1>2 DEF DepreciationSound
<1> QED
  BY <1>3 DEF FaInv, AssetSound

-----------------------------------------------------------------------------
(* Payroll, for any number of requests and periods, any loan and instalment.*)
(*                                                                          *)
(* The inductive invariant adds to the property what a run relies on: a     *)
(* payslip never run deducts nothing, the line that a run may reduce is the *)
(* last there is, and a line that is not stopped still owes something.      *)

Statuses == {"OPEN", "PENDING_APPROVAL", "APPROVED", "CLOSED"}
PayOps == {"run", "submit", "return", "approve", "reopen", "close"}
LoanLines == {NoLine} \cup {<<r>> : r \in [balance : Int, stopped : BOOLEAN]}

PayPeriods == [name : PeriodNames, status : Statuses, ran : BOOLEAN, slip : Int, posted : Int,
               line : LoanLines]

PayTypes ==
    /\ periods \in Seq(PayPeriods)
    /\ payReads \in [PayClerks -> {<<>>} \cup (PayOps \X Nat \X Statuses)]
    /\ \A c \in PayClerks : payReads[c] # <<>> =>
          payReads[c][2] \in 1 .. Len(periods) /\ payReads[c][3] \in Demands(payReads[c][1])

ClosedIsPosted ==
    "late" \notin payMarks =>
        \A n \in Months : periods[n].status = "CLOSED" => periods[n].posted = periods[n].slip

OnePeriod ==
    payMarks \cap {"late", "beside"} = {} =>
        \A n, k \in Months : periods[n].status # "CLOSED" /\ periods[k].status # "CLOSED" => n = k

\* What the payslips of the periods in P deduct.
SlipsOf(P) == SumOver([n \in DOMAIN P |-> P[n].slip], DOMAIN P)

\* Months of P in which no later line is than in month n.
IsLast(P, n) == P[n].line # NoLine /\ \A k \in DOMAIN P : P[k].line # NoLine => k <= n

LoanInv(P) ==
    /\ \A n \in DOMAIN P : ~P[n].ran => P[n].slip = 0
    /\ \A n \in DOMAIN P : P[n].line # NoLine /\ P[n].status # "CLOSED" => IsLast(P, n)
    /\ \A n \in DOMAIN P : IsLast(P, n) =>
          /\ P[n].line[1].balance = IF Loan > SlipsOf(P) THEN Loan - SlipsOf(P) ELSE 0
          /\ ~P[n].line[1].stopped => P[n].line[1].balance > 0
    /\ SlipsOf(P) < Loan + Instalment

PayInv ==
    /\ PayTypes /\ ClosedIsPosted /\ OnePeriod
    /\ payMarks \subseteq {"beside"} => LoanInv(periods)

\* The fields of a period, and of every period of a sequence.
LEMMA PeriodIs ==
    /\ \A p \in PayPeriods : /\ p.name \in PeriodNames /\ p.status \in Statuses /\ p.ran \in BOOLEAN
                             /\ p.slip \in Int /\ p.posted \in Int /\ p.line \in LoanLines
    /\ \A P \in Seq(PayPeriods) : \A n \in 1 .. Len(P) : P[n] \in PayPeriods
<1>1. ASSUME NEW p \in PayPeriods
      PROVE  /\ p.name \in PeriodNames /\ p.status \in Statuses /\ p.ran \in BOOLEAN
             /\ p.slip \in Int /\ p.posted \in Int /\ p.line \in LoanLines
  BY DEF PayPeriods
<1> QED
  BY <1>1

\* What the payslips deduct is a whole amount, and changes with the one payslip that changes.
LEMMA SlipsChange ==
    ASSUME NEW P \in Seq(PayPeriods), NEW n \in 1 .. Len(P), NEW p \in PayPeriods
    PROVE  /\ SlipsOf(P) \in Int
           /\ SlipsOf([P EXCEPT ![n] = p]) = SlipsOf(P) + (p.slip - P[n].slip)
<1> DEFINE f == [m \in DOMAIN P |-> P[m].slip]
           Q == [P EXCEPT ![n] = p]
           g == [m \in DOMAIN Q |-> Q[m].slip]
<1>1. DOMAIN P = 1 .. Len(P) /\ DOMAIN Q = 1 .. Len(P) /\ IsFiniteSet(1 .. Len(P))
  <2>1. Len(P) \in Nat /\ DOMAIN P = 1 .. Len(P) /\ DOMAIN Q = 1 .. Len(P)
    BY ElementRewritten
  <2> QED
    BY <2>1, FS_Interval
<1>2. Q[n] = p /\ \A m \in 1 .. Len(P) \ {n} : Q[m] = P[m]
  BY ElementRewritten
<1>3. \A m \in 1 .. Len(P) : P[m].slip \in Int /\ p.slip \in Int
  BY PeriodIs
<1>4. \A m \in 1 .. Len(P) : f[m] \in Int /\ g[m] \in Int
  BY <1>1, <1>2, <1>3
<1>5. \A m \in 1 .. Len(P) \ {n} : f[m] = g[m]
  BY <1>1, <1>2
<1>6. f[n] = P[n].slip /\ g[n] = p.slip
  BY <1>1, <1>2
<1>7. SlipsOf(P) = SumOver(f, 1 .. Len(P)) /\ SlipsOf(Q) = SumOver(g, 1 .. Len(P))
  BY <1>1 DEF SlipsOf
<1> HIDE DEF f, g, Q
<1>8. SumOver(f, 1 .. Len(P)) \in Int
  BY <1>1, <1>4, SumIsInt
<1>9. SumOver(g, 1 .. Len(P)) = SumOver(f, 1 .. Len(P)) + (g[n] - f[n])
  BY <1>1, <1>4, <1>5, SumChanged
<1> QED
  BY <1>6, <1>7, <1>8, <1>9 DEF Q

\* A new period deducts nothing.
LEMMA SlipsGrow ==
    ASSUME NEW P \in Seq(PayPeriods), NEW p \in PayPeriods, p.slip = 0
    PROVE  SlipsOf(Append(P, p)) = SlipsOf(P)
<1> DEFINE f == [m \in DOMAIN P |-> P[m].slip]
           Q == Append(P, p)
           g == [m \in DOMAIN Q |-> Q[m].slip]
           new == Len(P) + 1
<1>1. /\ Len(P) \in Nat /\ DOMAIN P = 1 .. Len(P) /\ DOMAIN Q = 1 .. new
      /\ 1 .. new = (1 .. Len(P)) \cup {new} /\ new \notin 1 .. Len(P)
      /\ Q[new] = p /\ \A m \in 1 .. Len(P) : Q[m] = P[m]
  OBVIOUS
<1>2. IsFiniteSet(1 .. Len(P))
  BY <1>1, FS_Interval
<1>3. \A m \in 1 .. Len(P) : P[m].slip \in Int
  BY PeriodIs
<1>4. \A m \in 1 .. Len(P) : f[m] = g[m] /\ f[m] \in Int
  BY <1>1, <1>3
<1>5. g[new] = 0 /\ \A m \in (1 .. Len(P)) \cup {new} : g[m] \in Int
  BY <1>1, <1>3
<1>6. SlipsOf(P) = SumOver(f, 1 .. Len(P)) /\ SlipsOf(Q) = SumOver(g, (1 .. Len(P)) \cup {new})
  BY <1>1 DEF SlipsOf
<1>7. new \notin 1 .. Len(P)
  BY <1>1
<1> HIDE DEF f, g, Q, new
<1>8. SumOver(f, 1 .. Len(P)) = SumOver(g, 1 .. Len(P))
  BY <1>2, <1>4, SumSame
<1>9. SumOver(g, (1 .. Len(P)) \cup {new}) = SumOver(g, 1 .. Len(P)) + g[new]
  BY <1>2, <1>5, <1>7, SumWith
<1>10. SumOver(f, 1 .. Len(P)) \in Int
  BY <1>2, <1>4, SumIsInt
<1> QED
  BY <1>5, <1>6, <1>8, <1>9, <1>10 DEF Q

\* A line that is there is a record of a balance and a flag.
LEMMA LineIs ==
    ASSUME NEW line \in LoanLines
    PROVE  line # NoLine =>
              line[1].balance \in Int /\ line[1].stopped \in BOOLEAN /\ line = <<line[1]>>
           /\ line[1] \in [balance : Int, stopped : BOOLEAN]
<1> SUFFICES ASSUME line # NoLine
             PROVE  line[1].balance \in Int /\ line[1].stopped \in BOOLEAN /\ line = <<line[1]>>
                    /\ line[1] \in [balance : Int, stopped : BOOLEAN]
  OBVIOUS
<1>1. PICK r \in [balance : Int, stopped : BOOLEAN] : line = <<r>>
  BY DEF LoanLines
<1> QED
  BY <1>1

LEMMA PayInitInv == PayInit => PayInv
<1> SUFFICES ASSUME PayInit PROVE PayInv
  OBVIOUS
<1>1. PICK name \in PeriodNames : periods = <<Period(name, LoanLine(Loan))>>
  BY DEF PayInit
<1> DEFINE p == Period(name, LoanLine(Loan))
<1>2. p \in PayPeriods
  <2>1. LoanLine(Loan) \in LoanLines
    <3>1. [balance |-> Loan, stopped |-> FALSE] \in [balance : Int, stopped : BOOLEAN]
      BY LoanAssumption
    <3> QED
      BY <3>1 DEF LoanLine, LoanLines
  <2> QED
    BY <2>1 DEF Period, PayPeriods, Statuses
<1>3. /\ p.status = "OPEN" /\ ~p.ran /\ p.slip = 0 /\ p.line # NoLine
      /\ p.line[1].balance = Loan /\ ~p.line[1].stopped
  BY DEF Period, LoanLine, NoLine
<1> HIDE DEF p
<1>4. periods = <<p>> /\ DOMAIN periods = {1} /\ periods[1] = p /\ Len(periods) = 1
  BY <1>1 DEF p
<1>5. PayTypes
  <2>1. payReads \in [PayClerks -> {<<>>} \cup (PayOps \X Nat \X Statuses)]
    BY DEF PayInit
  <2>2. \A c \in PayClerks : payReads[c] = <<>>
    BY DEF PayInit
  <2> QED
    BY <1>2, <1>4, <2>1, <2>2 DEF PayTypes
<1>6. SlipsOf(periods) = 0
  <2> DEFINE f == [n \in DOMAIN periods |-> periods[n].slip]
  <2>1. \A n \in {1} : f[n] = 0
    BY <1>3, <1>4
  <2>2. IsFiniteSet({1})
    BY FS_Singleton
  <2>3. SlipsOf(periods) = SumOver(f, {1})
    BY <1>4 DEF SlipsOf
  <2> HIDE DEF f
  <2> QED
    BY <2>1, <2>2, <2>3, SumOfZeros
<1>7. LoanInv(periods)
  BY <1>3, <1>4, <1>6, LoanAssumption DEF LoanInv, IsLast
<1>8. ClosedIsPosted /\ OnePeriod
  BY <1>3, <1>4 DEF ClosedIsPosted, OnePeriod, Months
<1> QED
  BY <1>5, <1>7, <1>8 DEF PayInv

\* What a request has read: one of the six, a period there is, a status the request allows.
LEMMA WhatIsRead ==
    ASSUME PayInv, NEW c \in PayClerks, payReads[c] # <<>>
    PROVE  /\ payReads[c][1] \in PayOps /\ Nr(c) \in 1 .. Len(periods)
           /\ payReads[c][3] \in Demands(payReads[c][1])
<1>1. payReads[c] \in PayOps \X Nat \X Statuses
  BY DEF PayInv, PayTypes
<1> QED
  BY <1>1 DEF PayInv, PayTypes, Nr

\* A request that is done is forgotten; the periods that are read stay.
LEMMA ReadsKept ==
    ASSUME PayInv, NEW c \in PayClerks, payReads' = [payReads EXCEPT ![c] = <<>>],
           periods' \in Seq(PayPeriods), Len(periods') >= Len(periods)
    PROVE  PayTypes'
<1>1. payReads' \in [PayClerks -> {<<>>} \cup (PayOps \X Nat \X Statuses)]
  BY DEF PayInv, PayTypes
<1>2. \A d \in PayClerks : payReads'[d] # <<>> => payReads'[d] = payReads[d]
  BY DEF PayInv, PayTypes
<1>3. \A d \in PayClerks : payReads'[d] # <<>> =>
         payReads'[d][2] \in 1 .. Len(periods) /\ payReads'[d][3] \in Demands(payReads'[d][1])
  BY <1>2 DEF PayInv, PayTypes
<1>4. 1 .. Len(periods) \subseteq 1 .. Len(periods')
  BY DEF PayInv, PayTypes
<1> QED
  BY <1>1, <1>3, <1>4 DEF PayTypes

LEMMA PayAskKeeps ==
    ASSUME PayInv, NEW c \in PayClerks, NEW op \in PayOps, NEW n \in Months, PayAsk(c, op, n)
    PROVE  PayInv'
<1>1. periods \in Seq(PayPeriods) /\ n \in 1 .. Len(periods) /\ n \in Nat
  BY DEF PayInv, PayTypes, Months
<1>2. periods[n].status \in Statuses
  BY <1>1, PeriodIs
<1>3. payReads' = [payReads EXCEPT ![c] = <<op, n, periods[n].status>>]
  BY DEF PayAsk
<1>4. payReads' \in [PayClerks -> {<<>>} \cup (PayOps \X Nat \X Statuses)]
  BY <1>1, <1>2, <1>3 DEF PayInv, PayTypes
<1>5. ASSUME NEW d \in PayClerks, payReads'[d] # <<>>
      PROVE  payReads'[d][2] \in 1 .. Len(periods) /\ payReads'[d][3] \in Demands(payReads'[d][1])
  <2>1. CASE d = c
    <3>1. payReads'[d] = <<op, n, periods[n].status>>
      BY <1>3, <2>1 DEF PayInv, PayTypes
    <3> QED
      BY <1>1, <3>1 DEF PayAsk
  <2>2. CASE d # c
    <3>1. payReads'[d] = payReads[d]
      BY <1>3, <2>2 DEF PayInv, PayTypes
    <3> QED
      BY <1>5, <3>1 DEF PayInv, PayTypes
  <2> QED
    BY <2>1, <2>2
<1>6. periods' = periods /\ payMarks' = payMarks
  BY DEF PayAsk
<1> QED
  BY <1>4, <1>5, <1>6 DEF PayInv, PayTypes, ClosedIsPosted, OnePeriod, Months

\* The periods after one of them is rewritten: the others, and where it stays, as they were.
LEMMA OneRewritten ==
    ASSUME NEW P \in Seq(PayPeriods), NEW n \in 1 .. Len(P), NEW p \in PayPeriods,
           NEW Q, Q = [P EXCEPT ![n] = p]
    PROVE  /\ Q \in Seq(PayPeriods) /\ Len(Q) = Len(P)
           /\ DOMAIN P = 1 .. Len(P) /\ DOMAIN Q = 1 .. Len(P)
           /\ Q[n] = p /\ \A m \in 1 .. Len(P) : m # n => Q[m] = P[m]
           /\ SlipsOf(P) \in Int /\ SlipsOf(Q) = SlipsOf(P) + (p.slip - P[n].slip)
<1>1. /\ [P EXCEPT ![n] = p] \in Seq(PayPeriods) /\ Len([P EXCEPT ![n] = p]) = Len(P)
      /\ DOMAIN [P EXCEPT ![n] = p] = 1 .. Len(P)
      /\ [P EXCEPT ![n] = p][n] = p
      /\ \A m \in 1 .. Len(P) \ {n} : [P EXCEPT ![n] = p][m] = P[m]
  BY ElementRewritten
<1>2. SlipsOf(P) \in Int /\ SlipsOf([P EXCEPT ![n] = p]) = SlipsOf(P) + (p.slip - P[n].slip)
  BY SlipsChange
<1>3. DOMAIN P = 1 .. Len(P)
  OBVIOUS
<1> QED
  BY <1>1, <1>2, <1>3

\* A line is the last after one period is rewritten where it was before, unless lines come or go.
LEMMA LastStays ==
    ASSUME NEW P \in Seq(PayPeriods), NEW n \in 1 .. Len(P), NEW p \in PayPeriods,
           NEW Q, Q = [P EXCEPT ![n] = p], p.line = NoLine <=> P[n].line = NoLine
    PROVE  \A m \in 1 .. Len(P) : IsLast(Q, m) <=> IsLast(P, m)
<1>1. /\ DOMAIN P = 1 .. Len(P) /\ DOMAIN Q = 1 .. Len(P)
      /\ Q[n] = p /\ \A m \in 1 .. Len(P) : m # n => Q[m] = P[m]
  BY OneRewritten
<1>2. \A m \in 1 .. Len(P) : Q[m].line = NoLine <=> P[m].line = NoLine
  BY <1>1
<1> QED
  BY <1>1, <1>2 DEF IsLast

\* What a run makes of a period.
RunDue(p) == p.line # NoLine /\ ~p.line[1].stopped
AfterRun(p) == [p EXCEPT !.ran = TRUE, !.slip = IF RunDue(p) THEN Instalment ELSE 0,
                         !.line = IF RunDue(p) THEN Reduced(p.line) ELSE p.line]

\* What an instalment leaves of a balance.
Less(balance) == IF balance > Instalment THEN balance - Instalment ELSE 0

\* The instalment is on the payslip and off the line, which is stopped at nothing.
TakenOff(p, r) ==
    /\ p.line[1].balance \in Int
    /\ r.slip = Instalment /\ r.line # NoLine
    /\ r.line[1].balance = Less(p.line[1].balance)
    /\ r.line[1].stopped <=> Less(p.line[1].balance) = 0

\* A run: the instalment moves from the line to the payslip.
LEMMA RunTakesInstalment ==
    ASSUME NEW p \in PayPeriods, NEW r, r = AfterRun(p)
    PROVE  /\ r \in PayPeriods /\ r.ran = TRUE /\ r.status = p.status /\ r.posted = p.posted
           /\ RunDue(p) => TakenOff(p, r)
           /\ ~RunDue(p) => r.slip = 0 /\ r.line = p.line
<1>1. r = [p EXCEPT !.ran = TRUE, !.slip = IF RunDue(p) THEN Instalment ELSE 0,
                    !.line = IF RunDue(p) THEN Reduced(p.line) ELSE p.line]
  BY DEF AfterRun
<1>2. /\ p.name \in PeriodNames /\ p.status \in Statuses /\ p.ran \in BOOLEAN
      /\ p.slip \in Int /\ p.posted \in Int /\ p.line \in LoanLines
  BY PeriodIs
<1> DEFINE left == Less(p.line[1].balance)
<1>3. ASSUME RunDue(p)
      PROVE  /\ p.line[1].balance \in Int
             /\ Reduced(p.line) \in LoanLines /\ Reduced(p.line) # NoLine
             /\ Reduced(p.line)[1].balance = left /\ (Reduced(p.line)[1].stopped <=> left = 0)
  <2>1. p.line[1].balance \in Int
    BY <1>2, <1>3, LineIs DEF RunDue
  <2>2. left \in Int
    BY <2>1, LoanAssumption DEF Less
  <2>3. Reduced(p.line) = <<[balance |-> left, stopped |-> left = 0]>>
    BY DEF Reduced, Less
  <2> HIDE DEF left
  <2>4. (left = 0) \in BOOLEAN /\ [balance |-> left, stopped |-> left = 0] \in [balance : Int, stopped : BOOLEAN]
    BY <2>2
  <2>5. PICK q \in [balance : Int, stopped : BOOLEAN] :
           q.balance = left /\ q.stopped = (left = 0) /\ Reduced(p.line) = <<q>>
    BY <2>3, <2>4
  <2>6. <<q>> \in LoanLines /\ <<q>> # NoLine /\ <<q>>[1] = q
    BY DEF LoanLines, NoLine
  <2> QED
    BY <2>1, <2>5, <2>6
<1>4. r.line = IF RunDue(p) THEN Reduced(p.line) ELSE p.line
  BY <1>1 DEF PayPeriods
<1>5. r.line \in LoanLines
  BY <1>2, <1>3, <1>4
<1>6. /\ r.ran = TRUE /\ r.status = p.status /\ r.posted = p.posted /\ r.name = p.name
      /\ r.slip = IF RunDue(p) THEN Instalment ELSE 0
  BY <1>1 DEF PayPeriods
<1>7. r.slip \in Int
  BY <1>6, LoanAssumption
<1>8. r = [name |-> r.name, status |-> r.status, ran |-> r.ran, slip |-> r.slip,
           posted |-> r.posted, line |-> r.line]
  BY <1>1 DEF PayPeriods
<1>9. r \in PayPeriods
  BY <1>2, <1>5, <1>6, <1>7, <1>8 DEF PayPeriods
<1> HIDE DEF left
<1> QED
  BY <1>3, <1>4, <1>6, <1>9 DEF left, TakenOff

\* The loan after a run of an open period, not run before.
LEMMA LoanRun ==
    ASSUME NEW P \in Seq(PayPeriods), LoanInv(P), NEW n \in 1 .. Len(P),
           P[n].status # "CLOSED", ~P[n].ran, NEW Q, Q = [P EXCEPT ![n] = AfterRun(P[n])]
    PROVE  LoanInv(Q)
<1>p. PICK p \in PayPeriods : p = P[n]
  BY PeriodIs
<1>r. PICK r : r = AfterRun(p)
  OBVIOUS
<1>1. /\ r \in PayPeriods /\ r.ran = TRUE /\ r.status = p.status /\ r.posted = p.posted
      /\ RunDue(p) => TakenOff(p, r)
      /\ ~RunDue(p) => r.slip = 0 /\ r.line = p.line
  <2>1. r \in PayPeriods
    BY <1>r, RunTakesInstalment
  <2>2. r.ran = TRUE
    BY <1>r, RunTakesInstalment
  <2>3. r.status = p.status /\ r.posted = p.posted
    BY <1>r, RunTakesInstalment
  <2>4. RunDue(p) => TakenOff(p, r)
    BY <1>r, RunTakesInstalment
  <2>7. ~RunDue(p) => r.slip = 0 /\ r.line = p.line
    BY <1>r, RunTakesInstalment
  <2> QED
    BY <2>1, <2>2, <2>3, <2>4, <2>7
<1>t. RunDue(p) => /\ r.slip = Instalment /\ r.line # NoLine
                   /\ r.line[1].balance = Less(p.line[1].balance)
                   /\ r.line[1].stopped <=> Less(p.line[1].balance) = 0
                   /\ p.line[1].balance \in Int
  BY <1>1 DEF TakenOff
<1>0. r \in PayPeriods /\ Q = [P EXCEPT ![n] = r]
  BY <1>1, <1>p, <1>r
<1>2. /\ DOMAIN P = 1 .. Len(P) /\ DOMAIN Q = 1 .. Len(P)
      /\ Q[n] = r /\ \A m \in 1 .. Len(P) : m # n => Q[m] = P[m]
      /\ SlipsOf(P) \in Int /\ SlipsOf(Q) = SlipsOf(P) + (r.slip - p.slip)
  <2>1. DOMAIN P = 1 .. Len(P) /\ DOMAIN Q = 1 .. Len(P)
    BY <1>0, <1>p, OneRewritten
  <2>2. Q[n] = r
    BY <1>0, <1>p, OneRewritten
  <2>3. \A m \in 1 .. Len(P) : m # n => Q[m] = P[m]
    BY <1>0, <1>p, OneRewritten
  <2>4. SlipsOf(P) \in Int
    BY <1>0, SlipsChange
  <2>5. SlipsOf(Q) = SlipsOf(P) + (r.slip - P[n].slip)
    BY <1>0, SlipsChange
  <2> QED
    BY <1>p, <2>1, <2>2, <2>3, <2>4, <2>5
<1>3. r.line = NoLine <=> P[n].line = NoLine
  BY <1>1, <1>t, <1>p DEF RunDue
<1>4. \A m \in 1 .. Len(P) : IsLast(Q, m) <=> IsLast(P, m)
  BY <1>0, <1>3, LastStays
<1>5. p.slip = 0
  BY <1>2, <1>p DEF LoanInv
<1>6. RunDue(p) => IsLast(P, n)
  BY <1>2, <1>p DEF LoanInv, RunDue
<1>7. SlipsOf(Q) = IF RunDue(p) THEN SlipsOf(P) + Instalment ELSE SlipsOf(P)
  BY <1>1, <1>t, <1>2, <1>5, LoanAssumption
<1>8. RunDue(p) => /\ p.line[1].balance = Loan - SlipsOf(P) /\ SlipsOf(P) < Loan
  <2>1. ASSUME RunDue(p) PROVE p.line[1].balance = Loan - SlipsOf(P) /\ SlipsOf(P) < Loan
    <3>1. /\ p.line[1].balance = IF Loan > SlipsOf(P) THEN Loan - SlipsOf(P) ELSE 0
          /\ p.line[1].balance > 0
      BY <1>2, <1>6, <1>p, <2>1 DEF LoanInv, RunDue
    <3> QED
      BY <1>2, <3>1, LoanAssumption
  <2> QED
    BY <2>1
<1>9. \A m \in 1 .. Len(P) : ~Q[m].ran => Q[m].slip = 0
  BY <1>1, <1>t, <1>2 DEF LoanInv
<1>10. \A m \in 1 .. Len(P) : Q[m].line # NoLine /\ Q[m].status # "CLOSED" => IsLast(Q, m)
  <2>1. ASSUME NEW m \in 1 .. Len(P), Q[m].line # NoLine, Q[m].status # "CLOSED" PROVE IsLast(P, m)
    <3>1. P[m].line # NoLine /\ P[m].status # "CLOSED"
      BY <1>1, <1>t, <1>2, <1>3, <1>p, <2>1
    <3> QED
      BY <1>2, <3>1 DEF LoanInv
  <2> QED
    BY <1>4, <2>1
<1>11. ASSUME NEW m \in 1 .. Len(P), IsLast(Q, m)
       PROVE  /\ Q[m].line[1].balance = IF Loan > SlipsOf(Q) THEN Loan - SlipsOf(Q) ELSE 0
              /\ ~Q[m].line[1].stopped => Q[m].line[1].balance > 0
  <2>1. /\ IsLast(P, m)
        /\ P[m].line[1].balance = IF Loan > SlipsOf(P) THEN Loan - SlipsOf(P) ELSE 0
        /\ ~P[m].line[1].stopped => P[m].line[1].balance > 0
    BY <1>2, <1>4, <1>11 DEF LoanInv
  <2>2. CASE RunDue(p)
    <3>1. m = n
      <4>1. m \in Int /\ n \in Int /\ P[m].line # NoLine /\ P[n].line # NoLine
        BY <1>6, <2>1, <2>2 DEF IsLast
      <4> QED
        BY <1>2, <1>6, <2>1, <2>2, <4>1 DEF IsLast
    <3>2. Q[m].line[1].balance = Less(p.line[1].balance)
      BY <1>1, <1>t, <1>2, <2>2, <3>1
    <3>3. Q[m].line[1].stopped <=> Less(p.line[1].balance) = 0
      BY <1>1, <1>t, <1>2, <2>2, <3>1
    <3> QED
      BY <1>2, <1>7, <1>8, <2>2, <3>2, <3>3, LoanAssumption DEF Less
  <2>3. CASE ~RunDue(p)
    <3>1. Q[m].line = P[m].line
      BY <1>1, <1>t, <1>2, <1>p, <2>3
    <3> QED
      BY <1>7, <2>1, <2>3, <3>1
  <2> QED
    BY <2>2, <2>3
<1>12. SlipsOf(Q) < Loan + Instalment
  BY <1>2, <1>7, <1>8, LoanAssumption DEF LoanInv
<1> QED
  BY <1>2, <1>9, <1>10, <1>11, <1>12 DEF LoanInv

\* A status, or what was posted, is no matter to the loan unless a closed period opens again.
LEMMA LoanSame ==
    ASSUME NEW P \in Seq(PayPeriods), LoanInv(P), NEW n \in 1 .. Len(P), NEW r \in PayPeriods,
           r.ran = P[n].ran, r.slip = P[n].slip, r.line = P[n].line,
           P[n].status # "CLOSED" \/ r.status = "CLOSED", NEW Q, Q = [P EXCEPT ![n] = r]
    PROVE  LoanInv(Q)
<1>1. /\ DOMAIN P = 1 .. Len(P) /\ DOMAIN Q = 1 .. Len(P)
      /\ Q[n] = r /\ \A m \in 1 .. Len(P) : m # n => Q[m] = P[m]
  <2>1. DOMAIN P = 1 .. Len(P) /\ DOMAIN Q = 1 .. Len(P)
    BY OneRewritten
  <2>2. Q[n] = r
    BY OneRewritten
  <2>3. \A m \in 1 .. Len(P) : m # n => Q[m] = P[m]
    BY OneRewritten
  <2> QED
    BY <2>1, <2>2, <2>3
<1>2. SlipsOf(Q) = SlipsOf(P)
  <2>1. SlipsOf(P) \in Int
    BY SlipsChange
  <2>2. SlipsOf(Q) = SlipsOf(P) + (r.slip - P[n].slip)
    BY SlipsChange
  <2>3. r.slip \in Int
    BY PeriodIs
  <2> QED
    BY <2>1, <2>2, <2>3
<1>3. \A m \in 1 .. Len(P) : IsLast(Q, m) <=> IsLast(P, m)
  BY LastStays
<1>4. \A m \in 1 .. Len(P) : Q[m].ran = P[m].ran /\ Q[m].slip = P[m].slip /\ Q[m].line = P[m].line
  BY <1>1
<1>5. \A m \in 1 .. Len(P) : Q[m].status # "CLOSED" => P[m].status # "CLOSED"
  BY <1>1
<1>6. \A m \in 1 .. Len(P) : ~Q[m].ran => Q[m].slip = 0
  BY <1>1, <1>4 DEF LoanInv
<1>7. \A m \in 1 .. Len(P) : Q[m].line # NoLine /\ Q[m].status # "CLOSED" => IsLast(Q, m)
  BY <1>1, <1>3, <1>4, <1>5 DEF LoanInv
<1>8. ASSUME NEW m \in 1 .. Len(P), IsLast(Q, m)
      PROVE  /\ Q[m].line[1].balance = IF Loan > SlipsOf(Q) THEN Loan - SlipsOf(Q) ELSE 0
             /\ ~Q[m].line[1].stopped => Q[m].line[1].balance > 0
  <2>1. IsLast(P, m) /\ Q[m].line = P[m].line
    BY <1>3, <1>4, <1>8
  <2> QED
    BY <1>1, <1>2, <2>1 DEF LoanInv
<1> QED
  BY <1>1, <1>2, <1>6, <1>7, <1>8 DEF LoanInv

\* A period more, without a line or with what is left of the last one.
LEMMA LoanGrows ==
    ASSUME NEW P \in Seq(PayPeriods), LoanInv(P), NEW p \in PayPeriods,
           ~p.ran, p.slip = 0,
           p.line # NoLine =>
              /\ \E n \in 1 .. Len(P) : IsLast(P, n) /\ ~P[n].line[1].stopped
                                        /\ p.line[1].balance = P[n].line[1].balance
              /\ \A n \in 1 .. Len(P) : P[n].line # NoLine => P[n].status = "CLOSED",
           NEW Q, Q = Append(P, p)
    PROVE  LoanInv(Q)
<1> DEFINE new == Len(P) + 1
<1>1. /\ Len(P) \in Nat /\ DOMAIN P = 1 .. Len(P) /\ DOMAIN Q = 1 .. new
      /\ Q[new] = p /\ \A m \in 1 .. Len(P) : Q[m] = P[m]
  OBVIOUS
<1>2. \A m \in 1 .. new : m \in 1 .. Len(P) \/ m = new
  BY <1>1
<1>3. 1 .. Len(P) \subseteq 1 .. new /\ new \in 1 .. new /\ \A m \in 1 .. Len(P) : m <= new /\ ~(new <= m)
  BY <1>1
<1>4. new <= new
  BY <1>1
<1> HIDE DEF new
<1>5. SlipsOf(Q) = SlipsOf(P)
  BY SlipsGrow
<1>6. \A m \in 1 .. new : ~Q[m].ran => Q[m].slip = 0
  BY <1>1, <1>2 DEF LoanInv
<1>7. CASE p.line = NoLine
  <2>1. \A m \in 1 .. Len(P) : IsLast(Q, m) <=> IsLast(P, m)
    BY <1>1, <1>2, <1>3, <1>7 DEF IsLast
  <2>2. ~IsLast(Q, new)
    BY <1>1, <1>7 DEF IsLast
  <2>3. \A m \in 1 .. new : Q[m].line # NoLine => m \in 1 .. Len(P)
    BY <1>1, <1>2, <1>7
  <2>4. \A m \in 1 .. new : Q[m].line # NoLine /\ Q[m].status # "CLOSED" => IsLast(Q, m)
    BY <1>1, <2>1, <2>3 DEF LoanInv
  <2>5. \A m \in 1 .. new : IsLast(Q, m) => m \in 1 .. Len(P) /\ IsLast(P, m)
    BY <1>2, <2>1, <2>2
  <2>6. ASSUME NEW m \in 1 .. new, IsLast(Q, m)
        PROVE  /\ Q[m].line[1].balance = IF Loan > SlipsOf(Q) THEN Loan - SlipsOf(Q) ELSE 0
               /\ ~Q[m].line[1].stopped => Q[m].line[1].balance > 0
    <3>1. m \in 1 .. Len(P) /\ IsLast(P, m) /\ Q[m] = P[m]
      BY <1>1, <2>5, <2>6
    <3> QED
      BY <1>1, <1>5, <3>1 DEF LoanInv
  <2> QED
    BY <1>1, <1>5, <1>6, <2>4, <2>6 DEF LoanInv
<1>8. CASE p.line # NoLine
  <2>1. PICK n \in 1 .. Len(P) : IsLast(P, n) /\ ~P[n].line[1].stopped
                                 /\ p.line[1].balance = P[n].line[1].balance
    BY <1>8
  <2>2. \A m \in 1 .. Len(P) : ~IsLast(Q, m)
    BY <1>1, <1>3, <1>8 DEF IsLast
  <2>3. IsLast(Q, new)
    BY <1>1, <1>2, <1>3, <1>4, <1>8 DEF IsLast
  <2>4. \A m \in 1 .. new : Q[m].line # NoLine /\ Q[m].status # "CLOSED" => IsLast(Q, m)
    BY <1>1, <1>2, <1>8, <2>3
  <2>5. /\ P[n].line[1].balance = IF Loan > SlipsOf(P) THEN Loan - SlipsOf(P) ELSE 0
        /\ P[n].line[1].balance > 0
    BY <1>1, <2>1 DEF LoanInv
  <2>6. ASSUME NEW m \in 1 .. new, IsLast(Q, m)
        PROVE  /\ Q[m].line[1].balance = IF Loan > SlipsOf(Q) THEN Loan - SlipsOf(Q) ELSE 0
               /\ ~Q[m].line[1].stopped => Q[m].line[1].balance > 0
    <3>1. Q[m] = p
      BY <1>1, <1>2, <2>2, <2>6
    <3> QED
      BY <1>5, <2>1, <2>5, <3>1
  <2> QED
    BY <1>1, <1>5, <1>6, <2>4, <2>6 DEF LoanInv
<1> QED
  BY <1>7, <1>8

\* What is left to show of a request that is done, when one period was rewritten by it.
LEMMA OneWritten ==
    ASSUME PayInv, NEW c \in PayClerks, payReads[c] # <<>>, NEW marks, PayDone(c, marks),
           NEW n, n = Nr(c), NEW r \in PayPeriods, periods' = [periods EXCEPT ![n] = r],
           periods[n].status # "CLOSED" => r.status # "CLOSED",
           payMarks' \subseteq {"beside"} => LoanInv(periods')
    PROVE  PayInv'
<1>1. periods \in Seq(PayPeriods) /\ n \in 1 .. Len(periods)
  BY WhatIsRead DEF PayInv, PayTypes
<1>2. /\ periods' \in Seq(PayPeriods) /\ Len(periods') = Len(periods) /\ Len(periods) \in Nat
      /\ DOMAIN periods = 1 .. Len(periods) /\ DOMAIN periods' = 1 .. Len(periods)
      /\ periods'[n] = r /\ \A m \in 1 .. Len(periods) \ {n} : periods'[m] = periods[m]
  BY <1>1, ElementRewritten
<1>3. PayTypes'
  <2>1. payReads' = [payReads EXCEPT ![c] = <<>>] /\ Len(periods') >= Len(periods)
    BY <1>2 DEF PayDone
  <2> QED
    BY <1>2, <2>1, ReadsKept
<1>4. payMarks \subseteq payMarks'
  BY DEF PayDone
<1>5. "late" \notin payMarks' => periods[n].status # "CLOSED"
  <2>1. ASSUME "late" \notin payMarks' PROVE periods[n].status # "CLOSED"
    <3>1. periods[n].status = payReads[c][3]
      BY <2>1 DEF PayDone
    <3>2. payReads[c][1] \in PayOps /\ payReads[c][3] \in Demands(payReads[c][1])
      BY WhatIsRead
    <3> QED
      BY <3>1, <3>2 DEF Demands, PayOps
  <2> QED
    BY <2>1
<1>6. ClosedIsPosted'
  BY <1>2, <1>4, <1>5 DEF PayInv, ClosedIsPosted, Months
<1>7. OnePeriod'
  <2> SUFFICES ASSUME payMarks' \cap {"late", "beside"} = {},
                      NEW m \in 1 .. Len(periods), NEW k \in 1 .. Len(periods),
                      periods'[m].status # "CLOSED", periods'[k].status # "CLOSED"
               PROVE  m = k
    BY <1>2 DEF OnePeriod, Months
  <2>1. payMarks \cap {"late", "beside"} = {} /\ periods[n].status # "CLOSED"
    BY <1>4, <1>5
  <2>2. periods[m].status # "CLOSED" /\ periods[k].status # "CLOSED"
    BY <1>2, <2>1
  <2> QED
    BY <1>2, <2>1, <2>2 DEF PayInv, OnePeriod, Months
<1> QED
  BY <1>3, <1>6, <1>7 DEF PayInv

LEMMA RunPeriodKeeps ==
    ASSUME PayInv, NEW c \in PayClerks, RunPeriod(c)
    PROVE  PayInv'
<1>1. payReads[c] # <<>> /\ payReads[c][1] = "run"
  BY DEF RunPeriod, PayDoing
<1>2. PICK n \in 1 .. Len(periods) : n = Nr(c)
  BY <1>1, WhatIsRead
<1>3. PICK p \in PayPeriods : p = periods[n]
  BY PeriodIs DEF PayInv, PayTypes
<1>4. PICK r : r = AfterRun(p)
  OBVIOUS
<1>5. periods' = [periods EXCEPT ![n] = r]
  BY <1>2, <1>3, <1>4 DEF RunPeriod, AfterRun, RunDue
<1>6. PayDone(c, IF p.ran THEN {"again"} ELSE {})
  BY <1>2, <1>3 DEF RunPeriod
<1>7. r \in PayPeriods
  BY <1>4, RunTakesInstalment
<1>8. r.status = p.status
  BY <1>4, RunTakesInstalment
<1>9. ASSUME payMarks' \subseteq {"beside"} PROVE LoanInv(periods')
  <2>1. payMarks \subseteq {"beside"} /\ ~p.ran /\ p.status = payReads[c][3]
    BY <1>2, <1>3, <1>6, <1>9 DEF PayDone
  <2>2. p.status = "OPEN"
    BY <1>1, <2>1, WhatIsRead DEF Demands
  <2>3. LoanInv(periods) /\ periods \in Seq(PayPeriods)
    BY <2>1 DEF PayInv, PayTypes
  <2> QED
    BY <1>3, <1>4, <1>5, <2>1, <2>2, <2>3, LoanRun
<1> QED
  BY <1>1, <1>2, <1>3, <1>5, <1>6, <1>7, <1>8, <1>9, OneWritten

LEMMA SetPeriodStatusKeeps ==
    ASSUME PayInv, NEW c \in PayClerks, SetPeriodStatus(c)
    PROVE  PayInv'
<1>1. payReads[c] # <<>> /\ payReads[c][1] \in {"submit", "return", "approve", "reopen"}
  BY DEF SetPeriodStatus
<1>2. PICK n \in 1 .. Len(periods) : n = Nr(c)
  BY <1>1, WhatIsRead
<1>3. PICK p \in PayPeriods : p = periods[n]
  BY PeriodIs DEF PayInv, PayTypes
<1>4. PICK status \in Statuses \ {"CLOSED"} : periods' = [periods EXCEPT ![n].status = status]
  <2> DEFINE status == CASE payReads[c][1] = "submit" -> "PENDING_APPROVAL"
                         [] payReads[c][1] = "approve" -> "APPROVED"
                         [] OTHER -> "OPEN"
  <2>1. status \in {"PENDING_APPROVAL", "APPROVED", "OPEN"}
    OBVIOUS
  <2>2. periods' = [periods EXCEPT ![n].status = status]
    BY <1>2 DEF SetPeriodStatus
  <2> HIDE DEF status
  <2> QED
    BY <2>1, <2>2 DEF Statuses
<1>5. PICK r : r = [p EXCEPT !.status = status]
  OBVIOUS
<1>6. r \in PayPeriods /\ r.status = status /\ r.ran = p.ran /\ r.slip = p.slip /\ r.line = p.line
  BY <1>5 DEF PayPeriods
<1>7. periods' = [periods EXCEPT ![n] = r]
  BY <1>3, <1>4, <1>5
<1>8. PayDone(c, {})
  BY DEF SetPeriodStatus
<1>9. ASSUME payMarks' \subseteq {"beside"} PROVE LoanInv(periods')
  <2>1. payMarks \subseteq {"beside"} /\ p.status = payReads[c][3]
    BY <1>2, <1>3, <1>8, <1>9 DEF PayDone
  <2>2. p.status # "CLOSED"
    BY <1>1, <2>1, WhatIsRead DEF Demands
  <2>3. LoanInv(periods) /\ periods \in Seq(PayPeriods)
    BY <2>1 DEF PayInv, PayTypes
  <2> QED
    BY <1>3, <1>6, <1>7, <2>2, <2>3, LoanSame
<1>10. r.status # "CLOSED"
  BY <1>6
<1> QED
  BY <1>1, <1>2, <1>6, <1>7, <1>8, <1>9, <1>10, OneWritten

LEMMA PayRefusedKeeps ==
    ASSUME PayInv, NEW c \in PayClerks, PayRefused(c)
    PROVE  PayInv'
<1>1. payReads' = [payReads EXCEPT ![c] = <<>>] /\ periods' = periods /\ payMarks' = payMarks
  BY DEF PayRefused
<1>2. periods' \in Seq(PayPeriods) /\ Len(periods') >= Len(periods)
  BY <1>1 DEF PayInv, PayTypes
<1>3. PayTypes'
  BY <1>1, <1>2, ReadsKept
<1> QED
  BY <1>1, <1>3 DEF PayInv, ClosedIsPosted, OnePeriod, Months

\* A period more: what it takes to keep the invariant.
LEMMA OneMore ==
    ASSUME PayInv, payMarks \subseteq payMarks', NEW P \in Seq(PayPeriods), Len(P) = Len(periods),
           NEW p \in PayPeriods, p.status # "CLOSED", periods' = Append(P, p),
           NEW c, payReads' = payReads \/ (c \in PayClerks /\ payReads' = [payReads EXCEPT ![c] = <<>>]),
           "late" \notin payMarks' =>
              \A n \in 1 .. Len(P) : P[n].status = "CLOSED" => P[n].posted = P[n].slip,
           payMarks' \cap {"late", "beside"} = {} => \A n \in 1 .. Len(P) : P[n].status = "CLOSED",
           payMarks' \subseteq {"beside"} => LoanInv(periods')
    PROVE  PayInv'
<1> DEFINE new == Len(P) + 1
<1>1. /\ Len(P) \in Nat /\ DOMAIN P = 1 .. Len(P) /\ DOMAIN periods' = 1 .. new
      /\ periods' \in Seq(PayPeriods) /\ Len(periods') = new
      /\ periods'[new] = p /\ \A m \in 1 .. Len(P) : periods'[m] = P[m]
  OBVIOUS
<1>2. \A m \in 1 .. new : m \in 1 .. Len(P) \/ m = new
  BY <1>1
<1>3. PayTypes'
  <2>1. CASE payReads' = payReads
    <3>1. \A d \in PayClerks : payReads[d] # <<>> =>
             payReads[d][2] \in 1 .. Len(P) /\ payReads[d][3] \in Demands(payReads[d][1])
      BY DEF PayInv, PayTypes
    <3>2. 1 .. Len(P) \subseteq 1 .. Len(periods')
      BY <1>1
    <3>3. payReads \in [PayClerks -> {<<>>} \cup (PayOps \X Nat \X Statuses)]
      BY DEF PayInv, PayTypes
    <3> QED
      BY <1>1, <2>1, <3>1, <3>2, <3>3 DEF PayTypes
  <2>2. CASE c \in PayClerks /\ payReads' = [payReads EXCEPT ![c] = <<>>]
    <3>1. Len(periods') >= Len(periods)
      BY <1>1
    <3> QED
      BY <1>1, <2>2, <3>1, ReadsKept
  <2> QED
    BY <2>1, <2>2
<1> HIDE DEF new
<1>4. ClosedIsPosted'
  BY <1>1, <1>2 DEF ClosedIsPosted, Months
<1>5. OnePeriod'
  <2> SUFFICES ASSUME payMarks' \cap {"late", "beside"} = {}, NEW n \in 1 .. new, NEW k \in 1 .. new,
                      periods'[n].status # "CLOSED", periods'[k].status # "CLOSED"
               PROVE  n = k
    BY <1>1 DEF OnePeriod, Months
  <2>1. \A m \in 1 .. Len(P) : periods'[m].status = "CLOSED"
    BY <1>1
  <2> QED
    BY <1>2, <2>1
<1> QED
  BY <1>3, <1>4, <1>5 DEF PayInv

LEMMA CreatePeriodKeeps ==
    ASSUME PayInv, NEW name \in PeriodNames, CreatePeriod(name)
    PROVE  PayInv'
<1>1. PICK p : p = Period(name, NoLine)
  OBVIOUS
<1>2. p \in PayPeriods /\ p.status = "OPEN" /\ ~p.ran /\ p.slip = 0 /\ p.line = NoLine
  BY <1>1 DEF Period, PayPeriods, Statuses, LoanLines
<1>3. /\ periods \in Seq(PayPeriods) /\ DOMAIN periods = 1 .. Len(periods)
      /\ periods' = Append(periods, p) /\ payReads' = payReads /\ payMarks \subseteq payMarks'
  BY <1>1 DEF CreatePeriod, PayInv, PayTypes
<1>4. "late" \notin payMarks' =>
         \A n \in 1 .. Len(periods) : periods[n].status = "CLOSED" => periods[n].posted = periods[n].slip
  BY <1>3 DEF PayInv, ClosedIsPosted, Months
<1>5. payMarks' \cap {"late", "beside"} = {} => \A n \in 1 .. Len(periods) : periods[n].status = "CLOSED"
  <2> SUFFICES ASSUME "beside" \notin payMarks', NEW n \in 1 .. Len(periods)
               PROVE  periods[n].status = "CLOSED"
    OBVIOUS
  <2>1. periods[n].status \notin {"OPEN", "PENDING_APPROVAL", "APPROVED"}
    BY <1>3 DEF CreatePeriod, Months
  <2>2. periods[n].status \in Statuses
    BY <1>3, PeriodIs
  <2> QED
    BY <2>1, <2>2 DEF Statuses
<1>6. payMarks' \subseteq {"beside"} => LoanInv(periods')
  <2>1. ASSUME payMarks' \subseteq {"beside"} PROVE LoanInv(periods')
    <3>1. LoanInv(periods)
      BY <1>3, <2>1 DEF PayInv
    <3> QED
      BY <1>2, <1>3, <3>1, LoanGrows
  <2> QED
    BY <2>1
<1>7. p.status # "CLOSED"
  BY <1>2
<1> QED
  BY <1>2, <1>3, <1>4, <1>5, <1>6, <1>7, OneMore

LEMMA ClosePeriodKeeps ==
    ASSUME PayInv, NEW c \in PayClerks, ClosePeriod(c)
    PROVE  PayInv'
<1>1. payReads[c] # <<>> /\ payReads[c][1] = "close"
  BY DEF ClosePeriod, PayDoing
<1>2. PICK n \in 1 .. Len(periods) : n = Nr(c)
  BY <1>1, WhatIsRead
<1>3. PICK p \in PayPeriods : p = periods[n]
  BY PeriodIs DEF PayInv, PayTypes
<1>4. PICK r : r = [p EXCEPT !.status = "CLOSED",
                             !.posted = IF p.status = "CLOSED" THEN p.posted ELSE p.slip]
  OBVIOUS
<1>5. /\ r \in PayPeriods /\ r.status = "CLOSED" /\ r.ran = p.ran /\ r.slip = p.slip /\ r.line = p.line
      /\ r.posted = IF p.status = "CLOSED" THEN p.posted ELSE p.slip
  BY <1>4 DEF PayPeriods, Statuses
<1>6. PICK q : q = Period(p.name + 1, Rolled(p.line))
  OBVIOUS
<1>7. q \in PayPeriods /\ q.status = "OPEN" /\ ~q.ran /\ q.slip = 0 /\ q.line = Rolled(p.line)
  <2>1. Rolled(p.line) \in LoanLines
    <3>1. CASE p.line = NoLine \/ p.line[1].stopped
      BY <3>1 DEF Rolled, LoanLines
    <3>2. CASE ~(p.line = NoLine \/ p.line[1].stopped)
      <4>1. p.line[1].balance \in Int
        BY <3>2, PeriodIs, LineIs
      <4>2. [balance |-> p.line[1].balance, stopped |-> FALSE] \in [balance : Int, stopped : BOOLEAN]
        BY <4>1
      <4> QED
        BY <3>2, <4>2 DEF Rolled, LoanLine, LoanLines
    <3> QED
      BY <3>1, <3>2
  <2>2. p.name + 1 \in PeriodNames
    BY <1>2, <1>3 DEF ClosePeriod
  <2> QED
    BY <1>6, <2>1, <2>2 DEF Period, PayPeriods, Statuses
<1>8. PICK P : P = [periods EXCEPT ![n] = r]
  OBVIOUS
<1>9. periods' = Append(P, q)
  BY <1>2, <1>3, <1>4, <1>6, <1>8 DEF ClosePeriod
<1>10. periods \in Seq(PayPeriods)
  BY DEF PayInv, PayTypes
<1>11. /\ P \in Seq(PayPeriods) /\ Len(P) = Len(periods) /\ Len(periods) \in Nat
       /\ DOMAIN periods = 1 .. Len(periods)
       /\ P[n] = r /\ \A m \in 1 .. Len(periods) \ {n} : P[m] = periods[m]
  BY <1>5, <1>8, <1>10, ElementRewritten
<1>12. payMarks \subseteq payMarks' /\ payReads' = [payReads EXCEPT ![c] = <<>>]
       /\ ("late" \notin payMarks' => p.status = payReads[c][3])
  BY <1>2, <1>3 DEF ClosePeriod, PayDone
<1>13. "late" \notin payMarks' => p.status = "APPROVED"
  BY <1>1, <1>12, WhatIsRead DEF Demands
<1>14. "late" \notin payMarks' =>
          \A m \in 1 .. Len(P) : P[m].status = "CLOSED" => P[m].posted = P[m].slip
  <2> SUFFICES ASSUME "late" \notin payMarks', NEW m \in 1 .. Len(P), P[m].status = "CLOSED"
               PROVE  P[m].posted = P[m].slip
    OBVIOUS
  <2>1. CASE m = n
    BY <1>5, <1>11, <1>13, <2>1
  <2>2. CASE m # n
    BY <1>11, <1>12, <2>2 DEF PayInv, ClosedIsPosted, Months
  <2> QED
    BY <2>1, <2>2
<1>15. payMarks' \cap {"late", "beside"} = {} => \A m \in 1 .. Len(P) : P[m].status = "CLOSED"
  <2> SUFFICES ASSUME payMarks' \cap {"late", "beside"} = {}, NEW m \in 1 .. Len(P), m # n
               PROVE  P[m].status = "CLOSED"
    BY <1>5, <1>11
  <2>1. p.status = "APPROVED" /\ payMarks \cap {"late", "beside"} = {}
    BY <1>12, <1>13
  <2>2. periods[m].status = "CLOSED"
    BY <1>3, <1>11, <2>1 DEF PayInv, OnePeriod, Months
  <2> QED
    BY <1>11, <2>2
<1>16. payMarks' \subseteq {"beside"} => LoanInv(periods')
  <2> SUFFICES ASSUME payMarks' \subseteq {"beside"} PROVE LoanInv(periods')
    OBVIOUS
  <2>1. LoanInv(periods) /\ p.status = "APPROVED"
    BY <1>12, <1>13 DEF PayInv
  <2>2. LoanInv(P)
    BY <1>3, <1>5, <1>8, <1>10, <2>1, LoanSame
  <2>3. ASSUME q.line # NoLine
        PROVE  /\ \E m \in 1 .. Len(P) : IsLast(P, m) /\ ~P[m].line[1].stopped
                                         /\ q.line[1].balance = P[m].line[1].balance
               /\ \A m \in 1 .. Len(P) : P[m].line # NoLine => P[m].status = "CLOSED"
    <3>1. p.line # NoLine /\ ~p.line[1].stopped /\ q.line[1].balance = p.line[1].balance
      BY <1>7, <2>3 DEF Rolled, LoanLine
    <3>2. IsLast(periods, n)
      BY <1>3, <1>11, <2>1, <3>1 DEF LoanInv
    <3>3. \A m \in 1 .. Len(P) : IsLast(P, m) <=> IsLast(periods, m)
      BY <1>3, <1>5, <1>8, <1>10, <1>11, LastStays
    <3>4. IsLast(P, n) /\ P[n].line = p.line
      BY <1>5, <1>11, <3>2, <3>3
    <3>5. ASSUME NEW m \in 1 .. Len(P), P[m].line # NoLine PROVE P[m].status = "CLOSED"
      <4>1. CASE m = n
        BY <1>5, <1>11, <4>1
      <4>2. CASE m # n
        <5>1. P[m] = periods[m]
          BY <1>11, <4>2
        <5>2. ASSUME periods[m].status # "CLOSED" PROVE FALSE
          <6>1. IsLast(periods, m)
            BY <1>11, <2>1, <3>5, <5>1, <5>2 DEF LoanInv
          <6>2. m <= n /\ n <= m
            BY <1>3, <1>11, <3>1, <3>2, <3>5, <5>1, <6>1 DEF IsLast
          <6> QED
            BY <1>11, <4>2, <6>2
        <5> QED
          BY <5>1, <5>2
      <4> QED
        BY <4>1, <4>2
    <3> QED
      BY <1>11, <3>1, <3>4, <3>5
  <2> QED
    BY <1>7, <1>9, <1>11, <2>2, <2>3, LoanGrows
<1>17. q.status # "CLOSED"
  BY <1>7
<1> QED
  BY <1>7, <1>9, <1>11, <1>12, <1>14, <1>15, <1>16, <1>17, OneMore

LEMMA ChangeLineKeeps ==
    ASSUME PayInv, NEW n \in Months, ChangeLine(n)
    PROVE  PayInv'
<1>1. periods \in Seq(PayPeriods) /\ n \in 1 .. Len(periods)
  BY DEF PayInv, PayTypes, Months
<1>2. PICK p \in PayPeriods : p = periods[n]
  BY <1>1, PeriodIs
<1>3. PICK line \in LoanLines : periods' = [periods EXCEPT ![n] = [p EXCEPT !.line = line]]
  <2>1. CASE periods' = [periods EXCEPT ![n].line = NoLine]
    BY <1>1, <1>2, <2>1 DEF LoanLines
  <2>2. CASE periods' = [periods EXCEPT ![n].line[1].stopped = ~periods[n].line[1].stopped]
    <3>1. p.line # NoLine
      BY <1>2 DEF ChangeLine
    <3>2. p.line = <<p.line[1]>> /\ p.line[1] \in [balance : Int, stopped : BOOLEAN]
      BY <3>1, PeriodIs, LineIs
    <3>3. PICK b \in [balance : Int, stopped : BOOLEAN] : b = [p.line[1] EXCEPT !.stopped = ~p.line[1].stopped]
      BY <3>2
    <3>4. [p.line EXCEPT ![1] = b] = <<b>>
      BY <3>2
    <3>5. periods' = [periods EXCEPT ![n] = [p EXCEPT !.line = [p.line EXCEPT ![1] = b]]]
      BY <1>1, <1>2, <2>2, <3>3
    <3> QED
      BY <3>4, <3>5 DEF LoanLines
  <2> QED
    BY <2>1, <2>2 DEF ChangeLine
<1>4. PICK r : r = [p EXCEPT !.line = line]
  OBVIOUS
<1>5. r \in PayPeriods /\ r.status = p.status /\ r.slip = p.slip /\ r.posted = p.posted
  BY <1>4 DEF PayPeriods
<1>6. periods' = [periods EXCEPT ![n] = r]
  BY <1>3, <1>4
<1>7. /\ periods' \in Seq(PayPeriods) /\ Len(periods') = Len(periods)
      /\ DOMAIN periods = 1 .. Len(periods) /\ DOMAIN periods' = 1 .. Len(periods)
      /\ periods'[n] = r /\ \A m \in 1 .. Len(periods) \ {n} : periods'[m] = periods[m]
  BY <1>1, <1>5, <1>6, ElementRewritten
<1>8. \A m \in 1 .. Len(periods) : /\ periods'[m].status = periods[m].status
                                   /\ periods'[m].slip = periods[m].slip
                                   /\ periods'[m].posted = periods[m].posted
  BY <1>2, <1>5, <1>7
<1>9. payReads' = payReads /\ payMarks' = payMarks \cup {"hand"}
  BY DEF ChangeLine
<1>10. PayTypes'
  BY <1>7, <1>9 DEF PayInv, PayTypes
<1>11. ClosedIsPosted'
  BY <1>7, <1>8, <1>9 DEF PayInv, ClosedIsPosted, Months
<1>12. OnePeriod'
  BY <1>7, <1>8, <1>9 DEF PayInv, OnePeriod, Months
<1> QED
  BY <1>9, <1>10, <1>11, <1>12 DEF PayInv

LEMMA PayStepInv == PayInv /\ [PayNext]_payVars => PayInv'
<1> SUFFICES ASSUME PayInv, [PayNext]_payVars PROVE PayInv'
  OBVIOUS
<1>1. ASSUME NEW c \in PayClerks, NEW op \in PayOps, NEW n \in Months, PayAsk(c, op, n) PROVE PayInv'
  BY <1>1, PayAskKeeps
<1>2. ASSUME NEW c \in PayClerks, RunPeriod(c) PROVE PayInv'
  BY <1>2, RunPeriodKeeps
<1>3. ASSUME NEW c \in PayClerks, SetPeriodStatus(c) PROVE PayInv'
  BY <1>3, SetPeriodStatusKeeps
<1>4. ASSUME NEW c \in PayClerks, ClosePeriod(c) PROVE PayInv'
  BY <1>4, ClosePeriodKeeps
<1>5. ASSUME NEW c \in PayClerks, PayRefused(c) PROVE PayInv'
  BY <1>5, PayRefusedKeeps
<1>6. ASSUME NEW name \in PeriodNames, CreatePeriod(name) PROVE PayInv'
  BY <1>6, CreatePeriodKeeps
<1>7. ASSUME NEW n \in Months, ChangeLine(n) PROVE PayInv'
  BY <1>7, ChangeLineKeeps
<1>8. CASE UNCHANGED payVars
  BY <1>8 DEF payVars, PayInv, PayTypes, ClosedIsPosted, OnePeriod, Months
<1> QED
  BY <1>1, <1>2, <1>3, <1>4, <1>5, <1>6, <1>7, <1>8 DEF PayNext, PayOps

LEMMA PayrollIsSound == PayInv => PayrollHolds
<1> SUFFICES ASSUME PayInv PROVE PayrollHolds
  OBVIOUS
<1>1. DOMAIN periods = Months
  BY DEF Months
<1>2. Deducted = SlipsOf(periods)
  <2>1. DOMAIN [n \in Months |-> periods[n].slip] = Months
    OBVIOUS
  <2> QED
    BY <2>1, SumOfFunction DEF Deducted, SlipsOf, Months
<1>3. payMarks \subseteq {"beside"} => LoanAgrees /\ Deducted < Loan + Instalment
  BY <1>2 DEF PayInv, LoanInv, LoanAgrees, LastLine, IsLast, Months
<1>4. "late" \notin payMarks =>
         \A n \in Months : periods[n].status = "CLOSED" => periods[n].posted = periods[n].slip
  BY DEF PayInv, ClosedIsPosted
<1>5. payMarks \cap {"late", "beside"} = {} =>
         \A n, k \in Months :
            {periods[n].status, periods[k].status} \subseteq {"OPEN", "PENDING_APPROVAL"} => n = k
  BY DEF PayInv, OnePeriod
<1> QED
  BY <1>3, <1>4, <1>5 DEF PayrollHolds

-----------------------------------------------------------------------------
(* Imprests and claims, for any number of documents and requests, any amount*)
(* advanced, spent and claimed, any limit.                                  *)
(*                                                                          *)
(* The inductive invariant follows a document that nothing disturbed: not   *)
(* posted it has no balance and no line, outstanding it has the advance and *)
(* no line, settled it has the balance that its lines on the payroll take.  *)
(* Between the line of a transfer and its mark only the last holds, and not *)
(* even that while two requests transfer one document; the one that comes   *)
(* second finds the document changed.  The payslip is a beginning of the    *)
(* lines, so that each amount settles the document of its own line.         *)

PaperRecords ==
    [kind : {"imprest", "claim"}, spent : Spent, toPayroll : BOOLEAN,
     posted : BOOLEAN, surrendered : BOOLEAN, transferred : BOOLEAN]
ImpOps == {"issue", "claim", "surrender", "transfer"}
ImpLines == [doc : Papers, amount : Int]
Desks == {<<>>} \cup (ImpOps \X Papers \X PaperRecords \X Int) \cup ({"mark"} \X Papers \X PaperRecords)

ImpTypes ==
    /\ paper \in [Papers -> PaperRecords] /\ empLedger \in [Papers -> Int] /\ control \in Int
    /\ payLines \in Seq(ImpLines) /\ payslip \in Seq(ImpLines)
    /\ desk \in [Officers -> Desks]

SameDocument(p, q) == p.kind = q.kind /\ p.spent = q.spent /\ p.toPayroll = q.toPayroll

\* What is sure of a document p while a request at work w has not finished.
Knows(w, p) ==
    /\ SameDocument(w[3], p) /\ (w[3].posted => p.posted)
    /\ w[1] = "issue" => w[3].kind = "imprest" /\ ~w[3].posted
    /\ w[1] = "claim" => w[3].kind = "claim" /\ ~w[3].posted
    /\ w[1] \in {"surrender", "transfer", "mark"} =>
          w[3].kind = "imprest" /\ w[3].posted /\ ~w[3].surrendered /\ ~w[3].transferred

AllKnow == \A o \in Officers : desk[o] # <<>> => Knows(desk[o], paper[desk[o][2]])

KeysUsed ==
    \A d \in Papers :
        /\ <<"issue", d>> \in keys \/ <<"claim", d>> \in keys => paper[d].posted
        /\ <<"surrender", d>> \in keys => paper[d].surrendered

SlipIsBeginning ==
    "hand" \notin impMarks =>
        /\ Len(payslip) <= Len(payLines)
        /\ \A i \in 1 .. Len(payslip) : payslip[i] = payLines[i]

\* What lines L have for document d.
AmountFor(L, d) == [i \in 1 .. Len(L) |-> IF L[i].doc = d THEN L[i].amount ELSE 0]
DueIn(L, d) == SumOver(AmountFor(L, d), 1 .. Len(L))
NoLines(L, d) == \A i \in 1 .. Len(L) : L[i].doc # d

\* A document p of number d and balance e beside lines L.
Settles(p) == p.surrendered \/ p.transferred \/ (p.posted /\ p.kind = "claim")
DocSound(p, e, L, d) ==
    /\ ~p.posted => e = 0 /\ NoLines(L, d) /\ ~p.surrendered /\ ~p.transferred
    /\ p.posted /\ ~Settles(p) => e = Advance /\ NoLines(L, d)
    /\ Settles(p) => e = DueIn(L, d)

\* Request o is between the line and the mark of a transfer of d, of those at work in K.
Marks(K, o, d) == K[o] # <<>> /\ K[o][1] = "mark" /\ K[o][2] = d

PaperInv(p, e, L, K, d) ==
    /\ (\A o \in Officers : ~Marks(K, o, d)) => DocSound(p, e, L, d)
    /\ \A o \in Officers :
          Marks(K, o, d) /\ p = K[o][3] /\ (\A q \in Officers : Marks(K, q, d) => q = o) => e = DueIn(L, d)
    /\ \A o \in Officers :
          /\ K[o] # <<>> /\ K[o][1] = "transfer" /\ K[o][2] = d /\ p = K[o][3]
          /\ \A q \in Officers : ~Marks(K, q, d)
          => K[o][4] = Advance

AllDocs ==
    impMarks \subseteq {"over"} => \A d \in Papers : PaperInv(paper[d], empLedger[d], payLines, desk, d)

LedgerMirrored ==
    impMarks \cap {"twice", "both", "hand"} = {} => control = SumOver(empLedger, Papers)

ImpInv ==
    /\ ImpTypes /\ AllKnow /\ KeysUsed /\ SlipIsBeginning
    /\ AllDocs /\ LedgerMirrored /\ WithinLimit

-----------------------------------------------------------------------------
\* The lines of a document, as sums.

LEMMA LineFields ==
    ASSUME NEW L \in Seq(ImpLines)
    PROVE  /\ Len(L) \in Nat /\ DOMAIN L = 1 .. Len(L) /\ IsFiniteSet(1 .. Len(L))
           /\ \A i \in 1 .. Len(L) : L[i] \in ImpLines /\ L[i].doc \in Papers /\ L[i].amount \in Int
<1>1. Len(L) \in Nat /\ DOMAIN L = 1 .. Len(L)
  OBVIOUS
<1>2. IsFiniteSet(1 .. Len(L))
  BY <1>1, FS_Interval
<1>3. \A i \in 1 .. Len(L) : L[i] \in ImpLines
  OBVIOUS
<1>4. \A l \in ImpLines : l.doc \in Papers /\ l.amount \in Int
  BY DEF ImpLines
<1> QED
  BY <1>1, <1>2, <1>3, <1>4

LEMMA DueIsInt ==
    ASSUME NEW L \in Seq(ImpLines), NEW d
    PROVE  /\ DueIn(L, d) \in Int
           /\ \A i \in 1 .. Len(L) : AmountFor(L, d)[i] \in Int
                                     /\ AmountFor(L, d)[i] = IF L[i].doc = d THEN L[i].amount ELSE 0
           /\ NoLines(L, d) => DueIn(L, d) = 0
<1>1. IsFiniteSet(1 .. Len(L)) /\ \A i \in 1 .. Len(L) : L[i].amount \in Int
  BY LineFields
<1>2. \A i \in 1 .. Len(L) : AmountFor(L, d)[i] \in Int
                             /\ AmountFor(L, d)[i] = IF L[i].doc = d THEN L[i].amount ELSE 0
  BY <1>1 DEF AmountFor
<1>3. DueIn(L, d) \in Int
  BY <1>1, <1>2, SumIsInt DEF DueIn
<1>4. ASSUME NoLines(L, d) PROVE DueIn(L, d) = 0
  <2>1. \A i \in 1 .. Len(L) : AmountFor(L, d)[i] = 0
    BY <1>2, <1>4 DEF NoLines
  <2> QED
    BY <1>1, <2>1, SumOfZeros DEF DueIn
<1> QED
  BY <1>2, <1>3, <1>4

\* A line more.
LEMMA DueAppended ==
    ASSUME NEW L \in Seq(ImpLines), NEW d, NEW l \in ImpLines, NEW M, M = Append(L, l)
    PROVE  /\ DueIn(M, d) = DueIn(L, d) + (IF l.doc = d THEN l.amount ELSE 0)
           /\ NoLines(M, d) <=> NoLines(L, d) /\ l.doc # d
<1> DEFINE new == Len(L) + 1
<1>1. /\ M \in Seq(ImpLines) /\ Len(L) \in Nat /\ Len(M) = new
      /\ 1 .. new = (1 .. Len(L)) \cup {new} /\ new \notin 1 .. Len(L)
      /\ M[new] = l /\ \A i \in 1 .. Len(L) : M[i] = L[i]
  OBVIOUS
<1>2. IsFiniteSet(1 .. Len(L))
  BY LineFields
<1>3. \A i \in 1 .. Len(L) : AmountFor(L, d)[i] \in Int
                             /\ AmountFor(L, d)[i] = IF L[i].doc = d THEN L[i].amount ELSE 0
  BY DueIsInt
<1>m. M \in Seq(ImpLines)
  BY <1>1
<1>4. \A i \in 1 .. Len(M) : AmountFor(M, d)[i] \in Int
                             /\ AmountFor(M, d)[i] = IF M[i].doc = d THEN M[i].amount ELSE 0
  <2>1. \A i \in 1 .. Len(M) : M[i].amount \in Int
    BY <1>m, LineFields
  <2> QED
    BY <2>1 DEF AmountFor
<1> HIDE DEF new
<1>5. \A i \in 1 .. Len(L) : AmountFor(L, d)[i] = AmountFor(M, d)[i] /\ AmountFor(L, d)[i] \in Int
  BY <1>1, <1>3, <1>4
<1>6. SumOver(AmountFor(L, d), 1 .. Len(L)) = SumOver(AmountFor(M, d), 1 .. Len(L))
  BY <1>2, <1>5, SumSame
<1>7. \A i \in (1 .. Len(L)) \cup {new} : AmountFor(M, d)[i] \in Int
  BY <1>1, <1>4
<1>8. SumOver(AmountFor(M, d), (1 .. Len(L)) \cup {new})
        = SumOver(AmountFor(M, d), 1 .. Len(L)) + AmountFor(M, d)[new]
  <2>1. new \notin 1 .. Len(L)
    BY <1>1
  <2> QED
    BY <1>2, <1>7, <2>1, SumWith
<1>9. AmountFor(M, d)[new] = IF l.doc = d THEN l.amount ELSE 0
  BY <1>1, <1>4
<1>10. DueIn(M, d) = DueIn(L, d) + (IF l.doc = d THEN l.amount ELSE 0)
  BY <1>1, <1>6, <1>8, <1>9 DEF DueIn
<1>11. NoLines(M, d) <=> NoLines(L, d) /\ l.doc # d
  BY <1>1 DEF NoLines
<1> QED
  BY <1>10, <1>11

LEMMA DueOfNone == \A d : DueIn(<<>>, d) = 0 /\ NoLines(<<>>, d)
<1>1. ASSUME NEW d PROVE DueIn(<<>>, d) = 0 /\ NoLines(<<>>, d)
  <2>1. 1 .. Len(<<>>) = {}
    OBVIOUS
  <2> QED
    BY <2>1, SumOfNothing DEF DueIn, NoLines
<1> QED
  BY <1>1

\* Every line belongs to one document: what they have for each adds up to them all.
LEMMA DueOfAll ==
    ASSUME NEW L \in Seq(ImpLines), NEW due, \A d \in Papers : due[d] = DueIn(L, d),
           NEW all, \A i \in 1 .. Len(L) : all[i] = L[i].amount
    PROVE  SumOver(due, Papers) = SumOver(all, 1 .. Len(L))
<1> DEFINE byDoc == [d \in Papers |-> AmountFor(L, d)]
           byLine == [i \in 1 .. Len(L) |-> [d \in Papers |-> AmountFor(L, d)[i]]]
<1>1. IsFiniteSet(1 .. Len(L)) /\ IsFiniteSet(Papers)
  BY LineFields, ImprestAssumption
<1>2. \A d \in Papers : \A i \in 1 .. Len(L) :
         AmountFor(L, d)[i] \in Int /\ AmountFor(L, d)[i] = IF L[i].doc = d THEN L[i].amount ELSE 0
  BY DueIsInt
<1>3. \A d \in Papers : \A i \in 1 .. Len(L) : byDoc[d][i] \in Int /\ byLine[i][d] = byDoc[d][i]
  BY <1>2
<1>4. \A d \in Papers : due[d] = SumOver(byDoc[d], 1 .. Len(L))
  BY DEF DueIn
<1>5. \A i \in 1 .. Len(L) : all[i] = SumOver(byLine[i], Papers)
  <2> SUFFICES ASSUME NEW i \in 1 .. Len(L) PROVE all[i] = SumOver(byLine[i], Papers)
    OBVIOUS
  <2>1. L[i].doc \in Papers /\ L[i].amount \in Int
    BY LineFields
  <2>2. \A d \in Papers : byLine[i][d] \in Int /\ byLine[i][d] = IF L[i].doc = d THEN L[i].amount ELSE 0
    BY <1>2
  <2> HIDE DEF byLine
  <2>3. {L[i].doc} \in SUBSET Papers /\ \A d \in Papers \ {L[i].doc} : byLine[i][d] = 0
    BY <2>1, <2>2
  <2>4. SumOver(byLine[i], Papers) = SumOver(byLine[i], {L[i].doc})
    BY <1>1, <2>2, <2>3, SumOfPart
  <2>5. byLine[i][L[i].doc] = L[i].amount
    BY <2>1, <2>2
  <2>6. SumOver(byLine[i], {L[i].doc}) = L[i].amount
    BY <2>1, <2>5, SumOfOne
  <2> QED
    BY <2>4, <2>6
<1> HIDE DEF byDoc, byLine
<1>6. Table(Papers, 1 .. Len(L), byDoc, byLine, due, all)
  BY <1>3, <1>4, <1>5 DEF Table
<1> QED
  BY <1>1, <1>6, SumsExchange

\* With one line of each code, a payslip that is a beginning of the lines settles for each
\* document what the payslip has for it.
LEMMA SettledIs ==
    ASSUME payLines \in Seq(ImpLines), payslip \in Seq(ImpLines), NEW d,
           Len(payslip) <= Len(payLines), \A i \in 1 .. Len(payslip) : payslip[i] = payLines[i],
           \A i, j \in 1 .. Len(payLines) : i # j => ~SameCode(payLines[i], payLines[j])
    PROVE  Settled(d) = DueIn(payslip, d)
<1> DEFINE Ls == 1 .. Len(payLines)
           Ss == 1 .. Len(payslip)
           f == [j \in LinesFor(d) |-> SumFunction([i \in OfCode(payLines[j]) |-> payslip[i].amount])]
           g == [j \in Ls |-> IF j \in Ss /\ payLines[j].doc = d THEN payslip[j].amount ELSE 0]
<1>1. /\ IsFiniteSet(Ls) /\ IsFiniteSet(Ss) /\ Ss \subseteq Ls
      /\ DOMAIN payLines = Ls /\ DOMAIN payslip = Ss
  <2>1. IsFiniteSet(Ls) /\ DOMAIN payLines = Ls /\ Len(payLines) \in Nat
    BY LineFields
  <2>2. IsFiniteSet(Ss) /\ DOMAIN payslip = Ss /\ Len(payslip) \in Nat
    BY LineFields
  <2> QED
    BY <2>1, <2>2
<1>2. \A i \in Ss : payslip[i].amount \in Int
  BY LineFields
<1>3. \A j \in Ls : g[j] \in Int /\ g[j] = IF j \in Ss /\ payLines[j].doc = d THEN payslip[j].amount ELSE 0
  BY <1>2
<1>4. LinesFor(d) = {j \in Ls : payLines[j].doc = d}
  BY <1>1 DEF LinesFor
<1>5. ASSUME NEW j \in LinesFor(d) PROVE f[j] = g[j] /\ f[j] \in Int
  <2> DEFINE h == [i \in OfCode(payLines[j]) |-> payslip[i].amount]
  <2>1. j \in Ls /\ payLines[j].doc = d
    BY <1>4, <1>5
  <2>2. f[j] = SumOver(h, OfCode(payLines[j]))
    BY SumOfFunction
  <2>3. OfCode(payLines[j]) = {i \in Ss : SameCode(payLines[i], payLines[j])}
    BY <1>1 DEF OfCode
  <2>4. CASE j \in Ss
    <3>1. OfCode(payLines[j]) = {j}
      BY <1>1, <2>1, <2>3, <2>4 DEF SameCode
    <3>2. h[j] = payslip[j].amount /\ h[j] \in Int
      BY <1>2, <2>4, <3>1
    <3> HIDE DEF h, f, g
    <3>3. f[j] = h[j]
      BY <2>2, <3>1, <3>2, SumOfOne
    <3> QED
      BY <1>3, <2>1, <2>4, <3>2, <3>3
  <2>5. CASE j \notin Ss
    <3>1. OfCode(payLines[j]) = {}
      BY <1>1, <2>1, <2>3, <2>5
    <3> HIDE DEF h, f, g
    <3>2. f[j] = 0
      BY <2>2, <3>1, SumOfNothing
    <3> QED
      BY <1>3, <2>1, <2>5, <3>2
  <2> QED
    BY <2>4, <2>5
<1>6. Settled(d) = SumOver(f, LinesFor(d))
  BY SumOfFunction DEF Settled
<1>7. \A i \in Ss : AmountFor(payslip, d)[i] = IF payslip[i].doc = d THEN payslip[i].amount ELSE 0
  BY DueIsInt
<1>8. LinesFor(d) \in SUBSET Ls /\ \A j \in Ls \ LinesFor(d) : g[j] = 0
  BY <1>3, <1>4
<1>9. Ss \in SUBSET Ls /\ \A j \in Ls \ Ss : g[j] = 0
  BY <1>1, <1>3
<1>10. \A j \in Ss : g[j] = AmountFor(payslip, d)[j] /\ g[j] \in Int
  BY <1>1, <1>3, <1>7
<1> HIDE DEF f, g
<1>11. IsFiniteSet(LinesFor(d))
  BY <1>1, <1>8, FS_Subset
<1>12. SumOver(f, LinesFor(d)) = SumOver(g, LinesFor(d))
  BY <1>5, <1>11, SumSame
<1>13. SumOver(g, Ls) = SumOver(g, LinesFor(d))
  BY <1>1, <1>3, <1>8, SumOfPart
<1>14. SumOver(g, Ls) = SumOver(g, Ss)
  BY <1>1, <1>3, <1>9, SumOfPart
<1>15. SumOver(g, Ss) = DueIn(payslip, d)
  BY <1>1, <1>10, SumSame DEF DueIn
<1> QED
  BY <1>6, <1>12, <1>13, <1>14, <1>15

-----------------------------------------------------------------------------
\* The steps.

\* What is on a desk.
LEMMA DeskIs ==
    ASSUME ImpTypes, NEW o \in Officers, desk[o] # <<>>
    PROVE  /\ desk[o][1] \in ImpOps \cup {"mark"} /\ desk[o][2] \in Papers /\ desk[o][3] \in PaperRecords
           /\ desk[o][1] = "transfer" => desk[o][4] \in Int
<1>1. desk[o] \in Desks
  BY DEF ImpTypes
<1>2. CASE desk[o] \in ImpOps \X Papers \X PaperRecords \X Int
  BY <1>2
<1>3. CASE desk[o] \in {"mark"} \X Papers \X PaperRecords
  BY <1>3
<1> QED
  BY <1>1, <1>2, <1>3 DEF Desks

\* What was known stays known: a document keeps what it is of, and stays posted.
LEMMA KnowsKept ==
    ASSUME NEW w, NEW p, NEW q, Knows(w, p), SameDocument(p, q), p.posted => q.posted
    PROVE  Knows(w, q)
BY DEF Knows, SameDocument

\* A document that is not touched.
LEMMA DocKept ==
    ASSUME NEW p, NEW e, NEW L, NEW K, NEW M, NEW J, NEW d, PaperInv(p, e, L, K, d),
           DueIn(M, d) = DueIn(L, d), NoLines(M, d) <=> NoLines(L, d),
           \A o \in Officers : Marks(J, o, d) <=> Marks(K, o, d),
           \A o \in Officers : J[o] # <<>> /\ J[o][2] = d => J[o] = K[o]
    PROVE  PaperInv(p, e, M, J, d)
<1>1. (\A o \in Officers : ~Marks(J, o, d)) => DocSound(p, e, M, d)
  BY DEF PaperInv, DocSound
<1>2. ASSUME NEW o \in Officers, Marks(J, o, d), p = J[o][3], \A q \in Officers : Marks(J, q, d) => q = o
      PROVE  e = DueIn(M, d)
  <2>1. Marks(K, o, d) /\ J[o] = K[o] /\ \A q \in Officers : Marks(K, q, d) => q = o
    BY <1>2 DEF Marks
  <2>2. p = K[o][3]
    BY <1>2, <2>1
  <2> QED
    BY <2>1, <2>2 DEF PaperInv
<1>3. ASSUME NEW o \in Officers, J[o] # <<>>, J[o][1] = "transfer", J[o][2] = d, p = J[o][3],
             \A q \in Officers : ~Marks(J, q, d)
      PROVE  J[o][4] = Advance
  <2>1. J[o] = K[o] /\ \A q \in Officers : ~Marks(K, q, d)
    BY <1>3
  <2>2. K[o] # <<>> /\ K[o][1] = "transfer" /\ K[o][2] = d /\ p = K[o][3]
    BY <1>3, <2>1
  <2> QED
    BY <2>1, <2>2 DEF PaperInv
<1> QED
  BY <1>1, <1>2, <1>3 DEF PaperInv

LEMMA LookAtKeeps ==
    ASSUME ImpInv, NEW o \in Officers, NEW op \in ImpOps, NEW d \in Papers, LookAt(o, op, d)
    PROVE  ImpInv'
<1>1. PICK w : w = <<op, d, paper[d], empLedger[d]>>
  OBVIOUS
<1>2. /\ desk[o] = <<>> /\ Allows(op, d) /\ desk' = [desk EXCEPT ![o] = w]
      /\ UNCHANGED <<paper, empLedger, control, keys, payLines, payslip, payroll, impMarks>>
  BY <1>1 DEF LookAt
<1>3. paper[d] \in PaperRecords /\ empLedger[d] \in Int
  BY DEF ImpInv, ImpTypes
<1>4. w \in Desks /\ w # <<>> /\ w[1] = op /\ w[2] = d /\ w[3] = paper[d] /\ w[4] = empLedger[d]
  BY <1>1, <1>3 DEF Desks
<1>5. ImpTypes'
  BY <1>2, <1>4 DEF ImpInv, ImpTypes
<1>6. \A q \in Officers : desk'[q] = IF q = o THEN w ELSE desk[q]
  BY <1>2 DEF ImpInv, ImpTypes
<1>7. Knows(w, paper[d])
  BY <1>2, <1>3, <1>4 DEF Allows, Outstanding, Knows, SameDocument, ImpOps, PaperRecords
<1>8. AllKnow'
  <2> SUFFICES ASSUME NEW q \in Officers, desk'[q] # <<>> PROVE Knows(desk'[q], paper[desk'[q][2]])
    BY <1>2 DEF AllKnow
  <2>1. CASE q = o
    BY <1>4, <1>6, <1>7, <2>1
  <2>2. CASE q # o
    BY <1>6, <2>2 DEF ImpInv, AllKnow
  <2> QED
    BY <2>1, <2>2
<1>9. \A q \in Officers, x \in Papers : Marks(desk', q, x) <=> Marks(desk, q, x)
  BY <1>2, <1>4, <1>6 DEF Marks, ImpOps
<1>10. ASSUME impMarks \subseteq {"over"}, NEW x \in Papers
       PROVE  PaperInv(paper[x], empLedger[x], payLines, desk', x)
  <2>1. PaperInv(paper[x], empLedger[x], payLines, desk, x)
    BY <1>10 DEF ImpInv, AllDocs
  <2>2. CASE x # d
    <3>1. \A q \in Officers : desk'[q] # <<>> /\ desk'[q][2] = x => desk'[q] = desk[q]
      BY <1>4, <1>6, <2>2
    <3>2. \A q \in Officers : Marks(desk', q, x) <=> Marks(desk, q, x)
      BY <1>9
    <3> QED
      BY <2>1, <3>1, <3>2, DocKept
  <2>3. CASE x = d
    <3>1. (\A q \in Officers : ~Marks(desk', q, x)) => DocSound(paper[x], empLedger[x], payLines, x)
      BY <1>9, <2>1 DEF PaperInv
    <3>2. ASSUME NEW q \in Officers, Marks(desk', q, x), paper[x] = desk'[q][3],
                 \A k \in Officers : Marks(desk', k, x) => k = q
          PROVE  empLedger[x] = DueIn(payLines, x)
      <4>1. Marks(desk, q, x) /\ \A k \in Officers : Marks(desk, k, x) => k = q
        BY <1>9, <3>2
      <4>2. q # o
        BY <1>2, <4>1 DEF Marks
      <4>3. paper[x] = desk[q][3]
        BY <1>6, <3>2, <4>2
      <4> QED
        BY <2>1, <4>1, <4>3 DEF PaperInv
    <3>3. ASSUME NEW q \in Officers, desk'[q] # <<>>, desk'[q][1] = "transfer", desk'[q][2] = x,
                 paper[x] = desk'[q][3], \A k \in Officers : ~Marks(desk', k, x)
          PROVE  desk'[q][4] = Advance
      <4>1. \A k \in Officers : ~Marks(desk, k, x)
        BY <1>9, <3>3
      <4>2. CASE q # o
        <5>1. desk'[q] = desk[q]
          BY <1>6, <4>2
        <5> QED
          BY <2>1, <3>3, <4>1, <5>1 DEF PaperInv
      <4>3. CASE q = o
        <5>1. desk'[q] = w /\ op = "transfer"
          BY <1>4, <1>6, <3>3, <4>3
        <5>2. DocSound(paper[d], empLedger[d], payLines, d)
          BY <2>1, <2>3, <4>1 DEF PaperInv
        <5>3. paper[d].posted /\ paper[d].kind = "imprest" /\ ~paper[d].surrendered /\ ~paper[d].transferred
          BY <1>2, <5>1 DEF Allows, Outstanding
        <5>4. empLedger[d] = Advance
          BY <5>2, <5>3 DEF DocSound, Settles
        <5> QED
          BY <1>4, <5>1, <5>4
      <4> QED
        BY <4>2, <4>3
    <3> QED
      BY <3>1, <3>2, <3>3 DEF PaperInv
  <2> QED
    BY <2>2, <2>3
<1>11. AllDocs'
  BY <1>2, <1>10 DEF AllDocs
<1>12. KeysUsed' /\ SlipIsBeginning' /\ LedgerMirrored' /\ WithinLimit'
  BY <1>2 DEF ImpInv, KeysUsed, SlipIsBeginning, LedgerMirrored, WithinLimit, Outstanding
<1> QED
  BY <1>5, <1>8, <1>11, <1>12 DEF ImpInv

\* What a posting does: a claim is owed and sent alike, a surrender owes nothing but what it sends.
LEMMA EffectIs ==
    ASSUME NEW op \in {"issue", "claim", "surrender"}, NEW p \in PaperRecords
    PROVE  /\ Effect(op, p).ledger \in Int /\ Effect(op, p).send \in Int
           /\ op = "issue" => Effect(op, p).ledger = Advance /\ Effect(op, p).send = 0
           /\ op = "claim" => Effect(op, p).ledger = Effect(op, p).send
           /\ op = "surrender" => Effect(op, p).ledger = Effect(op, p).send - Advance
<1>1. p.spent \in Int /\ Advance \in Int
  <2>1. p.spent \in Spent
    BY DEF PaperRecords
  <2>2. \A a \in Spent : a \in Int
    BY ImprestAssumption
  <2>3. Advance \in Int
    BY ImprestAssumption
  <2> QED
    BY <2>1, <2>2, <2>3
<1>2. CASE op = "issue"
  BY <1>1, <1>2 DEF Effect
<1>3. CASE op = "claim"
  <2>1. CASE p.toPayroll
    <3>1. Effect(op, p) = [ledger |-> -p.spent, send |-> -p.spent]
      BY <1>3, <2>1 DEF Effect
    <3> QED
      BY <1>1, <1>3, <3>1
  <2>2. CASE ~p.toPayroll
    <3>1. Effect(op, p) = [ledger |-> 0, send |-> 0]
      BY <1>3, <2>2 DEF Effect
    <3> QED
      BY <1>3, <3>1
  <2> QED
    BY <2>1, <2>2
<1>4. CASE op = "surrender"
  <2>1. CASE p.toPayroll /\ Advance - p.spent # 0
    <3>1. Effect(op, p) = [ledger |-> -p.spent, send |-> Advance - p.spent]
      BY <1>4, <2>1 DEF Effect
    <3> QED
      BY <1>1, <1>4, <3>1
  <2>2. CASE ~(p.toPayroll /\ Advance - p.spent # 0)
    <3>1. Effect(op, p) = [ledger |-> -Advance, send |-> 0]
      BY <1>4, <2>2 DEF Effect
    <3> QED
      BY <1>1, <1>4, <3>1
  <2> QED
    BY <2>1, <2>2
<1> QED
  BY <1>2, <1>3, <1>4

\* What is sent to the payroll is one line of its document, or none.
LEMMA SentIs ==
    ASSUME ImpInv, NEW d \in Papers, NEW amount \in Int, NEW M, M = Sent(d, amount)
    PROVE  /\ M \in Seq(ImpLines)
           /\ \A x : /\ DueIn(payLines, x) \in Int
                     /\ DueIn(M, x) = DueIn(payLines, x) + (IF x = d THEN amount ELSE 0)
                     /\ x # d \/ amount = 0 => (NoLines(M, x) <=> NoLines(payLines, x))
           /\ "hand" \notin impMarks =>
                 Len(payslip) <= Len(M) /\ \A i \in 1 .. Len(payslip) : payslip[i] = M[i]
<1>1. payLines \in Seq(ImpLines) /\ payslip \in Seq(ImpLines) /\ Len(payslip) \in Nat /\ Len(payLines) \in Nat
  BY DEF ImpInv, ImpTypes
<1>2. ASSUME NEW x PROVE DueIn(payLines, x) \in Int
  BY <1>1, DueIsInt
<1>3. CASE amount = 0
  <2>1. M = payLines
    BY <1>3 DEF Sent
  <2> QED
    BY <1>1, <1>2, <1>3, <2>1 DEF ImpInv, SlipIsBeginning
<1>4. CASE amount # 0
  <2>1. PICK l \in ImpLines : l = [doc |-> d, amount |-> amount]
    BY DEF ImpLines
  <2>2. M = Append(payLines, l) /\ l.doc = d /\ l.amount = amount
    BY <1>4, <2>1 DEF Sent
  <2>3. M \in Seq(ImpLines) /\ Len(M) = Len(payLines) + 1 /\ \A i \in 1 .. Len(payLines) : M[i] = payLines[i]
    BY <1>1, <2>2
  <2>4. ASSUME NEW x
        PROVE  /\ DueIn(M, x) = DueIn(payLines, x) + (IF x = d THEN amount ELSE 0)
               /\ x # d \/ amount = 0 => (NoLines(M, x) <=> NoLines(payLines, x))
    <3>1. DueIn(M, x) = DueIn(payLines, x) + (IF l.doc = x THEN l.amount ELSE 0)
      BY <1>1, <2>2, DueAppended
    <3>2. NoLines(M, x) <=> NoLines(payLines, x) /\ l.doc # x
      BY <1>1, <2>2, DueAppended
    <3> QED
      BY <1>4, <2>2, <3>1, <3>2
  <2>5. "hand" \notin impMarks =>
           Len(payslip) <= Len(M) /\ \A i \in 1 .. Len(payslip) : payslip[i] = M[i]
    BY <1>1, <2>3 DEF ImpInv, SlipIsBeginning
  <2> QED
    BY <1>2, <2>3, <2>4, <2>5
<1> QED
  BY <1>3, <1>4

\* A document that is posted on what it was read as stays sound.
LEMMA PostedSound ==
    ASSUME NEW op \in {"issue", "claim", "surrender"}, NEW p \in PaperRecords, NEW e, NEW d,
           NEW booked \in Int, NEW send \in Int, NEW L \in Seq(ImpLines), NEW M,
           DueIn(M, d) = DueIn(L, d) + send, send = 0 => (NoLines(M, d) <=> NoLines(L, d)),
           op = "issue" => p.kind = "imprest" /\ ~p.posted /\ booked = Advance /\ send = 0,
           op = "claim" => p.kind = "claim" /\ ~p.posted /\ booked = send,
           op = "surrender" => /\ p.kind = "imprest" /\ p.posted /\ ~p.surrendered /\ ~p.transferred
                               /\ booked = send - Advance,
           NEW r, r.kind = p.kind, r.posted,
           r.surrendered <=> (p.surrendered \/ op = "surrender"),
           r.transferred <=> (IF op = "surrender" THEN send # 0 ELSE p.transferred),
           DocSound(p, e, L, d)
    PROVE  DocSound(r, e + booked, M, d)
<1>1. Advance \in Int /\ DueIn(L, d) \in Int
  BY ImprestAssumption, DueIsInt
<1>2. NoLines(L, d) => DueIn(L, d) = 0
  BY DueIsInt
<1>3. CASE op = "issue"
  <2>1. e = 0 /\ NoLines(L, d) /\ ~p.surrendered /\ ~p.transferred
    BY <1>3 DEF DocSound
  <2>2. e + booked = Advance /\ NoLines(M, d) /\ ~r.surrendered /\ ~r.transferred
    BY <1>1, <1>3, <2>1
  <2>3. r.kind # "claim"
    BY <1>3
  <2> QED
    BY <2>2, <2>3 DEF DocSound, Settles
<1>4. CASE op = "claim"
  <2>1. e = 0 /\ NoLines(L, d)
    BY <1>4 DEF DocSound
  <2>2. e + booked = DueIn(M, d)
    BY <1>1, <1>2, <1>4, <2>1
  <2>3. r.kind = "claim"
    BY <1>4
  <2> QED
    BY <2>2, <2>3 DEF DocSound, Settles
<1>5. CASE op = "surrender"
  <2>1. ~Settles(p)
    BY <1>5 DEF Settles
  <2>2. e = Advance /\ NoLines(L, d)
    BY <1>5, <2>1 DEF DocSound
  <2>3. e + booked = DueIn(M, d) /\ r.surrendered
    BY <1>1, <1>2, <1>5, <2>2
  <2> QED
    BY <2>3 DEF DocSound, Settles
<1> QED
  BY <1>3, <1>4, <1>5

\* A document that is posted was not posted under the same key before, unless it changed.
LEMMA KeyIsNew ==
    ASSUME ImpInv, NEW o \in Officers, desk[o] # <<>>,
           NEW op \in {"issue", "claim", "surrender"}, op = desk[o][1], NEW d \in Papers, d = desk[o][2],
           paper[d] = desk[o][3]
    PROVE  /\ <<op, d>> \notin keys
           /\ op = "issue" => paper[d].kind = "imprest" /\ ~paper[d].posted
           /\ op = "claim" => paper[d].kind = "claim" /\ ~paper[d].posted
           /\ op = "surrender" => /\ paper[d].kind = "imprest" /\ paper[d].posted
                                  /\ ~paper[d].surrendered /\ ~paper[d].transferred
<1>1. Knows(desk[o], paper[d])
  BY DEF ImpInv, AllKnow
<1>2. /\ op = "issue" => paper[d].kind = "imprest" /\ ~paper[d].posted
      /\ op = "claim" => paper[d].kind = "claim" /\ ~paper[d].posted
      /\ op = "surrender" => /\ paper[d].kind = "imprest" /\ paper[d].posted
                             /\ ~paper[d].surrendered /\ ~paper[d].transferred
  BY <1>1 DEF Knows
<1>3. /\ <<"issue", d>> \in keys \/ <<"claim", d>> \in keys => paper[d].posted
      /\ <<"surrender", d>> \in keys => paper[d].surrendered
  BY DEF ImpInv, KeysUsed
<1> QED
  BY <1>2, <1>3

\* What the requests know is still so after a step that clears desks and keeps documents posted.
LEMMA AllKnowKept ==
    ASSUME ImpInv,
           \A d \in Papers : SameDocument(paper[d], paper'[d]) /\ (paper[d].posted => paper'[d].posted),
           \A o \in Officers : desk'[o] # <<>> => desk'[o] = desk[o]
    PROVE  AllKnow'
<1> SUFFICES ASSUME NEW o \in Officers, desk'[o] # <<>> PROVE Knows(desk'[o], paper'[desk'[o][2]])
  BY DEF AllKnow
<1>1. desk'[o] = desk[o] /\ desk[o] # <<>>
  OBVIOUS
<1>2. desk[o][2] \in Papers
  BY <1>1, DeskIs DEF ImpInv
<1>3. Knows(desk[o], paper[desk[o][2]])
  BY <1>1 DEF ImpInv, AllKnow
<1>4. Knows(desk[o], paper'[desk[o][2]])
  BY <1>2, <1>3, KnowsKept
<1> QED
  BY <1>1, <1>4

\* An entry of the employee ledger, and the balance with it.
LEMMA LedgerChanged ==
    ASSUME ImpInv, NEW d \in Papers, NEW a \in Int, empLedger' = [empLedger EXCEPT ![d] = @ + a]
    PROVE  /\ SumOver(empLedger, Papers) \in Int
           /\ SumOver(empLedger', Papers) = SumOver(empLedger, Papers) + a
           /\ empLedger' \in [Papers -> Int]
           /\ empLedger'[d] = empLedger[d] + a /\ \A x \in Papers \ {d} : empLedger'[x] = empLedger[x]
<1>1. empLedger \in [Papers -> Int] /\ IsFiniteSet(Papers)
  BY ImprestAssumption DEF ImpInv, ImpTypes
<1>2. /\ empLedger' \in [Papers -> Int]
      /\ empLedger'[d] = empLedger[d] + a /\ \A x \in Papers \ {d} : empLedger'[x] = empLedger[x]
  BY <1>1
<1>3. PICK f, g : f = empLedger /\ g = empLedger'
  OBVIOUS
<1>4. \A x \in Papers : f[x] \in Int /\ g[x] \in Int
  BY <1>1, <1>2, <1>3
<1>5. \A x \in Papers \ {d} : f[x] = g[x]
  BY <1>2, <1>3
<1>6. SumOver(g, Papers) = SumOver(f, Papers) + (g[d] - f[d])
  BY <1>1, <1>4, <1>5, SumChanged
<1>7. SumOver(f, Papers) \in Int
  BY <1>1, <1>4, SumIsInt
<1> QED
  BY <1>1, <1>2, <1>3, <1>6, <1>7

\* The imprests outstanding, counted.
LEMMA OutstandingCounted ==
    ASSUME NEW S \in SUBSET Papers, NEW T \in SUBSET Papers
    PROVE  /\ Cardinality(S) \in Nat
           /\ T \subseteq S => Cardinality(T) <= Cardinality(S)
           /\ \A d \in Papers : T \subseteq S \cup {d} => Cardinality(T) <= Cardinality(S \ {d}) + 1
<1>1. IsFiniteSet(S) /\ IsFiniteSet(T)
  BY ImprestAssumption, FS_Subset
<1>2. Cardinality(S) \in Nat /\ Cardinality(T) \in Nat
  BY <1>1, FS_CardinalityType
<1>3. T \subseteq S => Cardinality(T) <= Cardinality(S)
  BY <1>1, FS_Subset
<1>4. ASSUME NEW d \in Papers, T \subseteq S \cup {d} PROVE Cardinality(T) <= Cardinality(S \ {d}) + 1
  <2> DEFINE R == S \ {d}
             U == R \cup {d}
  <2>1. IsFiniteSet(R) /\ d \notin R /\ T \subseteq U
    BY <1>1, <1>4, FS_Subset
  <2> HIDE DEF R
  <2>2. IsFiniteSet(U) /\ Cardinality(U) = Cardinality(R) + 1
    BY <2>1, FS_AddElement
  <2> HIDE DEF U
  <2>3. Cardinality(T) <= Cardinality(U)
    BY <2>1, <2>2, FS_Subset
  <2> QED
    BY <2>2, <2>3 DEF R
<1> QED
  BY <1>2, <1>3, <1>4

LEMMA PostPaperKeeps ==
    ASSUME ImpInv, NEW o \in Officers, PostPaper(o)
    PROVE  ImpInv'
<1>1. PICK op \in {"issue", "claim", "surrender"} : desk[o] # <<>> /\ op = desk[o][1]
  BY DEF PostPaper
<1>2. PICK d \in Papers : d = desk[o][2]
  BY <1>1, DeskIs DEF ImpInv
<1>3. PICK seen \in PaperRecords : seen = desk[o][3]
  BY <1>1, DeskIs DEF ImpInv
<1>4. PICK booked \in Int, send \in Int : booked = Effect(op, seen).ledger /\ send = Effect(op, seen).send
  BY EffectIs
<1>5. PICK p \in PaperRecords : p = paper[d]
  BY DEF ImpInv, ImpTypes
<1>6. PICK r : r = [p EXCEPT !.posted = TRUE,
                             !.surrendered = p.surrendered \/ op = "surrender",
                             !.transferred = IF op = "surrender" THEN send # 0 ELSE p.transferred]
  OBVIOUS
<1>7. /\ empLedger' = [empLedger EXCEPT ![d] = @ + booked]
      /\ control' = IF <<op, d>> \in keys THEN control ELSE control + booked
      /\ keys' = keys \cup {<<op, d>>}
      /\ payLines' = Sent(d, send)
      /\ paper' = [paper EXCEPT ![d] = r]
      /\ impMarks' = impMarks
            \cup (IF p # seen THEN {"twice"} ELSE {})
            \cup (IF op = "issue" /\ Cardinality(Outstanding \ {d}) >= MaxOutstanding THEN {"over"} ELSE {})
      /\ desk' = [desk EXCEPT ![o] = <<>>]
      /\ UNCHANGED <<payslip, payroll>>
  BY <1>1, <1>2, <1>3, <1>4, <1>5, <1>6 DEF PostPaper, Of, PaperSeen
<1>8. /\ r \in PaperRecords /\ r.kind = p.kind /\ r.spent = p.spent /\ r.toPayroll = p.toPayroll
      /\ r.posted = TRUE
      /\ r.surrendered <=> (p.surrendered \/ op = "surrender")
      /\ r.transferred <=> (IF op = "surrender" THEN send # 0 ELSE p.transferred)
  BY <1>6 DEF PaperRecords
<1>9. PICK M : M = payLines'
  OBVIOUS
<1>10. /\ M \in Seq(ImpLines)
       /\ \A x : /\ DueIn(payLines, x) \in Int
                 /\ DueIn(M, x) = DueIn(payLines, x) + (IF x = d THEN send ELSE 0)
                 /\ x # d \/ send = 0 => (NoLines(M, x) <=> NoLines(payLines, x))
       /\ "hand" \notin impMarks =>
             Len(payslip) <= Len(M) /\ \A i \in 1 .. Len(payslip) : payslip[i] = M[i]
  BY <1>7, <1>9, SentIs
<1>11. /\ SumOver(empLedger, Papers) \in Int
       /\ SumOver(empLedger', Papers) = SumOver(empLedger, Papers) + booked
       /\ empLedger' \in [Papers -> Int]
       /\ empLedger'[d] = empLedger[d] + booked /\ \A x \in Papers \ {d} : empLedger'[x] = empLedger[x]
  BY <1>7, LedgerChanged
<1>12. /\ paper' \in [Papers -> PaperRecords]
       /\ paper'[d] = r /\ \A x \in Papers \ {d} : paper'[x] = paper[x]
  BY <1>7, <1>8 DEF ImpInv, ImpTypes
<1>13. /\ \A q \in Officers, x \in Papers : Marks(desk', q, x) <=> Marks(desk, q, x)
       /\ \A q \in Officers : q # o => desk'[q] = desk[q]
       /\ desk'[o] = <<>>
  <2>1. \A q \in Officers : desk'[q] = IF q = o THEN <<>> ELSE desk[q]
    BY <1>7 DEF ImpInv, ImpTypes
  <2> QED
    BY <1>1, <2>1 DEF Marks
<1>14. \A q \in Officers : desk'[q] # <<>> => desk'[q] = desk[q]
  BY <1>13
<1>15. ImpTypes'
  <2>1. control' \in Int
    BY <1>7 DEF ImpInv, ImpTypes
  <2>2. desk' \in [Officers -> Desks]
    BY <1>7 DEF ImpInv, ImpTypes, Desks
  <2>3. payslip' \in Seq(ImpLines)
    BY <1>7 DEF ImpInv, ImpTypes
  <2> QED
    BY <1>9, <1>10, <1>11, <1>12, <2>1, <2>2, <2>3 DEF ImpTypes
<1>16. \A x \in Papers : SameDocument(paper[x], paper'[x]) /\ (paper[x].posted => paper'[x].posted)
                         /\ (paper[x].surrendered => paper'[x].surrendered)
  <2> SUFFICES ASSUME NEW x \in Papers
               PROVE  SameDocument(paper[x], paper'[x]) /\ (paper[x].posted => paper'[x].posted)
                      /\ (paper[x].surrendered => paper'[x].surrendered)
    OBVIOUS
  <2>1. CASE x = d
    BY <1>5, <1>8, <1>12, <2>1 DEF SameDocument
  <2>2. CASE x # d
    BY <1>12, <2>2 DEF SameDocument
  <2> QED
    BY <2>1, <2>2
<1>17. AllKnow'
  BY <1>14, <1>16, AllKnowKept
<1>18. KeysUsed'
  <2> SUFFICES ASSUME NEW x \in Papers
               PROVE  /\ <<"issue", x>> \in keys' \/ <<"claim", x>> \in keys' => paper'[x].posted
                      /\ <<"surrender", x>> \in keys' => paper'[x].surrendered
    BY DEF KeysUsed
  <2>1. /\ <<"issue", x>> \in keys \/ <<"claim", x>> \in keys => paper'[x].posted
        /\ <<"surrender", x>> \in keys => paper'[x].surrendered
    BY <1>16 DEF ImpInv, KeysUsed
  <2>2. CASE x = d
    BY <1>7, <1>8, <1>12, <2>1, <2>2
  <2>3. CASE x # d
    BY <1>7, <2>1, <2>3
  <2> QED
    BY <2>2, <2>3
<1>19. impMarks \subseteq impMarks'
  BY <1>7
<1>20. SlipIsBeginning'
  BY <1>7, <1>9, <1>10, <1>19 DEF SlipIsBeginning
<1>21. "twice" \notin impMarks' => p = seen
  BY <1>7
<1>22. p = seen => /\ <<op, d>> \notin keys
                   /\ op = "issue" => p.kind = "imprest" /\ ~p.posted
                   /\ op = "claim" => p.kind = "claim" /\ ~p.posted
                   /\ op = "surrender" => p.kind = "imprest" /\ p.posted /\ ~p.surrendered /\ ~p.transferred
  BY <1>1, <1>2, <1>3, <1>5, KeyIsNew
<1>23. LedgerMirrored'
  <2> SUFFICES ASSUME impMarks' \cap {"twice", "both", "hand"} = {}
               PROVE  control' = SumOver(empLedger', Papers)
    BY DEF LedgerMirrored
  <2>1. p = seen /\ control = SumOver(empLedger, Papers)
    BY <1>19, <1>21 DEF ImpInv, LedgerMirrored
  <2> QED
    BY <1>7, <1>11, <1>22, <2>1
<1>24. WithinLimit'
  <2> SUFFICES ASSUME "over" \notin impMarks' PROVE Cardinality(Outstanding') <= MaxOutstanding
    BY DEF WithinLimit
  <2>1. PICK S, T : S = Outstanding /\ T = Outstanding'
    OBVIOUS
  <2>2. S \in SUBSET Papers /\ T \in SUBSET Papers
    BY <2>1 DEF Outstanding
  <2>3. Cardinality(S) <= MaxOutstanding /\ Cardinality(S) \in Nat /\ Cardinality(T) \in Nat
    BY <1>19, <2>1, <2>2, OutstandingCounted DEF ImpInv, WithinLimit
  <2>4. CASE op = "issue"
    <3>1. Cardinality(S \ {d}) < MaxOutstanding
      <4>1. S \ {d} \in SUBSET Papers
        BY <2>2
      <4>2. Cardinality(S \ {d}) \in Nat
        BY <4>1, OutstandingCounted
      <4>3. "over" \notin IF op = "issue" /\ Cardinality(Outstanding \ {d}) >= MaxOutstanding
                          THEN {"over"} ELSE {}
        BY <1>7
      <4>4. ~(Cardinality(Outstanding \ {d}) >= MaxOutstanding)
        BY <2>4, <4>3
      <4> QED
        BY <2>1, <4>2, <4>4, ImprestAssumption
    <3>2. T \subseteq S \cup {d}
      BY <1>12, <2>1 DEF Outstanding
    <3>3. Cardinality(T) <= Cardinality(S \ {d}) + 1
      BY <2>2, <3>2, OutstandingCounted
    <3>4. Cardinality(S \ {d}) \in Nat
      <4>1. S \ {d} \in SUBSET Papers
        BY <2>2
      <4> QED
        BY <4>1, OutstandingCounted
    <3> QED
      BY <2>1, <2>3, <3>1, <3>3, <3>4, ImprestAssumption
  <2>5. CASE op # "issue"
    <3>1. d \notin T
      <4>1. CASE op = "surrender"
        BY <1>8, <1>12, <2>1, <4>1 DEF Outstanding
      <4>2. CASE op = "claim"
        <5>1. Knows(desk[o], p)
          BY <1>1, <1>2, <1>5 DEF ImpInv, AllKnow
        <5>2. r.kind = "claim"
          BY <1>1, <1>8, <4>2, <5>1 DEF Knows, SameDocument
        <5> QED
          BY <1>12, <2>1, <5>2 DEF Outstanding
      <4> QED
        BY <2>5, <4>1, <4>2
    <3>2. T \subseteq S
      BY <1>12, <2>1, <3>1 DEF Outstanding
    <3>3. Cardinality(T) <= Cardinality(S)
      BY <2>2, <3>2, OutstandingCounted
    <3> QED
      BY <2>1, <2>3, <3>3, ImprestAssumption
  <2> QED
    BY <2>4, <2>5
<1>25. ASSUME impMarks' \subseteq {"over"}, NEW x \in Papers
       PROVE  PaperInv(paper'[x], empLedger'[x], M, desk', x)
  <2>1. PaperInv(paper[x], empLedger[x], payLines, desk, x) /\ p = seen
    BY <1>19, <1>21, <1>25 DEF ImpInv, AllDocs
  <2>j. PICK J : J = desk'
    OBVIOUS
  <2>2. CASE x # d
    <3>1. \A q \in Officers : J[q] # <<>> /\ J[q][2] = x => J[q] = desk[q]
      BY <1>14, <2>j
    <3>2. DueIn(M, x) = DueIn(payLines, x) /\ (NoLines(M, x) <=> NoLines(payLines, x))
      <4>1. DueIn(payLines, x) \in Int /\ DueIn(M, x) = DueIn(payLines, x) + (IF x = d THEN send ELSE 0)
        BY <1>10
      <4>2. NoLines(M, x) <=> NoLines(payLines, x)
        BY <1>10, <2>2
      <4> QED
        BY <2>2, <4>1, <4>2
    <3>3. \A q \in Officers : Marks(J, q, x) <=> Marks(desk, q, x)
      BY <1>13, <2>j
    <3>4. PaperInv(paper[x], empLedger[x], M, J, x)
      BY <2>1, <3>1, <3>2, <3>3, DocKept
    <3>5. paper'[x] = paper[x] /\ empLedger'[x] = empLedger[x]
      BY <1>11, <1>12, <2>2
    <3> QED
      BY <2>j, <3>4, <3>5
  <2>3. CASE x = d
    <3>1. ASSUME \A q \in Officers : ~Marks(J, q, d) PROVE DocSound(r, empLedger[d] + booked, M, d)
      <4>1. DocSound(p, empLedger[d], payLines, d)
        BY <1>5, <1>13, <2>1, <2>3, <2>j, <3>1 DEF PaperInv
      <4>2. /\ op = "issue" => p.kind = "imprest" /\ ~p.posted /\ booked = Advance /\ send = 0
            /\ op = "claim" => p.kind = "claim" /\ ~p.posted /\ booked = send
            /\ op = "surrender" => /\ p.kind = "imprest" /\ p.posted /\ ~p.surrendered /\ ~p.transferred
                                   /\ booked = send - Advance
        BY <1>4, <1>22, <2>1, EffectIs
      <4>3. DueIn(M, d) = DueIn(payLines, d) + send /\ (send = 0 => (NoLines(M, d) <=> NoLines(payLines, d)))
        BY <1>10
      <4>4. payLines \in Seq(ImpLines)
        BY DEF ImpInv, ImpTypes
      <4>5. /\ r.kind = p.kind /\ r.posted
            /\ r.surrendered <=> (p.surrendered \/ op = "surrender")
            /\ r.transferred <=> (IF op = "surrender" THEN send # 0 ELSE p.transferred)
        BY <1>8
      <4> QED
        BY <4>1, <4>2, <4>3, <4>4, <4>5, PostedSound
    <3>2. ASSUME NEW q \in Officers, J[q] # <<>>, J[q][1] \in {"transfer", "mark"}, J[q][2] = d
          PROVE  r # J[q][3]
      <4>1. J[q] = desk[q]
        BY <1>14, <2>j, <3>2
      <4>2. Knows(desk[q], p)
        BY <1>5, <3>2, <4>1 DEF ImpInv, AllKnow
      <4>3. p.posted /\ p.kind = "imprest" /\ ~desk[q][3].surrendered
        BY <3>2, <4>1, <4>2 DEF Knows, SameDocument
      <4>4. op = "surrender"
        BY <1>22, <2>1, <4>3
      <4>5. r.surrendered
        BY <1>8, <4>4
      <4> QED
        BY <4>1, <4>3, <4>5
    <3>3. \A q \in Officers : Marks(J, q, d) => r # J[q][3]
      BY <3>2 DEF Marks
    <3>4. PaperInv(r, empLedger[d] + booked, M, J, d)
      BY <3>1, <3>2, <3>3 DEF PaperInv
    <3> QED
      BY <1>11, <1>12, <2>3, <2>j, <3>4
  <2> QED
    BY <2>2, <2>3
<1>26. AllDocs'
  BY <1>9, <1>25 DEF AllDocs
<1> QED
  BY <1>15, <1>17, <1>18, <1>20, <1>23, <1>24, <1>26 DEF ImpInv

LEMMA TransferKeeps ==
    ASSUME ImpInv, NEW o \in Officers, Transfer(o)
    PROVE  ImpInv'
<1>1. desk[o] # <<>> /\ desk[o][1] = "transfer"
  BY DEF Transfer, AtWork
<1>2. PICK d \in Papers : d = desk[o][2]
  BY <1>1, DeskIs DEF ImpInv
<1>3. PICK seen \in PaperRecords : seen = desk[o][3]
  BY <1>1, DeskIs DEF ImpInv
<1>4. PICK amount \in Int : amount = desk[o][4]
  BY <1>1, DeskIs DEF ImpInv
<1>5. PICK w : w = <<"mark", d, seen>>
  OBVIOUS
<1>6. w # <<>> /\ w[1] = "mark" /\ w[2] = d /\ w[3] = seen /\ w \in Desks
  BY <1>5 DEF Desks
<1>7. /\ payLines' = Sent(d, amount)
      /\ desk' = [desk EXCEPT ![o] = w]
      /\ impMarks' = impMarks \cup (IF paper[d] # seen THEN {"twice"} ELSE {})
      /\ UNCHANGED <<paper, empLedger, control, keys, payslip, payroll>>
  BY <1>2, <1>3, <1>4, <1>5 DEF Transfer, Of, PaperSeen
<1>8. PICK M : M = payLines'
  OBVIOUS
<1>9. /\ M \in Seq(ImpLines)
      /\ \A x : /\ DueIn(payLines, x) \in Int
                /\ DueIn(M, x) = DueIn(payLines, x) + (IF x = d THEN amount ELSE 0)
                /\ x # d \/ amount = 0 => (NoLines(M, x) <=> NoLines(payLines, x))
      /\ "hand" \notin impMarks =>
            Len(payslip) <= Len(M) /\ \A i \in 1 .. Len(payslip) : payslip[i] = M[i]
  BY <1>7, <1>8, SentIs
<1>10. \A q \in Officers : desk'[q] = IF q = o THEN w ELSE desk[q]
  BY <1>7 DEF ImpInv, ImpTypes
<1>11. ImpTypes'
  <2>1. desk' \in [Officers -> Desks]
    BY <1>6, <1>7 DEF ImpInv, ImpTypes
  <2> QED
    BY <1>7, <1>8, <1>9, <2>1 DEF ImpInv, ImpTypes
<1>12. Knows(w, paper[d])
  <2>1. Knows(desk[o], paper[d])
    BY <1>1, <1>2 DEF ImpInv, AllKnow
  <2> QED
    BY <1>1, <1>3, <1>6, <2>1 DEF Knows
<1>13. AllKnow'
  <2> SUFFICES ASSUME NEW q \in Officers, desk'[q] # <<>> PROVE Knows(desk'[q], paper[desk'[q][2]])
    BY <1>7 DEF AllKnow
  <2>1. CASE q = o
    BY <1>6, <1>10, <1>12, <2>1
  <2>2. CASE q # o
    BY <1>10, <2>2 DEF ImpInv, AllKnow
  <2> QED
    BY <2>1, <2>2
<1>14. KeysUsed' /\ WithinLimit'
  BY <1>7 DEF ImpInv, KeysUsed, WithinLimit, Outstanding
<1>15. SlipIsBeginning' /\ LedgerMirrored'
  BY <1>7, <1>8, <1>9 DEF ImpInv, SlipIsBeginning, LedgerMirrored
<1>16. ASSUME impMarks' \subseteq {"over"}, NEW x \in Papers
       PROVE  PaperInv(paper[x], empLedger[x], M, desk', x)
  <2>1. PaperInv(paper[x], empLedger[x], payLines, desk, x) /\ paper[d] = seen
    BY <1>7, <1>16 DEF ImpInv, AllDocs
  <2>j. PICK J : J = desk'
    OBVIOUS
  <2>2. CASE x # d
    <3>1. \A q \in Officers : J[q] # <<>> /\ J[q][2] = x => J[q] = desk[q]
      BY <1>6, <1>10, <2>j, <2>2
    <3>2. DueIn(M, x) = DueIn(payLines, x) /\ (NoLines(M, x) <=> NoLines(payLines, x))
      <4>1. DueIn(payLines, x) \in Int /\ DueIn(M, x) = DueIn(payLines, x) + (IF x = d THEN amount ELSE 0)
        BY <1>9
      <4>2. NoLines(M, x) <=> NoLines(payLines, x)
        BY <1>9, <2>2
      <4> QED
        BY <2>2, <4>1, <4>2
    <3>3. \A q \in Officers : Marks(J, q, x) <=> Marks(desk, q, x)
      BY <1>1, <1>6, <1>10, <2>j, <2>2 DEF Marks
    <3>4. PaperInv(paper[x], empLedger[x], M, J, x)
      BY <2>1, <3>1, <3>2, <3>3, DocKept
    <3> QED
      BY <2>j, <3>4
  <2>3. CASE x = d
    <3>1. Marks(J, o, d) /\ \A q \in Officers : Marks(desk, q, d) => q # o /\ Marks(J, q, d)
      BY <1>1, <1>6, <1>10, <2>j DEF Marks
    <3>2. ASSUME \A k \in Officers : Marks(J, k, d) => k = o
          PROVE  empLedger[d] = DueIn(M, d)
      <4>1. \A k \in Officers : ~Marks(desk, k, d)
        BY <3>1, <3>2
      <4>2. DocSound(paper[d], empLedger[d], payLines, d)
        BY <2>1, <2>3, <4>1 DEF PaperInv
      <4>3. Knows(desk[o], paper[d])
        BY <1>1, <1>2 DEF ImpInv, AllKnow
      <4>4. paper[d].posted /\ ~Settles(paper[d])
        BY <1>1, <1>3, <2>1, <4>3 DEF Knows, Settles
      <4>5. empLedger[d] = Advance /\ NoLines(payLines, d)
        BY <4>2, <4>4 DEF DocSound
      <4>6. amount = Advance
        BY <1>1, <1>2, <1>3, <1>4, <2>1, <2>3, <4>1 DEF PaperInv
      <4>7. DueIn(payLines, d) = 0
        BY <4>5, DueIsInt DEF ImpInv, ImpTypes
      <4>8. DueIn(M, d) = DueIn(payLines, d) + amount
        BY <1>9
      <4> QED
        BY <4>5, <4>6, <4>7, <4>8
    <3>3. \A q \in Officers :
             Marks(J, q, d) /\ paper[d] = J[q][3] /\ (\A k \in Officers : Marks(J, k, d) => k = q)
               => empLedger[d] = DueIn(M, d)
      BY <3>1, <3>2
    <3>4. PaperInv(paper[d], empLedger[d], M, J, d)
      BY <3>1, <3>3 DEF PaperInv
    <3> QED
      BY <2>j, <2>3, <3>4
  <2> QED
    BY <2>2, <2>3
<1>17. AllDocs'
  BY <1>7, <1>8, <1>16 DEF AllDocs
<1> QED
  BY <1>11, <1>13, <1>14, <1>15, <1>17 DEF ImpInv

LEMMA MarkTransferredKeeps ==
    ASSUME ImpInv, NEW o \in Officers, MarkTransferred(o)
    PROVE  ImpInv'
<1>1. desk[o] # <<>> /\ desk[o][1] = "mark"
  BY DEF MarkTransferred, AtWork
<1>2. PICK d \in Papers : d = desk[o][2]
  BY <1>1, DeskIs DEF ImpInv
<1>3. PICK seen \in PaperRecords : seen = desk[o][3]
  BY <1>1, DeskIs DEF ImpInv
<1>4. PICK p \in PaperRecords : p = paper[d]
  BY DEF ImpInv, ImpTypes
<1>5. PICK r : r = [p EXCEPT !.transferred = TRUE]
  OBVIOUS
<1>6. /\ r \in PaperRecords /\ r.kind = p.kind /\ r.spent = p.spent /\ r.toPayroll = p.toPayroll
      /\ r.posted = p.posted /\ r.surrendered = p.surrendered /\ r.transferred = TRUE
  BY <1>5 DEF PaperRecords
<1>7. /\ paper' = [paper EXCEPT ![d] = r]
      /\ desk' = [desk EXCEPT ![o] = <<>>]
      /\ impMarks' = impMarks \cup (IF p # seen THEN {"twice"} ELSE {})
      /\ UNCHANGED <<empLedger, control, keys, payLines, payslip, payroll>>
  BY <1>2, <1>3, <1>4, <1>5 DEF MarkTransferred, Of, PaperSeen
<1>8. /\ paper' \in [Papers -> PaperRecords]
      /\ paper'[d] = r /\ \A x \in Papers \ {d} : paper'[x] = paper[x]
  BY <1>6, <1>7 DEF ImpInv, ImpTypes
<1>9. \A q \in Officers : desk'[q] = IF q = o THEN <<>> ELSE desk[q]
  BY <1>7 DEF ImpInv, ImpTypes
<1>10. ImpTypes'
  <2>1. desk' \in [Officers -> Desks]
    BY <1>7 DEF ImpInv, ImpTypes, Desks
  <2> QED
    BY <1>7, <1>8, <2>1 DEF ImpInv, ImpTypes
<1>11. \A x \in Papers : /\ SameDocument(paper[x], paper'[x])
                         /\ paper'[x].posted = paper[x].posted
                         /\ paper'[x].surrendered = paper[x].surrendered
                         /\ paper'[x].kind = paper[x].kind
  <2> SUFFICES ASSUME NEW x \in Papers
               PROVE  /\ SameDocument(paper[x], paper'[x])
                      /\ paper'[x].posted = paper[x].posted
                      /\ paper'[x].surrendered = paper[x].surrendered
                      /\ paper'[x].kind = paper[x].kind
    OBVIOUS
  <2>1. CASE x = d
    BY <1>4, <1>6, <1>8, <2>1 DEF SameDocument
  <2>2. CASE x # d
    BY <1>8, <2>2 DEF SameDocument
  <2> QED
    BY <2>1, <2>2
<1>12. AllKnow'
  BY <1>9, <1>11, AllKnowKept
<1>13. KeysUsed'
  BY <1>7, <1>11 DEF ImpInv, KeysUsed
<1>14. WithinLimit'
  <2>1. Outstanding' = Outstanding
    BY <1>11 DEF Outstanding
  <2> QED
    BY <1>7, <2>1 DEF ImpInv, WithinLimit
<1>15. SlipIsBeginning' /\ LedgerMirrored'
  BY <1>7 DEF ImpInv, SlipIsBeginning, LedgerMirrored
<1>16. ASSUME impMarks' \subseteq {"over"}, NEW x \in Papers
       PROVE  PaperInv(paper'[x], empLedger[x], payLines, desk', x)
  <2>1. PaperInv(paper[x], empLedger[x], payLines, desk, x) /\ p = seen
    BY <1>7, <1>16 DEF ImpInv, AllDocs
  <2>j. PICK J : J = desk'
    OBVIOUS
  <2>2. CASE x # d
    <3>1. \A q \in Officers : J[q] # <<>> /\ J[q][2] = x => J[q] = desk[q]
      BY <1>9, <2>j
    <3>2. \A q \in Officers : Marks(J, q, x) <=> Marks(desk, q, x)
      BY <1>2, <1>9, <2>j, <2>2 DEF Marks
    <3>3. PaperInv(paper[x], empLedger[x], payLines, J, x)
      BY <2>1, <3>1, <3>2, DocKept
    <3> QED
      BY <1>8, <2>j, <2>2, <3>3
  <2>3. CASE x = d
    <3>1. Marks(desk, o, d) /\ \A q \in Officers : Marks(desk, q, d) => q = o \/ Marks(J, q, d)
      BY <1>1, <1>2, <1>9, <2>j DEF Marks
    <3>2. Knows(desk[o], p)
      BY <1>1, <1>2, <1>4 DEF ImpInv, AllKnow
    <3>3. ASSUME \A q \in Officers : ~Marks(J, q, d) PROVE DocSound(r, empLedger[d], payLines, d)
      <4>1. \A q \in Officers : Marks(desk, q, d) => q = o
        BY <3>1, <3>3
      <4>2. empLedger[d] = DueIn(payLines, d)
        BY <1>3, <1>4, <2>1, <2>3, <3>1, <4>1 DEF PaperInv
      <4>3. r.posted /\ r.transferred
        BY <1>1, <1>3, <1>6, <2>1, <3>2 DEF Knows
      <4> QED
        BY <4>2, <4>3 DEF DocSound, Settles
    <3>4. ASSUME NEW q \in Officers, J[q] # <<>>, J[q][1] \in {"transfer", "mark"}, J[q][2] = d
          PROVE  r # J[q][3]
      <4>1. J[q] = desk[q]
        BY <1>9, <2>j, <3>4
      <4>2. Knows(desk[q], p)
        BY <1>4, <3>4, <4>1 DEF ImpInv, AllKnow
      <4>3. ~desk[q][3].transferred
        BY <3>4, <4>1, <4>2 DEF Knows
      <4> QED
        BY <1>6, <4>1, <4>3
    <3>5. \A q \in Officers : Marks(J, q, d) => r # J[q][3]
      BY <3>4 DEF Marks
    <3>6. PaperInv(r, empLedger[d], payLines, J, d)
      BY <3>3, <3>4, <3>5 DEF PaperInv
    <3> QED
      BY <1>8, <2>j, <2>3, <3>6
  <2> QED
    BY <2>2, <2>3
<1>17. AllDocs'
  BY <1>7, <1>16 DEF AllDocs
<1> QED
  BY <1>10, <1>12, <1>13, <1>14, <1>15, <1>17 DEF ImpInv

LEMMA DropWorkKeeps ==
    ASSUME ImpInv, NEW o \in Officers, DropWork(o)
    PROVE  ImpInv'
<1>1. /\ desk[o] # <<>>
      /\ impMarks' = impMarks \cup (IF AtWork(o, "mark") THEN {"half"} ELSE {})
      /\ desk' = [desk EXCEPT ![o] = <<>>]
      /\ UNCHANGED <<paper, empLedger, control, keys, payLines, payslip, payroll>>
  BY DEF DropWork
<1>2. \A q \in Officers : desk'[q] = IF q = o THEN <<>> ELSE desk[q]
  BY <1>1 DEF ImpInv, ImpTypes
<1>3. ImpTypes'
  <2>1. desk' \in [Officers -> Desks]
    BY <1>1 DEF ImpInv, ImpTypes, Desks
  <2> QED
    BY <1>1, <2>1 DEF ImpInv, ImpTypes
<1>4. AllKnow'
  BY <1>1, <1>2, AllKnowKept DEF SameDocument
<1>5. KeysUsed' /\ WithinLimit' /\ SlipIsBeginning' /\ LedgerMirrored'
  BY <1>1 DEF ImpInv, KeysUsed, WithinLimit, Outstanding, SlipIsBeginning, LedgerMirrored
<1>6. ASSUME impMarks' \subseteq {"over"}, NEW x \in Papers
      PROVE  PaperInv(paper[x], empLedger[x], payLines, desk', x)
  <2>1. PaperInv(paper[x], empLedger[x], payLines, desk, x) /\ desk[o][1] # "mark"
    BY <1>1, <1>6 DEF ImpInv, AllDocs, AtWork
  <2>2. PICK J : J = desk'
    OBVIOUS
  <2>3. \A q \in Officers : J[q] # <<>> /\ J[q][2] = x => J[q] = desk[q]
    BY <1>2, <2>2
  <2>4. \A q \in Officers : Marks(J, q, x) <=> Marks(desk, q, x)
    BY <1>2, <2>1, <2>2 DEF Marks
  <2>5. PaperInv(paper[x], empLedger[x], payLines, J, x)
    BY <2>1, <2>3, <2>4, DocKept
  <2> QED
    BY <2>2, <2>5
<1>7. AllDocs'
  BY <1>1, <1>6 DEF AllDocs
<1> QED
  BY <1>3, <1>4, <1>5, <1>7 DEF ImpInv

LEMMA RunPayslipKeeps ==
    ASSUME ImpInv, RunPayslip
    PROVE  ImpInv'
<1>1. /\ payslip' = payLines
      /\ UNCHANGED <<paper, empLedger, control, keys, payLines, payroll, desk, impMarks>>
  BY DEF RunPayslip
<1>2. SlipIsBeginning'
  <2>1. Len(payLines) \in Nat
    BY DEF ImpInv, ImpTypes
  <2> QED
    BY <1>1, <2>1 DEF SlipIsBeginning
<1>3. ImpTypes'
  BY <1>1 DEF ImpInv, ImpTypes
<1> QED
  BY <1>1, <1>2, <1>3 DEF ImpInv, AllKnow, KeysUsed, WithinLimit, Outstanding, LedgerMirrored, AllDocs

LEMMA ApprovePayrollKeeps ==
    ASSUME ImpInv, ApprovePayroll
    PROVE  ImpInv'
BY DEF ApprovePayroll, ImpInv, ImpTypes, AllKnow, KeysUsed, SlipIsBeginning, WithinLimit,
       Outstanding, LedgerMirrored, AllDocs

LEMMA RemoveLineKeeps ==
    ASSUME ImpInv, NEW i \in DOMAIN payLines, RemoveLine(i)
    PROVE  ImpInv'
<1>1. /\ payLines' = SubSeq(payLines, 1, i - 1) \o SubSeq(payLines, i + 1, Len(payLines))
      /\ impMarks' = impMarks \cup {"hand"}
      /\ UNCHANGED <<paper, empLedger, control, keys, payslip, payroll, desk>>
  BY DEF RemoveLine
<1>2. payLines \in Seq(ImpLines) /\ i \in 1 .. Len(payLines) /\ Len(payLines) \in Nat
  BY DEF ImpInv, ImpTypes
<1>3. SubSeq(payLines, 1, i - 1) \in Seq(ImpLines) /\ SubSeq(payLines, i + 1, Len(payLines)) \in Seq(ImpLines)
  BY <1>2
<1>4. payLines' \in Seq(ImpLines)
  BY <1>1, <1>3
<1>5. ImpTypes'
  BY <1>1, <1>4 DEF ImpInv, ImpTypes
<1>6. SlipIsBeginning' /\ AllDocs' /\ LedgerMirrored'
  BY <1>1 DEF SlipIsBeginning, AllDocs, LedgerMirrored
<1>7. AllKnow' /\ KeysUsed' /\ WithinLimit'
  BY <1>1 DEF ImpInv, AllKnow, KeysUsed, WithinLimit, Outstanding
<1> QED
  BY <1>5, <1>6, <1>7 DEF ImpInv

\* Whatever is settled is a whole amount.
LEMMA SettledIsInt ==
    ASSUME payLines \in Seq(ImpLines), payslip \in Seq(ImpLines), NEW d
    PROVE  Settled(d) \in Int
<1> DEFINE f == [j \in LinesFor(d) |-> SumFunction([i \in OfCode(payLines[j]) |-> payslip[i].amount])]
<1>1. /\ IsFiniteSet(DOMAIN payLines) /\ IsFiniteSet(DOMAIN payslip)
      /\ \A i \in DOMAIN payslip : payslip[i].amount \in Int
  BY LineFields
<1>2. IsFiniteSet(LinesFor(d))
  <2>1. LinesFor(d) \subseteq DOMAIN payLines
    BY DEF LinesFor
  <2> QED
    BY <1>1, <2>1, FS_Subset
<1>3. ASSUME NEW j \in LinesFor(d) PROVE f[j] \in Int
  <2> DEFINE h == [i \in OfCode(payLines[j]) |-> payslip[i].amount]
  <2>1. OfCode(payLines[j]) \subseteq DOMAIN payslip
    BY DEF OfCode
  <2>2. IsFiniteSet(OfCode(payLines[j]))
    BY <1>1, <2>1, FS_Subset
  <2>3. \A i \in OfCode(payLines[j]) : h[i] \in Int
    BY <1>1, <2>1
  <2>4. f[j] = SumOver(h, OfCode(payLines[j]))
    BY SumOfFunction
  <2> HIDE DEF h, f
  <2> QED
    BY <2>2, <2>3, <2>4, SumIsInt
<1>4. Settled(d) = SumOver(f, LinesFor(d))
  BY SumOfFunction DEF Settled
<1> HIDE DEF f
<1> QED
  BY <1>2, <1>3, <1>4, SumIsInt

LEMMA ClosePayrollKeeps ==
    ASSUME ImpInv, ClosePayroll
    PROVE  ImpInv'
<1> DEFINE all == [i \in DOMAIN payslip |-> payslip[i].amount]
           settled == [d \in Papers |-> Settled(d)]
           closes(d) == d \in Outstanding /\ LinesFor(d) # {} /\ Settled(d) > 0
                        /\ empLedger[d] - Settled(d) <= 0
<1>1. /\ control' = control - SumFunction(all)
      /\ empLedger' = [d \in Papers |-> empLedger[d] - Settled(d)]
      /\ paper' = [d \in Papers |-> IF closes(d) THEN [paper[d] EXCEPT !.surrendered = TRUE] ELSE paper[d]]
      /\ payLines' = <<>> /\ payslip' = <<>>
      /\ impMarks' = impMarks
           \cup (IF \E i, j \in DOMAIN payLines : i # j /\ SameCode(payLines[i], payLines[j])
                 THEN {"both"} ELSE {})
           \cup (IF payslip # payLines THEN {"lost"} ELSE {})
      /\ UNCHANGED <<keys, desk>>
  BY DEF ClosePayroll
<1>2. /\ payLines \in Seq(ImpLines) /\ payslip \in Seq(ImpLines)
      /\ DOMAIN payLines = 1 .. Len(payLines) /\ DOMAIN payslip = 1 .. Len(payslip)
      /\ IsFiniteSet(1 .. Len(payslip)) /\ \A i \in 1 .. Len(payslip) : payslip[i].amount \in Int
  BY LineFields DEF ImpInv, ImpTypes
<1>3. \A d \in Papers : Settled(d) \in Int /\ empLedger[d] \in Int
  BY <1>2, SettledIsInt DEF ImpInv, ImpTypes
<1>4. SumFunction(all) = SumOver(all, 1 .. Len(payslip)) /\ SumFunction(all) \in Int
  <2>1. DOMAIN all = 1 .. Len(payslip) /\ \A i \in 1 .. Len(payslip) : all[i] \in Int
    BY <1>2
  <2>2. SumFunction(all) = SumOver(all, 1 .. Len(payslip))
    BY <2>1, SumOfFunction
  <2> HIDE DEF all
  <2> QED
    BY <1>2, <2>1, <2>2, SumIsInt
<1>5. empLedger' \in [Papers -> Int] /\ \A d \in Papers : empLedger'[d] = empLedger[d] - Settled(d)
  BY <1>1, <1>3
<1>6. /\ \A d \in Papers : paper[d] \in PaperRecords
      /\ \A d \in Papers : paper'[d] = IF closes(d) THEN [paper[d] EXCEPT !.surrendered = TRUE] ELSE paper[d]
  BY <1>1 DEF ImpInv, ImpTypes
<1>7. ASSUME NEW d \in Papers
      PROVE  /\ paper'[d] \in PaperRecords /\ SameDocument(paper[d], paper'[d])
             /\ paper'[d].posted = paper[d].posted /\ paper'[d].transferred = paper[d].transferred
             /\ paper'[d].kind = paper[d].kind
             /\ paper[d].surrendered => paper'[d].surrendered
             /\ paper'[d] # paper[d] => closes(d) /\ paper'[d].surrendered
  <2> HIDE DEF closes
  <2>1. CASE closes(d)
    <3>1. paper'[d] = [paper[d] EXCEPT !.surrendered = TRUE] /\ paper[d] \in PaperRecords
      BY <1>6, <2>1
    <3> QED
      BY <2>1, <3>1 DEF PaperRecords, SameDocument
  <2>2. CASE ~closes(d)
    <3>1. paper'[d] = paper[d] /\ paper[d] \in PaperRecords
      BY <1>6, <2>2
    <3> QED
      BY <3>1 DEF SameDocument
  <2> QED
    BY <2>1, <2>2
<1>8. ImpTypes'
  <2>1. paper' \in [Papers -> PaperRecords]
    <3>1. paper' = [d \in Papers |-> paper'[d]]
      BY <1>1
    <3> QED
      BY <1>7, <3>1
  <2>2. control' \in Int
    BY <1>1, <1>4 DEF ImpInv, ImpTypes
  <2>3. payLines' \in Seq(ImpLines) /\ payslip' \in Seq(ImpLines) /\ desk' \in [Officers -> Desks]
    BY <1>1 DEF ImpInv, ImpTypes
  <2> QED
    BY <1>5, <2>1, <2>2, <2>3 DEF ImpTypes
<1>9. AllKnow'
  BY <1>1, <1>7, AllKnowKept
<1>10. KeysUsed'
  BY <1>1, <1>7 DEF ImpInv, KeysUsed
<1>11. SlipIsBeginning'
  <2>1. Len(<<>>) = 0
    OBVIOUS
  <2> QED
    BY <1>1, <2>1 DEF SlipIsBeginning
<1>12. impMarks \subseteq impMarks'
  BY <1>1
<1>13. WithinLimit'
  <2>1. Outstanding' \subseteq Outstanding /\ Outstanding \in SUBSET Papers
    BY <1>7 DEF Outstanding
  <2>2. PICK S, T : S = Outstanding /\ T = Outstanding'
    OBVIOUS
  <2>3. S \in SUBSET Papers /\ T \in SUBSET Papers /\ T \subseteq S
    BY <2>1, <2>2
  <2>4. Cardinality(T) <= Cardinality(S) /\ Cardinality(S) \in Nat /\ Cardinality(T) \in Nat
    BY <2>3, OutstandingCounted
  <2> QED
    BY <1>12, <2>2, <2>4, ImprestAssumption DEF ImpInv, WithinLimit
<1>14. ASSUME impMarks' \cap {"both", "hand"} = {}
       PROVE  \A d \in Papers : Settled(d) = DueIn(payslip, d)
  <2>1. Len(payslip) <= Len(payLines) /\ \A i \in 1 .. Len(payslip) : payslip[i] = payLines[i]
    BY <1>12, <1>14 DEF ImpInv, SlipIsBeginning
  <2>2. "both" \notin IF \E i, j \in DOMAIN payLines : i # j /\ SameCode(payLines[i], payLines[j])
                      THEN {"both"} ELSE {}
    BY <1>1, <1>14
  <2>3. ~ \E i, j \in DOMAIN payLines : i # j /\ SameCode(payLines[i], payLines[j])
    BY <2>2
  <2>4. \A i, j \in 1 .. Len(payLines) : i # j => ~SameCode(payLines[i], payLines[j])
    BY <1>2, <2>3
  <2> QED
    BY <1>2, <2>1, <2>4, SettledIs
<1>15. LedgerMirrored'
  <2> SUFFICES ASSUME impMarks' \cap {"twice", "both", "hand"} = {}
               PROVE  control' = SumOver(empLedger', Papers)
    BY DEF LedgerMirrored
  <2>1. control = SumOver(empLedger, Papers)
    BY <1>12 DEF ImpInv, LedgerMirrored
  <2>2. \A d \in Papers : settled[d] = DueIn(payslip, d)
    BY <1>14
  <2>3. \A i \in 1 .. Len(payslip) : all[i] = payslip[i].amount
    BY <1>2
  <2>4. PICK f, g : f = empLedger /\ g = empLedger'
    OBVIOUS
  <2>5. \A d \in Papers : g[d] \in Int /\ settled[d] \in Int /\ f[d] = g[d] + settled[d]
    <3>1. \A d \in Papers : settled[d] = Settled(d)
      OBVIOUS
    <3> HIDE DEF settled
    <3> QED
      BY <1>3, <1>5, <2>4, <3>1
  <2>6. IsFiniteSet(Papers)
    BY ImprestAssumption
  <2> HIDE DEF settled, all
  <2>7. SumOver(settled, Papers) = SumOver(all, 1 .. Len(payslip))
    BY <1>2, <2>2, <2>3, DueOfAll
  <2>8. SumOver(f, Papers) = SumOver(g, Papers) + SumOver(settled, Papers)
    BY <2>5, <2>6, SumOfSums
  <2>9. SumOver(g, Papers) \in Int /\ SumOver(settled, Papers) \in Int
    BY <2>5, <2>6, SumIsInt
  <2>10. control' = control - SumOver(all, 1 .. Len(payslip))
    BY <1>1, <1>4
  <2> QED
    BY <2>1, <2>4, <2>7, <2>8, <2>9, <2>10
<1>16. ASSUME impMarks' \subseteq {"over"}, NEW x \in Papers
       PROVE  PaperInv(paper'[x], empLedger'[x], <<>>, desk, x)
  <2> DEFINE p == paper[x]
             r == paper'[x]
             e == empLedger[x]
  <2>1. PaperInv(p, e, payLines, desk, x)
    BY <1>12, <1>16 DEF ImpInv, AllDocs
  <2>2. payslip = payLines
    <3>1. "lost" \notin IF payslip # payLines THEN {"lost"} ELSE {}
      BY <1>1, <1>16
    <3> QED
      BY <3>1
  <2>3. Settled(x) = DueIn(payLines, x)
    BY <1>14, <1>16, <2>2
  <2>4. empLedger'[x] = e - DueIn(payLines, x) /\ e \in Int /\ DueIn(payLines, x) \in Int
    BY <1>3, <1>5, <2>3
  <2>5. NoLines(payLines, x) => DueIn(payLines, x) = 0 /\ LinesFor(x) = {}
    BY <1>2, DueIsInt DEF NoLines, LinesFor
  <2>6. DueIn(<<>>, x) = 0 /\ NoLines(<<>>, x)
    BY DueOfNone
  <2>7. /\ r.posted = p.posted /\ r.transferred = p.transferred /\ r.kind = p.kind
        /\ p.surrendered => r.surrendered
        /\ r # p => r.surrendered /\ p.posted /\ p.kind = "imprest" /\ LinesFor(x) # {}
    BY <1>7 DEF Outstanding
  <2> HIDE DEF p, r, e, closes
  <2>8. ASSUME DocSound(p, e, payLines, x) PROVE DocSound(r, empLedger'[x], <<>>, x)
    <3>1. CASE ~p.posted
      <4>1. e = 0 /\ NoLines(payLines, x) /\ r = p
        BY <2>7, <2>8, <3>1 DEF DocSound
      <4> QED
        BY <2>4, <2>5, <2>6, <2>8, <3>1, <4>1 DEF DocSound, Settles
    <3>2. CASE p.posted /\ ~Settles(p)
      <4>1. e = Advance /\ NoLines(payLines, x)
        BY <2>8, <3>2 DEF DocSound
      <4>2. r = p
        BY <2>5, <2>7, <4>1
      <4> QED
        BY <2>4, <2>5, <2>6, <3>2, <4>1, <4>2 DEF DocSound
    <3>3. CASE p.posted /\ Settles(p)
      <4>1. e = DueIn(payLines, x)
        BY <2>8, <3>3 DEF DocSound
      <4>2. r.posted /\ Settles(r)
        BY <2>7, <3>3 DEF Settles
      <4> QED
        BY <2>4, <2>6, <4>1, <4>2 DEF DocSound
    <3> QED
      BY <3>1, <3>2, <3>3
  <2>9. ASSUME NEW q \in Officers, desk[q] # <<>>, desk[q][1] \in {"transfer", "mark"}, desk[q][2] = x,
               r = desk[q][3]
        PROVE  p = desk[q][3]
    <3>1. Knows(desk[q], p)
      BY <2>9 DEF ImpInv, AllKnow, p
    <3>2. ~desk[q][3].surrendered
      BY <2>9, <3>1 DEF Knows
    <3> QED
      BY <2>7, <2>9, <3>2
  <2>10. (\A q \in Officers : ~Marks(desk, q, x)) => DocSound(r, empLedger'[x], <<>>, x)
    BY <2>1, <2>8 DEF PaperInv
  <2>11. ASSUME NEW q \in Officers, Marks(desk, q, x), r = desk[q][3],
                \A k \in Officers : Marks(desk, k, x) => k = q
         PROVE  empLedger'[x] = DueIn(<<>>, x)
    <3>1. p = desk[q][3]
      BY <2>9, <2>11 DEF Marks
    <3>2. e = DueIn(payLines, x)
      BY <2>1, <2>11, <3>1 DEF PaperInv
    <3> QED
      BY <2>4, <2>6, <3>2
  <2>12. ASSUME NEW q \in Officers, desk[q] # <<>>, desk[q][1] = "transfer", desk[q][2] = x, r = desk[q][3],
                \A k \in Officers : ~Marks(desk, k, x)
         PROVE  desk[q][4] = Advance
    <3>1. p = desk[q][3]
      BY <2>9, <2>12
    <3> QED
      BY <2>1, <2>12, <3>1 DEF PaperInv
  <2>13. PaperInv(r, empLedger'[x], <<>>, desk, x)
    BY <2>10, <2>11, <2>12 DEF PaperInv
  <2> QED
    BY <2>13 DEF r
<1>17. AllDocs'
  BY <1>1, <1>16 DEF AllDocs
<1> QED
  BY <1>8, <1>9, <1>10, <1>11, <1>13, <1>15, <1>17 DEF ImpInv

LEMMA ImpInitInv == ImpInit => ImpInv
<1> SUFFICES ASSUME ImpInit PROVE ImpInv
  OBVIOUS
<1>1. /\ empLedger = [d \in Papers |-> 0] /\ control = 0 /\ keys = {}
      /\ payLines = <<>> /\ payslip = <<>>
      /\ desk = [o \in Officers |-> <<>>] /\ impMarks = {}
  BY DEF ImpInit
<1>2. paper \in [Papers -> PaperRecords]
      /\ \A d \in Papers : ~paper[d].posted /\ ~paper[d].surrendered /\ ~paper[d].transferred
  BY DEF ImpInit, PaperRecords
<1>3. ImpTypes
  <2>1. payLines \in Seq(ImpLines) /\ payslip \in Seq(ImpLines)
    BY <1>1
  <2>2. desk \in [Officers -> Desks]
    BY <1>1 DEF Desks
  <2> QED
    BY <1>1, <1>2, <2>1, <2>2 DEF ImpTypes
<1>4. AllKnow /\ KeysUsed
  BY <1>1 DEF AllKnow, KeysUsed
<1>5. SlipIsBeginning
  <2>1. Len(<<>>) = 0
    OBVIOUS
  <2> QED
    BY <1>1, <2>1 DEF SlipIsBeginning
<1>6. AllDocs
  <2> SUFFICES ASSUME NEW d \in Papers PROVE PaperInv(paper[d], empLedger[d], payLines, desk, d)
    BY DEF AllDocs
  <2>1. DueIn(payLines, d) = 0 /\ NoLines(payLines, d)
    BY <1>1, DueOfNone
  <2>2. DocSound(paper[d], empLedger[d], payLines, d)
    BY <1>1, <1>2, <2>1 DEF DocSound, Settles
  <2>3. \A o \in Officers : desk[o] = <<>>
    BY <1>1
  <2> QED
    BY <2>2, <2>3 DEF PaperInv, Marks
<1>7. LedgerMirrored
  <2>1. IsFiniteSet(Papers) /\ \A d \in Papers : empLedger[d] = 0
    BY <1>1, ImprestAssumption
  <2>2. SumOver(empLedger, Papers) = 0
    BY <2>1, SumOfZeros
  <2> QED
    BY <1>1, <2>2 DEF LedgerMirrored
<1>8. WithinLimit
  <2>1. Outstanding = {}
    BY <1>2 DEF Outstanding
  <2>2. Cardinality(Outstanding) = 0
    BY <2>1, FS_EmptySet
  <2> QED
    BY <2>2, ImprestAssumption DEF WithinLimit
<1> QED
  BY <1>3, <1>4, <1>5, <1>6, <1>7, <1>8 DEF ImpInv

LEMMA ImpStepInv == ImpInv /\ [ImpNext]_impVars => ImpInv'
<1> SUFFICES ASSUME ImpInv, [ImpNext]_impVars PROVE ImpInv'
  OBVIOUS
<1>1. ASSUME NEW o \in Officers, NEW op \in ImpOps, NEW d \in Papers, LookAt(o, op, d) PROVE ImpInv'
  BY <1>1, LookAtKeeps
<1>2. ASSUME NEW o \in Officers, PostPaper(o) PROVE ImpInv'
  BY <1>2, PostPaperKeeps
<1>3. ASSUME NEW o \in Officers, Transfer(o) PROVE ImpInv'
  BY <1>3, TransferKeeps
<1>4. ASSUME NEW o \in Officers, MarkTransferred(o) PROVE ImpInv'
  BY <1>4, MarkTransferredKeeps
<1>5. ASSUME NEW o \in Officers, DropWork(o) PROVE ImpInv'
  BY <1>5, DropWorkKeeps
<1>6. ASSUME NEW i \in DOMAIN payLines, RemoveLine(i) PROVE ImpInv'
  BY <1>6, RemoveLineKeeps
<1>7. CASE UNCHANGED impVars
  BY <1>7 DEF impVars, ImpInv, ImpTypes, AllKnow, KeysUsed, SlipIsBeginning, WithinLimit,
              Outstanding, LedgerMirrored, AllDocs
<1> QED
  BY <1>1, <1>2, <1>3, <1>4, <1>5, <1>6, <1>7, RunPayslipKeeps, ApprovePayrollKeeps, ClosePayrollKeeps
  DEF ImpNext, ImpOps

LEMMA ImprestsAreSound == ImpInv => Imprests
<1> SUFFICES ASSUME ImpInv PROVE Imprests
  OBVIOUS
<1>1. MirrorsLedger
  <2>1. DOMAIN empLedger = Papers
    BY DEF ImpInv, ImpTypes
  <2>2. EmployeeLedger = SumOver(empLedger, Papers)
    BY <2>1, SumOfFunction DEF EmployeeLedger
  <2> QED
    BY <2>2 DEF ImpInv, LedgerMirrored, MirrorsLedger
<1>2. SettledOrOnPayroll
  <2> SUFFICES ASSUME impMarks \subseteq {"over"}, \A o \in Officers : ~AtWork(o, "mark"), NEW d \in Papers,
                      paper[d].surrendered \/ paper[d].transferred
                        \/ (paper[d].posted /\ paper[d].kind = "claim")
               PROVE  empLedger[d] = SumFunction([i \in LinesFor(d) |-> payLines[i].amount])
    BY DEF SettledOrOnPayroll
  <2>1. PaperInv(paper[d], empLedger[d], payLines, desk, d)
    BY DEF ImpInv, AllDocs
  <2>2. \A o \in Officers : ~Marks(desk, o, d)
    BY DEF AtWork, Marks
  <2>3. empLedger[d] = DueIn(payLines, d)
    BY <2>1, <2>2 DEF PaperInv, DocSound, Settles
  <2> DEFINE f == [i \in LinesFor(d) |-> payLines[i].amount]
             g == AmountFor(payLines, d)
             Ls == 1 .. Len(payLines)
  <2>4. payLines \in Seq(ImpLines)
    BY DEF ImpInv, ImpTypes
  <2>5. IsFiniteSet(Ls) /\ DOMAIN payLines = Ls /\ \A i \in Ls : payLines[i].amount \in Int
    BY <2>4, LineFields
  <2>6. \A i \in Ls : g[i] \in Int /\ g[i] = IF payLines[i].doc = d THEN payLines[i].amount ELSE 0
    BY <2>4, DueIsInt
  <2>7. LinesFor(d) = {i \in Ls : payLines[i].doc = d}
    BY <2>5 DEF LinesFor
  <2>8. SumFunction(f) = SumOver(f, LinesFor(d))
    BY SumOfFunction
  <2>9. \A i \in LinesFor(d) : f[i] = payLines[i].amount
    OBVIOUS
  <2> HIDE DEF f, g, Ls
  <2>10. LinesFor(d) \in SUBSET Ls /\ \A i \in Ls \ LinesFor(d) : g[i] = 0
    BY <2>6, <2>7
  <2>11. IsFiniteSet(LinesFor(d))
    BY <2>5, <2>10, FS_Subset
  <2>12. \A i \in LinesFor(d) : f[i] = g[i] /\ f[i] \in Int
    BY <2>6, <2>7, <2>9
  <2>13. SumOver(f, LinesFor(d)) = SumOver(g, LinesFor(d))
    BY <2>11, <2>12, SumSame
  <2>14. SumOver(g, Ls) = SumOver(g, LinesFor(d))
    BY <2>5, <2>6, <2>10, SumOfPart
  <2>15. DueIn(payLines, d) = SumOver(g, Ls)
    BY DEF DueIn, g, Ls
  <2> QED
    BY <2>3, <2>8, <2>13, <2>14, <2>15 DEF f
<1> QED
  BY <1>1, <1>2 DEF ImpInv, Imprests

-----------------------------------------------------------------------------
(* The end of a fiscal year, for any number of years, accounts, dimension   *)
(* values, closings and requests.                                           *)
(*                                                                          *)
(* The inductive invariant keeps, for each closing, posted or still at work,*)
(* what it was computed from: its lines are what it read less the closings  *)
(* then standing, cell by cell or account by account.  While no closing     *)
(* missed another, the last of a year saw every closing of it that stands,  *)
(* and a request sees by their number that one was posted since; and every  *)
(* closing transfers no less than nothing of each account, because nothing  *)
(* less was left when it looked.  Retained earnings are the closings that   *)
(* stand.                                                                   *)

Ys == 1 .. MaxYears
Numbers == [Cells -> Int]
ClosingRecords ==
    [year : Ys, lines : Numbers, reversed : BOOLEAN, byDimension : BOOLEAN,
     read : [Cells -> Nat], standing : SUBSET Nat]
AtWorkOnYears == {<<>>} \cup ({"year"} \X Nat) \cup ({"close"} \X ClosingRecords \X Nat)

YearTypes ==
    /\ years \in Ys /\ ordinary \in [Ys -> [Cells -> Nat]] /\ closings \in Seq(ClosingRecords)
    /\ retained \in [DimValues -> Int] /\ accountant \in [Accountants -> AtWorkOnYears]
    /\ closeMarks \in SUBSET {"twice"}

\* The years closed are the first ones, and who asked for one asks for the next or one of them.
InOrder ==
    \E n \in Nat :
        /\ n <= years /\ fiscallyClosed = 1 .. n
        /\ \A k \in Accountants : Busy(k, "year") => accountant[k][2] \in 1 .. (n + 1) /\ accountant[k][2] <= years

\* Of closings Q: those of a year, those that stand, and what some of them took of a cell.
OfYear(Q, y) == {i \in DOMAIN Q : Q[i].year = y}
StandingIn(Q, y) == {i \in DOMAIN Q : Q[i].year = y /\ ~Q[i].reversed}
LinesOver(Q, w, c) == SumOver([i \in w |-> Q[i].lines[c]], w)

\* What a table of the cells has of an account, and in all.
InAccount(t, a) == SumOver([d \in DimValues |-> t[<<a, d>>]], DimValues)
InCells(t) == SumOver(t, Cells)

NetRead(q, Q) == [c \in Cells |-> q.read[c] - LinesOver(Q, q.standing, c)]
NetNow(O, Q, y) == [c \in Cells |-> O[y][c] - LinesOver(Q, StandingIn(Q, y), c)]

\* A closing transfers what was left when it looked.
Exact(q, Q) ==
    /\ q.standing \subseteq OfYear(Q, q.year)
    /\ q.byDimension => q.lines = NetRead(q, Q)
    /\ \A a \in ResultAccounts : InAccount(q.lines, a) = InAccount(NetRead(q, Q), a)

ReadBefore(q, O) == \A c \in Cells : q.read[c] <= O[q.year][c]

NotNegative(t) == \A a \in ResultAccounts : InAccount(t, a) >= 0

\* A request that is to post the closing q, with the number of closings it counted.
Ready(q, n, Q) ==
    /\ ~q.reversed /\ n <= Cardinality(OfYear(Q, q.year))
    /\ n = Cardinality(OfYear(Q, q.year)) => StandingIn(Q, q.year) \subseteq q.standing

LastOf(Q, k) == \A j \in OfYear(Q, Q[k].year) : j <= k

NothingMissed(Q) ==
    \A k \in DOMAIN Q : LastOf(Q, k) => StandingIn(Q, Q[k].year) \subseteq Q[k].standing \cup {k}

\* What the closings of a year that stand took in all.
Given(Q, y) == InCells([c \in Cells |-> LinesOver(Q, StandingIn(Q, y), c)])

PostedSoundly(Q, O) ==
    \A k \in DOMAIN Q : Exact(Q[k], Q) /\ ReadBefore(Q[k], O) /\ k \notin Q[k].standing

WaitingSoundly(R, Q, O) ==
    \A k \in Accountants : R[k] # <<>> /\ R[k][1] = "close" =>
        Exact(R[k][2], Q) /\ ReadBefore(R[k][2], O) /\ Ready(R[k][2], R[k][3], Q)

NoneBelow(R, Q) ==
    /\ \A k \in DOMAIN Q : NotNegative(Q[k].lines)
    /\ \A k \in Accountants : R[k] # <<>> /\ R[k][1] = "close" => NotNegative(R[k][2].lines)

YearInv ==
    /\ YearTypes /\ InOrder
    /\ PostedSoundly(closings, ordinary)
    /\ WaitingSoundly(accountant, closings, ordinary)
    /\ closeMarks = {} => NothingMissed(closings) /\ NoneBelow(accountant, closings)
    /\ SumOver(retained, DimValues) = SumOver([y \in Ys |-> Given(closings, y)], Ys)

LEMMA YearFinite ==
    /\ IsFiniteSet(ResultAccounts) /\ IsFiniteSet(DimValues) /\ IsFiniteSet(Cells) /\ IsFiniteSet(Ys)
    /\ \A Q \in Seq(ClosingRecords) : DOMAIN Q = 1 .. Len(Q) /\ Len(Q) \in Nat /\ IsFiniteSet(DOMAIN Q)
<1>1. IsFiniteSet(ResultAccounts) /\ IsFiniteSet(DimValues) /\ MaxYears \in Nat
  BY YearAssumption
<1>2. IsFiniteSet(Cells)
  BY <1>1, FS_Product DEF Cells
<1>3. IsFiniteSet(Ys)
  BY <1>1, FS_Interval DEF Ys
<1>4. ASSUME NEW Q \in Seq(ClosingRecords) PROVE DOMAIN Q = 1 .. Len(Q) /\ Len(Q) \in Nat /\ IsFiniteSet(DOMAIN Q)
  BY FS_Interval
<1> QED
  BY <1>1, <1>2, <1>3, <1>4

\* A closing has its fields.
LEMMA ClosingFields ==
    ASSUME NEW q \in ClosingRecords
    PROVE  /\ q.year \in Ys /\ q.lines \in Numbers /\ q.reversed \in BOOLEAN
           /\ q.byDimension \in BOOLEAN /\ q.read \in [Cells -> Nat] /\ q.standing \in SUBSET Nat
           /\ \A c \in Cells : q.lines[c] \in Int /\ q.read[c] \in Int /\ q.read[c] >= 0
<1>1. /\ q.year \in Ys /\ q.lines \in Numbers /\ q.reversed \in BOOLEAN
      /\ q.byDimension \in BOOLEAN /\ q.read \in [Cells -> Nat] /\ q.standing \in SUBSET Nat
  BY DEF ClosingRecords
<1> QED
  BY <1>1 DEF Numbers

\* The closings of a year are finitely many.
LEMMA ClosingsFinite ==
    ASSUME NEW Q \in Seq(ClosingRecords), NEW y
    PROVE  /\ OfYear(Q, y) \in SUBSET DOMAIN Q /\ IsFiniteSet(OfYear(Q, y))
           /\ StandingIn(Q, y) \in SUBSET OfYear(Q, y) /\ IsFiniteSet(StandingIn(Q, y))
           /\ Cardinality(OfYear(Q, y)) \in Nat
<1>1. OfYear(Q, y) \in SUBSET DOMAIN Q /\ StandingIn(Q, y) \in SUBSET OfYear(Q, y)
  BY DEF OfYear, StandingIn
<1>2. IsFiniteSet(OfYear(Q, y))
  BY <1>1, YearFinite, FS_Subset
<1> QED
  BY <1>1, <1>2, FS_Subset, FS_CardinalityType

\* What closings took of a cell is a number.
LEMMA LinesInt ==
    ASSUME NEW Q \in Seq(ClosingRecords), NEW w \in SUBSET DOMAIN Q, NEW c \in Cells
    PROVE  /\ IsFiniteSet(w) /\ LinesOver(Q, w, c) \in Int
           /\ \A i \in w : [j \in w |-> Q[j].lines[c]][i] = Q[i].lines[c] /\ Q[i].lines[c] \in Int
<1>1. IsFiniteSet(w)
  BY YearFinite, FS_Subset
<1>2. ASSUME NEW i \in w PROVE Q[i].lines[c] \in Int
  <2>1. Q[i] \in ClosingRecords
    BY YearFinite
  <2> QED
    BY <2>1, ClosingFields
<1> DEFINE f == [j \in w |-> Q[j].lines[c]]
<1>3. \A i \in w : f[i] = Q[i].lines[c] /\ f[i] \in Int
  BY <1>2
<1>4. SumOver(f, w) \in Int
  <2> HIDE DEF f
  <2> QED
    BY <1>1, <1>3, SumIsInt
<1> QED
  BY <1>1, <1>2, <1>3, <1>4 DEF LinesOver

\* Closings that keep their lines took the same.
LEMMA LinesSame ==
    ASSUME NEW Q, NEW P, NEW w, NEW c, \A i \in w : P[i].lines = Q[i].lines
    PROVE  LinesOver(P, w, c) = LinesOver(Q, w, c)
<1>1. [i \in w |-> P[i].lines[c]] = [i \in w |-> Q[i].lines[c]]
  OBVIOUS
<1> QED
  BY <1>1 DEF LinesOver

\* Two sets of closings that share none.
LEMMA LinesOfUnion ==
    ASSUME NEW Q \in Seq(ClosingRecords), NEW v \in SUBSET DOMAIN Q, NEW w \in SUBSET DOMAIN Q,
           v \cap w = {}, NEW c \in Cells
    PROVE  LinesOver(Q, v \cup w, c) = LinesOver(Q, v, c) + LinesOver(Q, w, c)
<1> DEFINE f == [j \in v \cup w |-> Q[j].lines[c]]
           g == [j \in v |-> Q[j].lines[c]]
           h == [j \in w |-> Q[j].lines[c]]
<1>1. IsFiniteSet(v) /\ IsFiniteSet(w) /\ v \cup w \in SUBSET DOMAIN Q
  BY LinesInt
<1>2. \A i \in v \cup w : f[i] \in Int
  BY <1>1, LinesInt
<1>3. (\A i \in v : f[i] = g[i]) /\ (\A i \in w : f[i] = h[i])
  OBVIOUS
<1>4. LinesOver(Q, v \cup w, c) = SumOver(f, v \cup w) /\ LinesOver(Q, v, c) = SumOver(g, v) /\ LinesOver(Q, w, c) = SumOver(h, w)
  BY DEF LinesOver
<1> HIDE DEF f, g, h
<1>5. SumOver(f, v) = SumOver(g, v) /\ SumOver(f, w) = SumOver(h, w)
  BY <1>1, <1>2, <1>3, SumSame
<1>6. SumOver(f, v \cup w) = SumOver(f, v) + SumOver(f, w)
  BY <1>1, <1>2, SumOfUnion
<1> QED
  BY <1>4, <1>5, <1>6

\* One closing.
LEMMA LinesOfOne ==
    ASSUME NEW Q \in Seq(ClosingRecords), NEW i \in DOMAIN Q, NEW c \in Cells
    PROVE  LinesOver(Q, {i}, c) = Q[i].lines[c]
<1> DEFINE f == [j \in {i} |-> Q[j].lines[c]]
<1>1. {i} \in SUBSET DOMAIN Q
  OBVIOUS
<1>2. f[i] = Q[i].lines[c] /\ f[i] \in Int
  BY <1>1, LinesInt
<1> HIDE DEF f
<1>3. SumOver(f, {i}) = f[i]
  BY <1>2, SumOfOne
<1> QED
  BY <1>2, <1>3 DEF LinesOver, f

\* No closing.
LEMMA LinesOfNone == \A Q, c : LinesOver(Q, {}, c) = 0
BY SumOfNothing DEF LinesOver

\* A table of the cells, account by account.
LEMMA AccountInt ==
    ASSUME NEW t \in Numbers, NEW a \in ResultAccounts
    PROVE  /\ InAccount(t, a) \in Int
           /\ \A d \in DimValues : [e \in DimValues |-> t[<<a, e>>]][d] = t[<<a, d>>] /\ t[<<a, d>>] \in Int
<1> DEFINE f == [e \in DimValues |-> t[<<a, e>>]]
<1>1. \A d \in DimValues : <<a, d>> \in Cells
  BY DEF Cells
<1>2. \A d \in DimValues : f[d] = t[<<a, d>>] /\ f[d] \in Int
  BY <1>1 DEF Numbers
<1>3. SumOver(f, DimValues) \in Int
  <2> HIDE DEF f
  <2> QED
    BY <1>2, YearFinite, SumIsInt
<1> QED
  BY <1>2, <1>3 DEF InAccount

\* Tables that are added cell by cell are added account by account.
LEMMA AccountSums ==
    ASSUME NEW t \in Numbers, NEW s \in Numbers, NEW r \in Numbers, NEW a \in ResultAccounts,
           \A c \in Cells : r[c] = t[c] + s[c]
    PROVE  InAccount(r, a) = InAccount(t, a) + InAccount(s, a)
<1> DEFINE f == [e \in DimValues |-> t[<<a, e>>]]
           g == [e \in DimValues |-> s[<<a, e>>]]
           h == [e \in DimValues |-> r[<<a, e>>]]
<1>1. \A d \in DimValues : <<a, d>> \in Cells
  BY DEF Cells
<1>2. \A d \in DimValues : f[d] = t[<<a, d>>] /\ f[d] \in Int
  BY AccountInt
<1>3. \A d \in DimValues : g[d] = s[<<a, d>>] /\ g[d] \in Int
  BY AccountInt
<1>4. \A d \in DimValues : h[d] = r[<<a, d>>]
  OBVIOUS
<1>5. InAccount(t, a) = SumOver(f, DimValues) /\ InAccount(s, a) = SumOver(g, DimValues) /\ InAccount(r, a) = SumOver(h, DimValues)
  BY DEF InAccount
<1> HIDE DEF f, g, h
<1>6. \A d \in DimValues : f[d] \in Int /\ g[d] \in Int /\ h[d] = f[d] + g[d]
  BY <1>1, <1>2, <1>3, <1>4
<1> QED
  BY <1>5, <1>6, YearFinite, SumOfSums

\* A table with nothing below zero has no account below zero.
LEMMA AccountNotNegative ==
    ASSUME NEW t \in Numbers, \A c \in Cells : t[c] >= 0
    PROVE  NotNegative(t)
<1> SUFFICES ASSUME NEW a \in ResultAccounts PROVE InAccount(t, a) >= 0
  BY DEF NotNegative
<1> DEFINE f == [e \in DimValues |-> t[<<a, e>>]]
<1>1. \A d \in DimValues : <<a, d>> \in Cells
  BY DEF Cells
<1>2. \A d \in DimValues : f[d] \in Int /\ f[d] >= 0
  BY <1>1 DEF Numbers
<1>3. InAccount(t, a) = SumOver(f, DimValues)
  BY DEF InAccount
<1> HIDE DEF f
<1> QED
  BY <1>2, <1>3, YearFinite, SumNotNegative

\* What some closings took of each cell.
LEMMA TakenIsTable ==
    ASSUME NEW Q \in Seq(ClosingRecords), NEW w \in SUBSET DOMAIN Q
    PROVE  [c \in Cells |-> LinesOver(Q, w, c)] \in Numbers
BY LinesInt DEF Numbers

\* Closings that each took no less than nothing of an account took no less than nothing of it.
LEMMA TakenNotNegative ==
    ASSUME NEW Q \in Seq(ClosingRecords), NEW w \in SUBSET DOMAIN Q,
           \A i \in w : NotNegative(Q[i].lines)
    PROVE  NotNegative([c \in Cells |-> LinesOver(Q, w, c)])
<1> SUFFICES ASSUME NEW a \in ResultAccounts PROVE InAccount([c \in Cells |-> LinesOver(Q, w, c)], a) >= 0
  BY DEF NotNegative
<1> DEFINE cols == [d \in DimValues |-> [c \in Cells |-> LinesOver(Q, w, c)][<<a, d>>]]
           m == [i \in w |-> [d \in DimValues |-> Q[i].lines[<<a, d>>]]]
           t == [d \in DimValues |-> [i \in w |-> Q[i].lines[<<a, d>>]]]
           rows == [i \in w |-> InAccount(Q[i].lines, a)]
<1>0. \A d \in DimValues : <<a, d>> \in Cells
  BY DEF Cells
<1>1. IsFiniteSet(w)
  BY YearFinite, FS_Subset
<1>2. ASSUME NEW i \in w PROVE Q[i].lines \in Numbers
  <2>1. Q[i] \in ClosingRecords
    BY YearFinite
  <2> QED
    BY <2>1, ClosingFields
<1>3. \A i \in w : \A d \in DimValues : m[i][d] \in Int /\ t[d][i] = m[i][d]
  BY <1>2, AccountInt
<1>4. \A i \in w : rows[i] = SumOver(m[i], DimValues)
  BY DEF InAccount
<1>5. \A d \in DimValues : cols[d] = SumOver(t[d], w)
  BY <1>0 DEF LinesOver
<1>6. Table(w, DimValues, m, t, rows, cols)
  <2> HIDE DEF m, t, rows, cols
  <2> QED
    BY <1>3, <1>4, <1>5 DEF Table
<1>7. \A i \in w : rows[i] \in Int /\ rows[i] >= 0
  BY <1>2, AccountInt DEF NotNegative
<1>8. InAccount([c \in Cells |-> LinesOver(Q, w, c)], a) = SumOver(cols, DimValues)
  BY DEF InAccount
<1> HIDE DEF m, t, rows, cols
<1>9. SumOver(cols, DimValues) = SumOver(rows, w)
  BY <1>1, <1>6, YearFinite, SumsExchange
<1> QED
  BY <1>1, <1>7, <1>8, <1>9, SumNotNegative

\* What is sent to retained earnings per dimension value is in all what the cells have.
LEMMA SentInAll ==
    ASSUME NEW t \in Numbers
    PROVE  /\ \A d \in DimValues : RetainedLine(t, d) \in Int
           /\ SumOver([d \in DimValues |-> RetainedLine(t, d)], DimValues) = InCells(t)
           /\ InCells(t) \in Int
<1> DEFINE m == [a \in ResultAccounts |-> [d \in DimValues |-> t[<<a, d>>]]]
           u == [d \in DimValues |-> [a \in ResultAccounts |-> t[<<a, d>>]]]
           rows == [a \in ResultAccounts |-> SumOver(m[a], DimValues)]
           cols == [d \in DimValues |-> RetainedLine(t, d)]
<1>1. \A c \in Cells : t[c] \in Int
  BY DEF Numbers
<1>2. \A a \in ResultAccounts : \A d \in DimValues : t[<<a, d>>] \in Int /\ m[a][d] = t[<<a, d>>] /\ u[d][a] = m[a][d]
  BY <1>1 DEF Cells
<1>3. \A a \in ResultAccounts : rows[a] = SumOver(m[a], DimValues)
  OBVIOUS
<1>4. \A d \in DimValues : cols[d] = SumOver(u[d], ResultAccounts)
  <2>1. ASSUME NEW d \in DimValues PROVE cols[d] = SumOver(u[d], ResultAccounts)
    <3> DEFINE g == [a \in ResultAccounts |-> t[<<a, d>>]]
    <3>1. cols[d] = SumFunction(g) /\ u[d] = g /\ DOMAIN g = ResultAccounts
      BY DEF RetainedLine
    <3>2. SumFunction(g) = SumOver(g, DOMAIN g)
      BY SumOfFunction
    <3> QED
      BY <3>1, <3>2
  <2> QED
    BY <2>1
<1>5. Table(ResultAccounts, DimValues, m, u, rows, cols)
  <2> HIDE DEF m, u, rows, cols
  <2> QED
    BY <1>2, <1>3, <1>4 DEF Table
<1>6. \A d \in DimValues : cols[d] \in Int
  <2>1. ASSUME NEW d \in DimValues PROVE SumOver(u[d], ResultAccounts) \in Int
    <3>1. \A a \in ResultAccounts : u[d][a] \in Int
      BY <1>2
    <3> HIDE DEF u
    <3> QED
      BY <3>1, YearFinite, SumIsInt
  <2> QED
    BY <1>4, <2>1
<1>7. SumOver(t, ResultAccounts \X DimValues) = SumOver(rows, ResultAccounts)
  <2> HIDE DEF m, u, rows, cols
  <2>1. PairsOf(ResultAccounts, DimValues, t, m)
    BY <1>2 DEF PairsOf
  <2> QED
    BY <1>3, <2>1, YearFinite, SumOfPairs
<1>8. SumOver(cols, DimValues) = SumOver(rows, ResultAccounts)
  <2> HIDE DEF m, u, rows, cols
  <2> QED
    BY <1>5, YearFinite, SumsExchange
<1>9. InCells(t) \in Int
  BY <1>1, YearFinite, SumIsInt DEF InCells
<1> QED
  BY <1>6, <1>7, <1>8, <1>9 DEF InCells, Cells

\* What a request read, and what is left now, are tables.
LEMMA NetsAreTables ==
    ASSUME NEW Q \in Seq(ClosingRecords), NEW q \in ClosingRecords, q.standing \subseteq DOMAIN Q,
           NEW O \in [Ys -> [Cells -> Nat]], NEW y \in Ys
    PROVE  /\ NetRead(q, Q) \in Numbers /\ NetNow(O, Q, y) \in Numbers
           /\ \A c \in Cells : O[y][c] \in Int /\ O[y][c] >= 0
<1>1. \A c \in Cells : q.read[c] \in Int
  BY ClosingFields
<1>2. \A c \in Cells : LinesOver(Q, q.standing, c) \in Int
  BY LinesInt
<1>3. StandingIn(Q, y) \in SUBSET DOMAIN Q
  BY ClosingsFinite
<1>4. \A c \in Cells : LinesOver(Q, StandingIn(Q, y), c) \in Int
  BY <1>3, LinesInt
<1>5. O[y] \in [Cells -> Nat]
  OBVIOUS
<1>6. \A c \in Cells : O[y][c] \in Int /\ O[y][c] >= 0
  BY <1>5
<1> QED
  BY <1>1, <1>2, <1>4, <1>6 DEF NetRead, NetNow, Numbers

\* What should be left of a cell after the closing k.
Kept(O, Q, k, c) ==
    O[Q[k].year][c] - Q[k].read[c]
    + LinesOver(Q, (Q[k].standing \cup {k}) \ StandingIn(Q, Q[k].year), c)

\* After the last closing of a year, cell by cell and account by account.
LEMMA AfterTheLast ==
    ASSUME NEW Q \in Seq(ClosingRecords), NEW O \in [Ys -> [Cells -> Nat]],
           PostedSoundly(Q, O), NothingMissed(Q),
           NEW k \in DOMAIN Q, LastOf(Q, k)
    PROVE  /\ Q[k].byDimension => \A c \in Cells : NetNow(O, Q, Q[k].year)[c] = Kept(O, Q, k, c)
           /\ \A a \in ResultAccounts : InAccount(NetNow(O, Q, Q[k].year), a)
                                         = InAccount([c \in Cells |-> Kept(O, Q, k, c)], a)
           /\ (\A i \in DOMAIN Q : NotNegative(Q[i].lines)) => NotNegative(NetNow(O, Q, Q[k].year))
<1> DEFINE q == Q[k]
           y == q.year
           S == StandingIn(Q, y)
           W == q.standing \cup {k}
           K == [c \in Cells |-> Kept(O, Q, k, c)]
           N == NetNow(O, Q, y)
           R == NetRead(q, Q)
<1>1. /\ q \in ClosingRecords /\ q.lines \in Numbers /\ y \in Ys
      /\ \A c \in Cells : q.lines[c] \in Int /\ q.read[c] \in Int /\ q.read[c] >= 0
  <2>1. q \in ClosingRecords
    BY YearFinite
  <2> QED
    BY <2>1, ClosingFields
<1>2. Exact(q, Q) /\ ReadBefore(q, O) /\ k \notin q.standing /\ S \subseteq W
  BY DEF PostedSoundly, NothingMissed
<1>3. q.standing \in SUBSET DOMAIN Q /\ S \in SUBSET DOMAIN Q /\ W \in SUBSET DOMAIN Q /\ W \ S \in SUBSET DOMAIN Q /\ {k} \in SUBSET DOMAIN Q
  BY <1>2, ClosingsFinite DEF Exact, OfYear
<1>4. ASSUME NEW c \in Cells
      PROVE  /\ K[c] = Kept(O, Q, k, c) /\ K[c] \in Int /\ N[c] + q.lines[c] = K[c] + R[c]
             /\ K[c] = (O[y][c] - q.read[c]) + LinesOver(Q, W \ S, c)
  <2>1. LinesOver(Q, W, c) = LinesOver(Q, S, c) + LinesOver(Q, W \ S, c)
    <3>1. S \cup (W \ S) = W /\ S \cap (W \ S) = {}
      BY <1>2
    <3>2. LinesOver(Q, S \cup (W \ S), c) = LinesOver(Q, S, c) + LinesOver(Q, W \ S, c)
      <4> HIDE DEF S, W
      <4> QED
        BY <1>3, <3>1, LinesOfUnion
    <3> HIDE DEF S, W
    <3> QED
      BY <3>1, <3>2
  <2>2. LinesOver(Q, W, c) = LinesOver(Q, q.standing, c) + q.lines[c]
    <3>1. q.standing \cap {k} = {}
      BY <1>2
    <3>2. LinesOver(Q, q.standing \cup {k}, c) = LinesOver(Q, q.standing, c) + LinesOver(Q, {k}, c)
      BY <1>3, <3>1, LinesOfUnion
    <3>3. LinesOver(Q, {k}, c) = Q[k].lines[c]
      BY LinesOfOne
    <3> QED
      BY <3>2, <3>3
  <2>3. LinesOver(Q, S, c) \in Int /\ LinesOver(Q, W \ S, c) \in Int /\ LinesOver(Q, q.standing, c) \in Int
    <3> HIDE DEF S, W
    <3> QED
      BY <1>3, LinesInt
  <2>4. N[c] = O[y][c] - LinesOver(Q, S, c) /\ R[c] = q.read[c] - LinesOver(Q, q.standing, c)
    BY DEF NetNow, NetRead
  <2>5. K[c] = Kept(O, Q, k, c) /\ Kept(O, Q, k, c) = (O[y][c] - q.read[c]) + LinesOver(Q, W \ S, c)
    BY DEF Kept
  <2>6. O[y][c] \in Int /\ q.read[c] \in Int /\ q.lines[c] \in Int
    BY <1>1, <1>3, NetsAreTables
  <2> HIDE DEF S, W, K, N, R, q, y
  <2>7. N[c] + q.lines[c] = K[c] + R[c]
    <3>1. PICK l1 \in Int, l2 \in Int, l3 \in Int :
             l1 = LinesOver(Q, S, c) /\ l2 = LinesOver(Q, W \ S, c) /\ l3 = LinesOver(Q, q.standing, c)
      BY <2>3
    <3>2. PICK o \in Int, r \in Int, l \in Int : o = O[y][c] /\ r = q.read[c] /\ l = q.lines[c]
      BY <2>6
    <3>3. l1 + l2 = l3 + l
      BY <2>1, <2>2, <3>1, <3>2
    <3>4. N[c] = o - l1 /\ R[c] = r - l3 /\ K[c] = (o - r) + l2
      BY <2>4, <2>5, <3>1, <3>2
    <3>5. (o - l1) + l = ((o - r) + l2) + (r - l3)
      BY <3>3
    <3> QED
      BY <3>2, <3>4, <3>5
  <2>8. K[c] \in Int
    BY <2>3, <2>5, <2>6
  <2> QED
    BY <2>5, <2>7, <2>8
<1>5. K \in Numbers
  <2>1. \A c \in Cells : Kept(O, Q, k, c) \in Int
    BY <1>4
  <2> QED
    BY <2>1 DEF Numbers
<1>6. N \in Numbers /\ R \in Numbers
  BY <1>1, <1>3, NetsAreTables
<1>7. ASSUME NEW a \in ResultAccounts PROVE InAccount(N, a) = InAccount(K, a)
  <2> DEFINE T == [c \in Cells |-> N[c] + q.lines[c]]
  <2>1. T \in Numbers
    <3> HIDE DEF N, q
    <3> QED
      BY <1>1, <1>6 DEF Numbers
  <2>2. \A c \in Cells : T[c] = N[c] + q.lines[c]
    BY DEF T
  <2>3. \A c \in Cells : T[c] = K[c] + R[c]
    BY <1>4, <2>2
  <2> HIDE DEF T, N, K, R, q
  <2>4. InAccount(T, a) = InAccount(N, a) + InAccount(q.lines, a)
    BY <1>1, <1>6, <2>1, <2>2, AccountSums
  <2>5. InAccount(T, a) = InAccount(K, a) + InAccount(R, a)
    BY <1>5, <1>6, <2>1, <2>3, AccountSums
  <2>6. InAccount(q.lines, a) = InAccount(R, a)
    BY <1>2 DEF Exact, R
  <2>7. InAccount(N, a) \in Int /\ InAccount(K, a) \in Int /\ InAccount(R, a) \in Int
    BY <1>5, <1>6, AccountInt
  <2> QED
    BY <2>4, <2>5, <2>6, <2>7
<1>8. ASSUME q.byDimension, NEW c \in Cells PROVE N[c] = Kept(O, Q, k, c)
  <2>1. q.lines = R
    BY <1>2, <1>8 DEF Exact
  <2>2. R[c] \in Int /\ N[c] \in Int
    <3> HIDE DEF R, N
    <3> QED
      BY <1>6 DEF Numbers
  <2>3. N[c] + q.lines[c] = K[c] + R[c] /\ K[c] = Kept(O, Q, k, c) /\ K[c] \in Int
    BY <1>4
  <2> HIDE DEF N, R, K, q
  <2> QED
    BY <2>1, <2>2, <2>3
<1>9. ASSUME \A i \in DOMAIN Q : NotNegative(Q[i].lines) PROVE NotNegative(N)
  <2> DEFINE D == [c \in Cells |-> O[y][c] - q.read[c]]
             L == [c \in Cells |-> LinesOver(Q, W \ S, c)]
  <2>1. \A c \in Cells : q.read[c] <= O[y][c] /\ O[y][c] \in Int
    BY <1>1, <1>2, <1>3, NetsAreTables DEF ReadBefore
  <2>2. D \in Numbers /\ \A c \in Cells : D[c] >= 0
    <3> HIDE DEF q, y
    <3> QED
      BY <1>1, <2>1 DEF Numbers
  <2>3. L \in Numbers /\ NotNegative(L)
    <3> HIDE DEF S, W
    <3> QED
      BY <1>3, <1>9, TakenIsTable, TakenNotNegative
  <2>4. NotNegative(D)
    <3> HIDE DEF D
    <3> QED
      BY <2>2, AccountNotNegative
  <2>5. \A c \in Cells : K[c] = D[c] + L[c]
    BY <1>4
  <2> SUFFICES ASSUME NEW a \in ResultAccounts PROVE InAccount(N, a) >= 0
    BY DEF NotNegative
  <2> HIDE DEF D, L, K, N
  <2>6. InAccount(K, a) = InAccount(D, a) + InAccount(L, a)
    BY <1>5, <2>2, <2>3, <2>5, AccountSums
  <2>7. InAccount(D, a) \in Int /\ InAccount(D, a) >= 0 /\ InAccount(L, a) \in Int /\ InAccount(L, a) >= 0
    BY <2>2, <2>3, <2>4, AccountInt DEF NotNegative
  <2> QED
    BY <1>7, <2>6, <2>7
<1> QED
  BY <1>7, <1>8, <1>9

\* A request at work that posts a closing has it, with the number it counted.
LEMMA WaitingIs ==
    ASSUME NEW R \in [Accountants -> AtWorkOnYears], NEW k \in Accountants, R[k] # <<>>
    PROVE  /\ R[k][1] = "close" => R[k][2] \in ClosingRecords /\ R[k][3] \in Nat
           /\ R[k][1] = "year" => R[k][2] \in Nat
<1>1. R[k] \in AtWorkOnYears
  OBVIOUS
<1>2. R[k] \in {"year"} \X Nat \/ R[k] \in {"close"} \X ClosingRecords \X Nat
  BY <1>1 DEF AtWorkOnYears
<1>3. CASE R[k] \in {"year"} \X Nat
  BY <1>3
<1>4. CASE R[k] \in {"close"} \X ClosingRecords \X Nat
  BY <1>4
<1> QED
  BY <1>2, <1>3, <1>4

\* Closings that keep their years and lines, others perhaps with them, leave what q transferred exact.
LEMMA ExactKept ==
    ASSUME NEW Q \in Seq(ClosingRecords), NEW P, DOMAIN Q \subseteq DOMAIN P,
           \A i \in DOMAIN Q : P[i].year = Q[i].year /\ P[i].lines = Q[i].lines,
           NEW q \in ClosingRecords, Exact(q, Q)
    PROVE  Exact(q, P)
<1>1. q.standing \subseteq OfYear(Q, q.year) /\ q.standing \subseteq DOMAIN Q
  BY DEF Exact, OfYear
<1>2. \A c \in Cells : LinesOver(P, q.standing, c) = LinesOver(Q, q.standing, c)
  BY <1>1, LinesSame
<1>3. NetRead(q, P) = NetRead(q, Q)
  BY <1>2 DEF NetRead
<1>4. OfYear(Q, q.year) \subseteq OfYear(P, q.year)
  BY DEF OfYear
<1> QED
  BY <1>1, <1>3, <1>4 DEF Exact

\* Only what a closing was computed from and took matters for it.
LEMMA ExactOf ==
    ASSUME NEW q, NEW p, NEW Q, Exact(q, Q), p.year = q.year, p.lines = q.lines,
           p.byDimension = q.byDimension, p.read = q.read, p.standing = q.standing
    PROVE  Exact(p, Q)
<1>1. NetRead(p, Q) = NetRead(q, Q)
  BY DEF NetRead
<1> QED
  BY <1>1 DEF Exact

\* What the model calls the net change is the table of what is left.
LEMMA NetChangeIs ==
    ASSUME YearTypes, NEW y \in Ys
    PROVE  /\ \A c \in Cells : NetChange(y, c) = NetNow(ordinary, closings, y)[c]
           /\ \A a \in ResultAccounts : NetOfAccount(y, a) = InAccount(NetNow(ordinary, closings, y), a)
           /\ Standing(y) = StandingIn(closings, y) /\ ClosingsOf(y) = OfYear(closings, y)
           /\ NetNow(ordinary, closings, y) \in Numbers
<1>1. Standing(y) = StandingIn(closings, y) /\ ClosingsOf(y) = OfYear(closings, y)
  BY DEF Standing, ClosingsOf, StandingIn, OfYear
<1>2. \A w, c : ClosedBy(w, c) = LinesOver(closings, w, c)
  <2>1. ASSUME NEW w, NEW c PROVE ClosedBy(w, c) = LinesOver(closings, w, c)
    <3> DEFINE f == [i \in w |-> closings[i].lines[c]]
    <3>1. SumFunction(f) = SumOver(f, DOMAIN f) /\ DOMAIN f = w
      BY SumOfFunction
    <3> QED
      BY <3>1 DEF ClosedBy, LinesOver
  <2> QED
    BY <2>1
<1>3. \A c \in Cells : NetChange(y, c) = NetNow(ordinary, closings, y)[c]
  BY <1>1, <1>2 DEF NetChange, NetNow
<1>4. ASSUME NEW a \in ResultAccounts
      PROVE  NetOfAccount(y, a) = InAccount(NetNow(ordinary, closings, y), a)
  <2> DEFINE f == [d \in DimValues |-> NetChange(y, <<a, d>>)]
             g == [d \in DimValues |-> NetNow(ordinary, closings, y)[<<a, d>>]]
  <2>1. \A d \in DimValues : <<a, d>> \in Cells
    BY DEF Cells
  <2>2. f = g
    BY <1>3, <2>1
  <2>3. SumFunction(f) = SumOver(f, DOMAIN f) /\ DOMAIN f = DimValues
    BY SumOfFunction
  <2> QED
    BY <2>2, <2>3 DEF NetOfAccount, InAccount
<1>5. NetNow(ordinary, closings, y) \in Numbers
  <2>1. StandingIn(closings, y) \in SUBSET DOMAIN closings /\ ordinary[y] \in [Cells -> Nat]
    BY ClosingsFinite DEF YearTypes
  <2>2. closings \in Seq(ClosingRecords) /\ \A c \in Cells : ordinary[y][c] \in Int
    BY <2>1 DEF YearTypes
  <2>3. \A c \in Cells : LinesOver(closings, StandingIn(closings, y), c) \in Int
    BY <2>1, <2>2, LinesInt
  <2> QED
    BY <2>2, <2>3 DEF NetNow, Numbers
<1> QED
  BY <1>1, <1>3, <1>4, <1>5

\* What is posted and not closed is never below zero while no closing missed another.
LEMMA NoAccountBelow ==
    ASSUME YearInv, closeMarks = {}, NEW y \in Ys
    PROVE  NotNegative(NetNow(ordinary, closings, y))
<1>1. CASE OfYear(closings, y) = {}
  <2>1. StandingIn(closings, y) = {}
    BY <1>1 DEF OfYear, StandingIn
  <2>2. \A c \in Cells : NetNow(ordinary, closings, y)[c] = ordinary[y][c] - 0
    BY <2>1, LinesOfNone DEF NetNow
  <2>3. \A c \in Cells : ordinary[y][c] \in Nat
    BY DEF YearInv, YearTypes
  <2>4. NetNow(ordinary, closings, y) \in Numbers
    BY NetChangeIs DEF YearInv
  <2> QED
    BY <2>2, <2>3, <2>4, AccountNotNegative
<1>2. CASE OfYear(closings, y) # {}
  <2>0. closings \in Seq(ClosingRecords) /\ ordinary \in [Ys -> [Cells -> Nat]]
    BY DEF YearInv, YearTypes
  <2>1. OfYear(closings, y) \subseteq Nat /\ IsFiniteSet(OfYear(closings, y))
    BY <2>0, ClosingsFinite, YearFinite
  <2>2. PICK k \in OfYear(closings, y) : \A j \in OfYear(closings, y) : j <= k
    BY <1>2, <2>1, HasGreatest
  <2>3. k \in DOMAIN closings /\ closings[k].year = y
    BY DEF OfYear
  <2>4. LastOf(closings, k)
    BY <2>2, <2>3 DEF LastOf
  <2>5. NothingMissed(closings) /\ \A i \in DOMAIN closings : NotNegative(closings[i].lines)
    BY DEF YearInv, NoneBelow
  <2>6. PostedSoundly(closings, ordinary)
    BY DEF YearInv
  <2>7. NotNegative(NetNow(ordinary, closings, closings[k].year))
    BY <2>0, <2>3, <2>4, <2>5, <2>6, AfterTheLast
  <2> QED
    BY <2>3, <2>7
<1> QED
  BY <1>1, <1>2

LEMMA YearInitInv == YearInit => YearInv
<1> SUFFICES ASSUME YearInit PROVE YearInv
  OBVIOUS
<1>1. YearTypes
  BY YearAssumption DEF YearInit, YearTypes, Ys, AtWorkOnYears
<1>2. InOrder
  <2>1. 0 \in Nat /\ 0 <= years /\ fiscallyClosed = 1 .. 0
    BY DEF YearInit
  <2>2. \A k \in Accountants : ~Busy(k, "year")
    BY DEF YearInit, Busy
  <2> QED
    BY <2>1, <2>2 DEF InOrder
<1>3. DOMAIN closings = {} /\ \A k \in Accountants : accountant[k] = <<>>
  BY DEF YearInit
<1>4. PostedSoundly(closings, ordinary)
  BY <1>3 DEF PostedSoundly
<1>5. WaitingSoundly(accountant, closings, ordinary)
  BY <1>3 DEF WaitingSoundly
<1>6. NothingMissed(closings) /\ NoneBelow(accountant, closings)
  BY <1>3 DEF NothingMissed, NoneBelow
<1>7. SumOver(retained, DimValues) = SumOver([y \in Ys |-> Given(closings, y)], Ys)
  <2>1. \A d \in DimValues : retained[d] = 0
    BY DEF YearInit
  <2>2. \A y \in Ys : Given(closings, y) = 0
    <3>1. ASSUME NEW y \in Ys PROVE Given(closings, y) = 0
      <4> DEFINE t == [c \in Cells |-> LinesOver(closings, StandingIn(closings, y), c)]
      <4>1. StandingIn(closings, y) = {}
        BY <1>3 DEF StandingIn
      <4>2. \A c \in Cells : t[c] = 0
        BY <4>1, LinesOfNone
      <4>3. SumOver(t, Cells) = 0
        <5> HIDE DEF t
        <5> QED
          BY <4>2, YearFinite, SumOfZeros
      <4> QED
        BY <4>3 DEF Given, InCells
    <3> QED
      BY <3>1
  <2> DEFINE g == [y \in Ys |-> Given(closings, y)]
  <2>3. \A y \in Ys : g[y] = 0
    BY <2>2
  <2> HIDE DEF g
  <2>4. SumOver(g, Ys) = 0 /\ SumOver(retained, DimValues) = 0
    BY <2>1, <2>3, YearFinite, SumOfZeros
  <2> QED
    BY <2>4 DEF g
<1> QED
  BY <1>1, <1>2, <1>4, <1>5, <1>6, <1>7 DEF YearInv

\* What follows for the requests and the order of years while a request does something else.
LEMMA OthersWait ==
    ASSUME YearTypes, NEW k \in Accountants, NEW v \in AtWorkOnYears,
           accountant' = [accountant EXCEPT ![k] = v]
    PROVE  /\ accountant' \in [Accountants -> AtWorkOnYears] /\ accountant'[k] = v
           /\ \A j \in Accountants : j # k => accountant'[j] = accountant[j]
BY DEF YearTypes

\* A posting into a year.
LEMMA PostIntoKeeps ==
    ASSUME YearInv, NEW y \in Ys, NEW c \in Cells, PostInto(y, c)
    PROVE  YearInv'
<1>1. /\ years' = years /\ fiscallyClosed' = fiscallyClosed /\ closings' = closings
      /\ retained' = retained /\ accountant' = accountant /\ closeMarks' = closeMarks
      /\ ordinary' = [ordinary EXCEPT ![y][c] = @ + 1]
  BY DEF PostInto
<1>2. ordinary \in [Ys -> [Cells -> Nat]]
  BY DEF YearInv, YearTypes
<1>3. /\ ordinary' \in [Ys -> [Cells -> Nat]]
      /\ \A z \in Ys : \A e \in Cells : ordinary[z][e] <= ordinary'[z][e]
  BY <1>1, <1>2
<1>4. YearTypes'
  BY <1>1, <1>3 DEF YearInv, YearTypes
<1>5. InOrder'
  BY <1>1 DEF YearInv, InOrder, Busy
<1>6. ASSUME NEW q \in ClosingRecords, ReadBefore(q, ordinary) PROVE ReadBefore(q, ordinary')
  <2>1. q.year \in Ys /\ \A e \in Cells : q.read[e] \in Int
    BY ClosingFields
  <2>2. \A e \in Cells : ordinary[q.year][e] \in Int /\ ordinary'[q.year][e] \in Int
    BY <1>2, <1>3, <2>1
  <2> QED
    BY <1>3, <1>6, <2>1, <2>2 DEF ReadBefore
<1>7. PostedSoundly(closings, ordinary')
  <2>1. \A i \in DOMAIN closings : closings[i] \in ClosingRecords
    BY YearFinite DEF YearInv, YearTypes
  <2> QED
    BY <1>6, <2>1 DEF YearInv, PostedSoundly
<1>8. WaitingSoundly(accountant, closings, ordinary')
  <2>1. \A j \in Accountants : accountant[j] # <<>> /\ accountant[j][1] = "close" => accountant[j][2] \in ClosingRecords
    BY WaitingIs DEF YearInv, YearTypes
  <2> QED
    BY <1>6, <2>1 DEF YearInv, WaitingSoundly
<1> QED
  BY <1>1, <1>4, <1>5, <1>7, <1>8 DEF YearInv

\* The next fiscal year is created.
LEMMA CreateKeeps ==
    ASSUME YearInv, CreateFiscalYear
    PROVE  YearInv'
<1>1. /\ years' = years + 1 /\ years < MaxYears /\ fiscallyClosed' = fiscallyClosed /\ closings' = closings
      /\ retained' = retained /\ accountant' = accountant /\ closeMarks' = closeMarks
      /\ ordinary' = ordinary
  BY DEF CreateFiscalYear
<1>2. years \in Nat /\ years >= 1 /\ MaxYears \in Nat
  BY YearAssumption DEF YearInv, YearTypes, Ys
<1>3. YearTypes'
  BY <1>1, <1>2 DEF YearInv, YearTypes, Ys
<1>4. InOrder'
  <2>1. PICK n \in Nat :
          /\ n <= years /\ fiscallyClosed = 1 .. n
          /\ \A k \in Accountants : Busy(k, "year") => accountant[k][2] \in 1 .. (n + 1) /\ accountant[k][2] <= years
    BY DEF YearInv, InOrder
  <2>2. n <= years'
    BY <1>1, <1>2, <2>1
  <2>3. ASSUME NEW k \in Accountants, Busy(k, "year")'
        PROVE  accountant'[k][2] \in 1 .. (n + 1) /\ accountant'[k][2] <= years'
    <3>1. Busy(k, "year")
      BY <1>1, <2>3 DEF Busy
    <3>2. accountant[k][2] \in 1 .. (n + 1) /\ accountant[k][2] <= years
      BY <2>1, <3>1
    <3> QED
      BY <1>1, <1>2, <3>2
  <2> QED
    BY <1>1, <2>1, <2>2, <2>3 DEF InOrder
<1> QED
  BY <1>1, <1>3, <1>4 DEF YearInv

\* The least of what is open when the first n are closed.
LEMMA LeastOpen ==
    ASSUME NEW n \in Nat, NEW m \in Nat, (1 .. m) \ (1 .. n) # {}
    PROVE  Min((1 .. m) \ (1 .. n)) = n + 1
<1> DEFINE S == (1 .. m) \ (1 .. n)
<1>1. n + 1 \in S /\ \A x \in S : n + 1 <= x
  OBVIOUS
<1>2. \A x \in S : x \in Nat
  OBVIOUS
<1> HIDE DEF S
<1>3. \A x \in S : (\A y \in S : x <= y) => x = n + 1
  <2> SUFFICES ASSUME NEW x \in S, \A y \in S : x <= y PROVE x = n + 1
    OBVIOUS
  <2>1. x <= n + 1 /\ n + 1 <= x /\ x \in Nat
    BY <1>1, <1>2
  <2> QED
    BY <2>1
<1>4. Min(S) \in S /\ \A y \in S : Min(S) <= y
  BY <1>1 DEF Min
<1> QED
  BY <1>3, <1>4 DEF S

\* The earliest open year is asked for.
LEMMA AskKeeps ==
    ASSUME YearInv, NEW k \in Accountants, AskCloseYear(k)
    PROVE  YearInv'
<1> DEFINE m == Min((1 .. years) \ fiscallyClosed)
<1>1. /\ years' = years /\ fiscallyClosed' = fiscallyClosed /\ closings' = closings
      /\ retained' = retained /\ closeMarks' = closeMarks /\ ordinary' = ordinary
      /\ accountant' = [accountant EXCEPT ![k] = <<"year", m>>]
      /\ m < years /\ (1 .. years) \ fiscallyClosed # {}
  BY DEF AskCloseYear
<1>2. years \in Nat /\ years >= 1
  BY DEF YearInv, YearTypes, Ys
<1>3. PICK n \in Nat :
        /\ n <= years /\ fiscallyClosed = 1 .. n
        /\ \A j \in Accountants : Busy(j, "year") => accountant[j][2] \in 1 .. (n + 1) /\ accountant[j][2] <= years
  BY DEF YearInv, InOrder
<1>4. m = n + 1
  BY <1>1, <1>2, <1>3, LeastOpen
<1> HIDE DEF m
<1>5. <<"year", m>> \in AtWorkOnYears
  BY <1>4 DEF AtWorkOnYears
<1>6. /\ accountant' \in [Accountants -> AtWorkOnYears] /\ accountant'[k] = <<"year", m>>
      /\ \A j \in Accountants : j # k => accountant'[j] = accountant[j]
  BY <1>1, <1>5, OthersWait DEF YearInv
<1>7. YearTypes'
  BY <1>1, <1>6 DEF YearInv, YearTypes
<1>8. InOrder'
  <2>1. ASSUME NEW j \in Accountants, Busy(j, "year")'
        PROVE  accountant'[j][2] \in 1 .. (n + 1) /\ accountant'[j][2] <= years'
    <3>1. CASE j = k
      BY <1>1, <1>2, <1>4, <1>6, <3>1
    <3>2. CASE j # k
      <4>1. Busy(j, "year") /\ accountant'[j] = accountant[j]
        BY <1>6, <2>1, <3>2 DEF Busy
      <4> QED
        BY <1>1, <1>3, <4>1
    <3> QED
      BY <3>1, <3>2
  <2> QED
    BY <1>1, <1>3, <2>1 DEF InOrder
<1>9. \A j \in Accountants : accountant'[j] # <<>> /\ accountant'[j][1] = "close" => accountant'[j] = accountant[j]
  BY <1>6
<1>10. WaitingSoundly(accountant', closings, ordinary)
  BY <1>9 DEF YearInv, WaitingSoundly
<1>11. NoneBelow(accountant, closings) => NoneBelow(accountant', closings)
  BY <1>9 DEF NoneBelow
<1> QED
  BY <1>1, <1>7, <1>8, <1>10, <1>11 DEF YearInv

\* The year asked for is closed.
LEMMA CloseYearKeeps ==
    ASSUME YearInv, NEW k \in Accountants, CloseFiscalYear(k)
    PROVE  YearInv'
<1> DEFINE m == accountant[k][2]
<1>1. /\ years' = years /\ fiscallyClosed' = fiscallyClosed \cup {m} /\ closings' = closings
      /\ retained' = retained /\ closeMarks' = closeMarks /\ ordinary' = ordinary
      /\ accountant' = [accountant EXCEPT ![k] = <<>>] /\ Busy(k, "year")
  BY DEF CloseFiscalYear
<1>2. years \in Nat
  BY DEF YearInv, YearTypes, Ys
<1>3. PICK n \in Nat :
        /\ n <= years /\ fiscallyClosed = 1 .. n
        /\ \A j \in Accountants : Busy(j, "year") => accountant[j][2] \in 1 .. (n + 1) /\ accountant[j][2] <= years
  BY DEF YearInv, InOrder
<1>4. m \in 1 .. (n + 1) /\ m <= years
  BY <1>1, <1>3
<1> HIDE DEF m
<1>5. PICK x \in Nat : x >= n /\ x <= years /\ fiscallyClosed' = 1 .. x
  <2>1. CASE m = n + 1
    <3>1. (1 .. n) \cup {n + 1} = 1 .. (n + 1)
      OBVIOUS
    <3> QED
      BY <1>1, <1>3, <1>4, <2>1, <3>1
  <2>2. CASE m # n + 1
    <3>1. (1 .. n) \cup {m} = 1 .. n
      BY <1>4, <2>2
    <3> QED
      BY <1>1, <1>3, <3>1
  <2> QED
    BY <2>1, <2>2
<1>6. <<>> \in AtWorkOnYears
  BY DEF AtWorkOnYears
<1>7. /\ accountant' \in [Accountants -> AtWorkOnYears] /\ accountant'[k] = <<>>
      /\ \A j \in Accountants : j # k => accountant'[j] = accountant[j]
  BY <1>1, <1>6, OthersWait DEF YearInv
<1>8. YearTypes'
  BY <1>1, <1>7 DEF YearInv, YearTypes
<1>9. InOrder'
  <2>1. ASSUME NEW j \in Accountants, Busy(j, "year")'
        PROVE  accountant'[j][2] \in 1 .. (x + 1) /\ accountant'[j][2] <= years'
    <3>1. j # k
      BY <1>7, <2>1 DEF Busy
    <3>2. Busy(j, "year") /\ accountant'[j] = accountant[j]
      BY <1>7, <2>1, <3>1 DEF Busy
    <3>3. accountant[j][2] \in 1 .. (n + 1) /\ accountant[j][2] <= years
      BY <1>3, <3>2
    <3> QED
      BY <1>1, <1>5, <3>2, <3>3
  <2> QED
    BY <1>1, <1>5, <2>1 DEF InOrder
<1>10. \A j \in Accountants : accountant'[j] # <<>> => accountant'[j] = accountant[j]
  BY <1>7
<1>11. WaitingSoundly(accountant', closings, ordinary)
  BY <1>10 DEF YearInv, WaitingSoundly
<1>12. NoneBelow(accountant, closings) => NoneBelow(accountant', closings)
  BY <1>10 DEF NoneBelow
<1> QED
  BY <1>1, <1>8, <1>9, <1>11, <1>12 DEF YearInv

\* The rows to close are what is left, by dimension value or in total.
LEMMA RowsAre ==
    ASSUME YearTypes, NEW y \in Ys, NEW b \in BOOLEAN
    PROVE  /\ RowsToClose(y, b) \in Numbers
           /\ b => RowsToClose(y, b) = NetNow(ordinary, closings, y)
           /\ \A a \in ResultAccounts :
                 InAccount(RowsToClose(y, b), a) = InAccount(NetNow(ordinary, closings, y), a)
<1> DEFINE N == NetNow(ordinary, closings, y)
           T == RowsToClose(y, b)
<1>1. N \in Numbers /\ \A c \in Cells : NetChange(y, c) = N[c]
  BY NetChangeIs
<1>2. \A a \in ResultAccounts : NetOfAccount(y, a) = InAccount(N, a) /\ InAccount(N, a) \in Int
  <2>1. \A a \in ResultAccounts : NetOfAccount(y, a) = InAccount(N, a)
    BY NetChangeIs
  <2> HIDE DEF N
  <2> QED
    BY <1>1, <2>1, AccountInt
<1>3. CASE b
  <2>1. T = [c \in Cells |-> NetChange(y, c)]
    BY <1>3 DEF RowsToClose
  <2>2. N = [c \in Cells |-> N[c]]
    BY DEF NetNow
  <2>3. T = N
    <3> HIDE DEF T, N
    <3> QED
      BY <1>1, <2>1, <2>2
  <2> HIDE DEF T, N
  <2> QED
    BY <1>1, <2>3 DEF T, N
<1>4. CASE ~b
  <2>1. T = [c \in Cells |-> IF c[2] = "none" THEN NetOfAccount(y, c[1]) ELSE 0]
    BY <1>4 DEF RowsToClose
  <2>2. \A c \in Cells : c[1] \in ResultAccounts
    BY DEF Cells
  <2>3. \A c \in Cells : (IF c[2] = "none" THEN NetOfAccount(y, c[1]) ELSE 0) \in Int
    BY <1>2, <2>2
  <2>4. T \in Numbers
    <3> HIDE DEF T
    <3> QED
      BY <2>1, <2>3 DEF Numbers
  <2>5. ASSUME NEW a \in ResultAccounts PROVE InAccount(T, a) = InAccount(N, a)
    <3> DEFINE f == [d \in DimValues |-> T[<<a, d>>]]
    <3>1. \A d \in DimValues : <<a, d>> \in Cells
      BY DEF Cells
    <3>2. ASSUME NEW d \in DimValues
          PROVE  f[d] = IF d = "none" THEN NetOfAccount(y, a) ELSE 0
      <4>1. f[d] = T[<<a, d>>]
        OBVIOUS
      <4>2. T[<<a, d>>] = IF <<a, d>>[2] = "none" THEN NetOfAccount(y, <<a, d>>[1]) ELSE 0
        <5> HIDE DEF T
        <5> QED
          BY <2>1, <3>1
      <4> QED
        BY <4>1, <4>2
    <3>3. InAccount(T, a) = SumOver(f, DimValues)
      BY DEF InAccount
    <3>4. "none" \in DimValues
      BY YearAssumption
    <3>5. PICK v \in Int : v = NetOfAccount(y, a) /\ v = InAccount(N, a)
      BY <1>2
    <3> HIDE DEF f, T, N
    <3>6. (\A d \in DimValues : f[d] \in Int) /\ f["none"] = v /\ \A d \in DimValues \ {"none"} : f[d] = 0
      BY <3>2, <3>4, <3>5
    <3>7. {"none"} \in SUBSET DimValues
      BY <3>4
    <3>8. SumOver(f, DimValues) = SumOver(f, {"none"})
      BY <3>6, <3>7, YearFinite, SumOfPart
    <3>9. SumOver(f, {"none"}) = f["none"]
      BY <3>4, <3>6, SumOfOne
    <3> QED
      BY <3>3, <3>5, <3>6, <3>8, <3>9
  <2> HIDE DEF T, N
  <2> QED
    BY <1>4, <2>4, <2>5 DEF T, N
<1> QED
  BY <1>3, <1>4

\* A closing is computed.
LEMMA ReadNetKeeps ==
    ASSUME YearInv, NEW k \in Accountants, NEW y \in Ys, NEW b \in BOOLEAN, ReadNetChanges(k, y, b)
    PROVE  YearInv'
<1> DEFINE q == [year |-> y, lines |-> RowsToClose(y, b), reversed |-> FALSE, byDimension |-> b,
                 read |-> ordinary[y], standing |-> Standing(y)]
           n == Cardinality(ClosingsOf(y))
<1>1. /\ years' = years /\ fiscallyClosed' = fiscallyClosed /\ closings' = closings
      /\ retained' = retained /\ closeMarks' = closeMarks /\ ordinary' = ordinary
      /\ accountant' = [accountant EXCEPT ![k] = <<"close", q, n>>]
  BY DEF ReadNetChanges
<1>2. YearTypes /\ closings \in Seq(ClosingRecords)
  BY DEF YearInv, YearTypes
<1>3. Standing(y) = StandingIn(closings, y) /\ ClosingsOf(y) = OfYear(closings, y)
  BY <1>2, NetChangeIs
<1>4. /\ StandingIn(closings, y) \in SUBSET OfYear(closings, y) /\ OfYear(closings, y) \in SUBSET Nat
      /\ Cardinality(OfYear(closings, y)) \in Nat
  BY <1>2, ClosingsFinite, YearFinite
<1>5. ordinary[y] \in [Cells -> Nat]
  BY <1>2 DEF YearTypes
<1>6. RowsToClose(y, b) \in Numbers
  BY <1>2, RowsAre
<1>7. q \in ClosingRecords
  BY <1>3, <1>4, <1>5, <1>6 DEF ClosingRecords
<1>8. /\ q.year = y /\ q.lines = RowsToClose(y, b) /\ ~q.reversed /\ q.byDimension = b
      /\ q.read = ordinary[y] /\ q.standing = StandingIn(closings, y)
  BY <1>3
<1>9. n \in Nat /\ n = Cardinality(OfYear(closings, y))
  BY <1>3, <1>4
<1> HIDE DEF q, n
<1>10. NetRead(q, closings) = NetNow(ordinary, closings, y)
  BY <1>8 DEF NetRead, NetNow
<1>11. Exact(q, closings)
  <2>1. q.byDimension => q.lines = NetRead(q, closings)
    BY <1>2, <1>8, <1>10, RowsAre
  <2>2. \A a \in ResultAccounts : InAccount(q.lines, a) = InAccount(NetRead(q, closings), a)
    BY <1>2, <1>8, <1>10, RowsAre
  <2> QED
    BY <1>4, <1>8, <2>1, <2>2 DEF Exact
<1>12. ReadBefore(q, ordinary)
  BY <1>5, <1>8 DEF ReadBefore
<1>13. Ready(q, n, closings)
  BY <1>8, <1>9 DEF Ready
<1>14. <<"close", q, n>> \in AtWorkOnYears
  BY <1>7, <1>9 DEF AtWorkOnYears
<1>15. /\ accountant' \in [Accountants -> AtWorkOnYears] /\ accountant'[k] = <<"close", q, n>>
       /\ \A j \in Accountants : j # k => accountant'[j] = accountant[j]
  BY <1>1, <1>2, <1>14, OthersWait
<1>16. YearTypes'
  BY <1>1, <1>2, <1>15 DEF YearTypes
<1>17. InOrder'
  <2>1. PICK x \in Nat :
          /\ x <= years /\ fiscallyClosed = 1 .. x
          /\ \A j \in Accountants : Busy(j, "year") => accountant[j][2] \in 1 .. (x + 1) /\ accountant[j][2] <= years
    BY DEF YearInv, InOrder
  <2>2. ASSUME NEW j \in Accountants, Busy(j, "year")'
        PROVE  Busy(j, "year") /\ accountant'[j] = accountant[j]
    BY <1>15, <2>2 DEF Busy
  <2> QED
    BY <1>1, <2>1, <2>2 DEF InOrder
<1>18. WaitingSoundly(accountant', closings, ordinary)
  <2>1. ASSUME NEW j \in Accountants, accountant'[j] # <<>>, accountant'[j][1] = "close"
        PROVE  /\ Exact(accountant'[j][2], closings) /\ ReadBefore(accountant'[j][2], ordinary)
               /\ Ready(accountant'[j][2], accountant'[j][3], closings)
    <3>1. CASE j = k
      BY <1>11, <1>12, <1>13, <1>15, <3>1
    <3>2. CASE j # k
      BY <1>15, <2>1, <3>2 DEF YearInv, WaitingSoundly
    <3> QED
      BY <3>1, <3>2
  <2> QED
    BY <2>1 DEF WaitingSoundly
<1>19. ASSUME closeMarks = {} PROVE NoneBelow(accountant', closings)
  <2>1. NotNegative(q.lines)
    <3>1. NotNegative(NetNow(ordinary, closings, y))
      BY <1>19, NoAccountBelow
    <3> QED
      BY <1>2, <1>8, <3>1, RowsAre DEF NotNegative
  <2>2. NoneBelow(accountant, closings)
    BY <1>19 DEF YearInv
  <2>3. ASSUME NEW j \in Accountants, accountant'[j] # <<>>, accountant'[j][1] = "close"
        PROVE  NotNegative(accountant'[j][2].lines)
    <3>1. CASE j = k
      BY <1>15, <2>1, <3>1
    <3>2. CASE j # k
      BY <1>15, <2>2, <2>3, <3>2 DEF NoneBelow
    <3> QED
      BY <3>1, <3>2
  <2> QED
    BY <2>2, <2>3 DEF NoneBelow
<1> QED
  BY <1>1, <1>16, <1>17, <1>18, <1>19 DEF YearInv

\* What the closings of a year took in all is a number.
LEMMA GivenInt ==
    ASSUME NEW Q \in Seq(ClosingRecords), NEW y
    PROVE  Given(Q, y) \in Int
<1> DEFINE t == [c \in Cells |-> LinesOver(Q, StandingIn(Q, y), c)]
<1>1. StandingIn(Q, y) \in SUBSET DOMAIN Q
  BY ClosingsFinite
<1>2. \A c \in Cells : t[c] \in Int
  BY <1>1, LinesInt
<1> HIDE DEF t
<1>3. SumOver(t, Cells) \in Int
  BY <1>2, YearFinite, SumIsInt
<1> QED
  BY <1>3 DEF Given, InCells, t

\* The same closings stand, with the same lines.
LEMMA GivenSame ==
    ASSUME NEW Q, NEW P, NEW y, StandingIn(P, y) = StandingIn(Q, y),
           \A i \in StandingIn(Q, y) : P[i].lines = Q[i].lines
    PROVE  Given(P, y) = Given(Q, y)
<1>1. \A c \in Cells : LinesOver(P, StandingIn(P, y), c) = LinesOver(Q, StandingIn(Q, y), c)
  BY LinesSame
<1>2. [c \in Cells |-> LinesOver(P, StandingIn(P, y), c)] = [c \in Cells |-> LinesOver(Q, StandingIn(Q, y), c)]
  BY <1>1
<1> QED
  BY <1>2 DEF Given

\* One closing more stands.
LEMMA GivenMore ==
    ASSUME NEW Q \in Seq(ClosingRecords), NEW P \in Seq(ClosingRecords), NEW y, NEW i \in DOMAIN P,
           StandingIn(P, y) = StandingIn(Q, y) \cup {i}, i \notin StandingIn(Q, y),
           \A j \in StandingIn(Q, y) : j \in DOMAIN P /\ P[j].lines = Q[j].lines
    PROVE  Given(P, y) = Given(Q, y) + InCells(P[i].lines)
<1> DEFINE S == StandingIn(Q, y)
           f == [c \in Cells |-> LinesOver(Q, S, c)]
           h == [c \in Cells |-> LinesOver(P, StandingIn(P, y), c)]
           g == P[i].lines
<1>1. S \in SUBSET DOMAIN Q /\ S \in SUBSET DOMAIN P /\ {i} \in SUBSET DOMAIN P
  BY ClosingsFinite
<1>2. g \in Numbers
  <2>1. P[i] \in ClosingRecords
    BY YearFinite
  <2> QED
    BY <2>1, ClosingFields
<1>3. ASSUME NEW c \in Cells PROVE h[c] = f[c] + g[c] /\ f[c] \in Int /\ g[c] \in Int
  <2>1. LinesOver(P, S \cup {i}, c) = LinesOver(P, S, c) + LinesOver(P, {i}, c)
    <3>1. S \cap {i} = {}
      OBVIOUS
    <3> HIDE DEF S
    <3> QED
      BY <1>1, <3>1, LinesOfUnion
  <2>2. LinesOver(P, {i}, c) = g[c]
    BY LinesOfOne
  <2>3. LinesOver(P, S, c) = LinesOver(Q, S, c)
    BY LinesSame
  <2>4. LinesOver(Q, S, c) \in Int
    BY <1>1, LinesInt
  <2>5. g[c] \in Int
    <3> HIDE DEF g
    <3> QED
      BY <1>2 DEF Numbers
  <2>6. h[c] = LinesOver(P, S \cup {i}, c) /\ f[c] = LinesOver(Q, S, c)
    OBVIOUS
  <2> HIDE DEF S, f, h, g
  <2> QED
    BY <2>1, <2>2, <2>3, <2>4, <2>5, <2>6
<1>4. Given(P, y) = SumOver(h, Cells) /\ Given(Q, y) = SumOver(f, Cells) /\ InCells(g) = SumOver(g, Cells)
  BY DEF Given, InCells
<1> HIDE DEF S, f, h, g
<1>5. \A c \in Cells : f[c] \in Int /\ g[c] \in Int /\ h[c] = f[c] + g[c]
  BY <1>3
<1>6. SumOver(h, Cells) = SumOver(f, Cells) + SumOver(g, Cells)
  BY <1>5, YearFinite, SumOfSums
<1> QED
  BY <1>4, <1>6 DEF g

\* In all the years the same closings stand but for one more.
LEMMA GivenInAll ==
    ASSUME NEW Q \in Seq(ClosingRecords), NEW P \in Seq(ClosingRecords), NEW y \in Ys, NEW i \in DOMAIN P,
           StandingIn(P, y) = StandingIn(Q, y) \cup {i}, i \notin StandingIn(Q, y),
           \A z \in Ys : z # y => StandingIn(P, z) = StandingIn(Q, z),
           \A z \in Ys : \A j \in StandingIn(Q, z) : j \in DOMAIN P /\ P[j].lines = Q[j].lines
    PROVE  SumOver([z \in Ys |-> Given(P, z)], Ys)
             = SumOver([z \in Ys |-> Given(Q, z)], Ys) + InCells(P[i].lines)
<1> DEFINE f == [z \in Ys |-> Given(Q, z)]
           g == [z \in Ys |-> Given(P, z)]
<1>1. \A z \in Ys : f[z] \in Int /\ g[z] \in Int
  BY GivenInt
<1>2. \A z \in Ys \ {y} : f[z] = g[z]
  <2>1. ASSUME NEW z \in Ys, z # y PROVE Given(P, z) = Given(Q, z)
    BY <2>1, GivenSame
  <2> QED
    BY <2>1
<1>3. g[y] = f[y] + InCells(P[i].lines)
  <2>1. \A j \in StandingIn(Q, y) : j \in DOMAIN P /\ P[j].lines = Q[j].lines
    OBVIOUS
  <2>2. Given(P, y) = Given(Q, y) + InCells(P[i].lines)
    BY <2>1, GivenMore
  <2> QED
    BY <2>2
<1>4. InCells(P[i].lines) \in Int
  <2>1. P[i] \in ClosingRecords
    BY YearFinite
  <2>2. P[i].lines \in Numbers
    BY <2>1, ClosingFields
  <2> QED
    BY <2>2, SentInAll
<1> HIDE DEF f, g
<1>5. SumOver(g, Ys) = SumOver(f, Ys) + (g[y] - f[y])
  BY <1>1, <1>2, YearFinite, SumChanged
<1>6. SumOver(f, Ys) \in Int
  BY <1>1, YearFinite, SumIsInt
<1> QED
  BY <1>1, <1>3, <1>4, <1>5, <1>6 DEF f, g

\* Retained earnings with the lines of a closing.
LEMMA RetainedMore ==
    ASSUME NEW R \in [DimValues -> Int], NEW V \in [DimValues -> Int], NEW t \in Numbers,
           \A d \in DimValues : V[d] = R[d] + RetainedLine(t, d)
    PROVE  SumOver(V, DimValues) = SumOver(R, DimValues) + InCells(t)
<1> DEFINE g == [d \in DimValues |-> RetainedLine(t, d)]
<1>1. \A d \in DimValues : g[d] \in Int /\ g[d] = RetainedLine(t, d)
  BY SentInAll
<1>2. SumOver(g, DimValues) = InCells(t)
  BY SentInAll
<1> HIDE DEF g
<1>3. \A d \in DimValues : R[d] \in Int /\ g[d] \in Int /\ V[d] = R[d] + g[d]
  BY <1>1
<1>4. SumOver(V, DimValues) = SumOver(R, DimValues) + SumOver(g, DimValues)
  BY <1>3, YearFinite, SumOfSums
<1> QED
  BY <1>2, <1>4

\* A closing is posted.
LEMMA PostClosingKeeps ==
    ASSUME YearInv, NEW k \in Accountants, PostClosing(k)
    PROVE  YearInv'
<1> DEFINE L == Len(closings)
<1>1. /\ YearTypes /\ closings \in Seq(ClosingRecords) /\ accountant \in [Accountants -> AtWorkOnYears]
      /\ retained \in [DimValues -> Int] /\ PostedSoundly(closings, ordinary)
      /\ WaitingSoundly(accountant, closings, ordinary)
  BY DEF YearInv, YearTypes
<1>2. accountant[k] # <<>> /\ accountant[k][1] = "close"
  BY DEF PostClosing, Busy
<1>3. PICK q \in ClosingRecords, n \in Nat : q = accountant[k][2] /\ n = accountant[k][3]
  BY <1>1, <1>2, WaitingIs
<1>4. /\ years' = years /\ fiscallyClosed' = fiscallyClosed /\ ordinary' = ordinary
      /\ closings' = Append(closings, q)
      /\ retained' = [d \in DimValues |-> retained[d] + RetainedLine(q.lines, d)]
      /\ closeMarks' = IF Cardinality(ClosingsOf(q.year)) # n THEN closeMarks \cup {"twice"} ELSE closeMarks
      /\ accountant' = [accountant EXCEPT ![k] = <<>>]
  BY <1>3 DEF PostClosing
<1>5. PICK P : P = closings'
  OBVIOUS
<1>6. DOMAIN closings = 1 .. L /\ L \in Nat /\ IsFiniteSet(DOMAIN closings)
  BY <1>1, YearFinite
<1>7. /\ P \in Seq(ClosingRecords) /\ DOMAIN P = 1 .. (L + 1) /\ P[L + 1] = q
      /\ \A i \in DOMAIN closings : i \in DOMAIN P /\ P[i] = closings[i]
  BY <1>1, <1>4, <1>5, <1>6
<1> HIDE DEF L
<1>8. Exact(q, closings) /\ ReadBefore(q, ordinary) /\ Ready(q, n, closings)
  BY <1>1, <1>2, <1>3 DEF WaitingSoundly
<1>9. L + 1 \notin DOMAIN closings /\ L + 1 \in DOMAIN P /\ \A i \in DOMAIN P : i \in DOMAIN closings \/ i = L + 1
  BY <1>6, <1>7
<1>10. q.year \in Ys /\ q.lines \in Numbers /\ ~q.reversed
  BY <1>8, ClosingFields DEF Ready
<1>11. /\ OfYear(P, q.year) = OfYear(closings, q.year) \cup {L + 1}
       /\ StandingIn(P, q.year) = StandingIn(closings, q.year) \cup {L + 1}
       /\ L + 1 \notin OfYear(closings, q.year) /\ L + 1 \notin StandingIn(closings, q.year)
  BY <1>7, <1>9, <1>10 DEF OfYear, StandingIn
<1>12. \A z : z # q.year => OfYear(P, z) = OfYear(closings, z) /\ StandingIn(P, z) = StandingIn(closings, z)
  BY <1>7, <1>9 DEF OfYear, StandingIn
<1>13. Cardinality(OfYear(P, q.year)) = Cardinality(OfYear(closings, q.year)) + 1
  BY <1>1, <1>11, ClosingsFinite, FS_AddElement
<1>14. ASSUME NEW p \in ClosingRecords, Exact(p, closings) PROVE Exact(p, P)
  BY <1>1, <1>7, <1>14, ExactKept
<1>15. <<>> \in AtWorkOnYears
  BY DEF AtWorkOnYears
<1>16. /\ accountant' \in [Accountants -> AtWorkOnYears] /\ accountant'[k] = <<>>
       /\ \A j \in Accountants : j # k => accountant'[j] = accountant[j]
  BY <1>1, <1>4, <1>15, OthersWait
<1>17. \A d \in DimValues : RetainedLine(q.lines, d) \in Int /\ retained[d] \in Int
  BY <1>1, <1>10, SentInAll
<1>18. retained' \in [DimValues -> Int] /\ \A d \in DimValues : retained'[d] = retained[d] + RetainedLine(q.lines, d)
  BY <1>4, <1>17
<1>19. YearTypes'
  BY <1>1, <1>4, <1>5, <1>7, <1>16, <1>18 DEF YearTypes
<1>20. InOrder'
  <2>1. PICK x \in Nat :
          /\ x <= years /\ fiscallyClosed = 1 .. x
          /\ \A j \in Accountants : Busy(j, "year") => accountant[j][2] \in 1 .. (x + 1) /\ accountant[j][2] <= years
    BY DEF YearInv, InOrder
  <2>2. ASSUME NEW j \in Accountants, Busy(j, "year")'
        PROVE  Busy(j, "year") /\ accountant'[j] = accountant[j]
    BY <1>16, <2>2 DEF Busy
  <2> QED
    BY <1>4, <2>1, <2>2 DEF InOrder
<1>21. PostedSoundly(P, ordinary)
  <2>1. ASSUME NEW i \in DOMAIN P PROVE Exact(P[i], P) /\ ReadBefore(P[i], ordinary) /\ i \notin P[i].standing
    <3>1. CASE i = L + 1
      <4>1. L + 1 \notin q.standing
        BY <1>8, <1>11 DEF Exact
      <4> QED
        BY <1>7, <1>8, <1>14, <3>1, <4>1
    <3>2. CASE i \in DOMAIN closings
      <4>1. closings[i] \in ClosingRecords
        BY <1>1, <3>2, YearFinite
      <4>2. Exact(closings[i], closings) /\ ReadBefore(closings[i], ordinary) /\ i \notin closings[i].standing
        BY <1>1, <3>2 DEF PostedSoundly
      <4> QED
        BY <1>7, <1>14, <3>2, <4>1, <4>2
    <3> QED
      BY <1>9, <3>1, <3>2
  <2> QED
    BY <2>1 DEF PostedSoundly
<1>22. WaitingSoundly(accountant', P, ordinary)
  <2>1. ASSUME NEW j \in Accountants, accountant'[j] # <<>>, accountant'[j][1] = "close"
        PROVE  /\ Exact(accountant'[j][2], P) /\ ReadBefore(accountant'[j][2], ordinary)
               /\ Ready(accountant'[j][2], accountant'[j][3], P)
    <3>1. accountant'[j] = accountant[j] /\ accountant[j] # <<>> /\ accountant[j][1] = "close"
      BY <1>16, <2>1
    <3>2. PICK p \in ClosingRecords, m \in Nat : p = accountant[j][2] /\ m = accountant[j][3]
      BY <1>1, <3>1, WaitingIs
    <3>3. Exact(p, closings) /\ ReadBefore(p, ordinary) /\ Ready(p, m, closings)
      BY <1>1, <3>1, <3>2 DEF WaitingSoundly
    <3>4. Ready(p, m, P)
      <4>1. CASE p.year = q.year
        <5>1. PICK s \in Nat : s = Cardinality(OfYear(closings, q.year))
          BY <1>1, ClosingsFinite
        <5>2. m <= s /\ ~p.reversed
          BY <3>3, <4>1, <5>1 DEF Ready
        <5>3. Cardinality(OfYear(P, p.year)) = s + 1 /\ m <= s + 1 /\ m # s + 1
          BY <1>13, <4>1, <5>1, <5>2
        <5> QED
          BY <5>2, <5>3 DEF Ready
      <4>2. CASE p.year # q.year
        BY <1>12, <3>3, <4>2 DEF Ready
      <4> QED
        BY <4>1, <4>2
    <3> QED
      BY <1>14, <3>1, <3>2, <3>3, <3>4
  <2> QED
    BY <2>1 DEF WaitingSoundly
<1>23. ASSUME closeMarks' = {} PROVE NothingMissed(P) /\ NoneBelow(accountant', P)
  <2>1. ClosingsOf(q.year) = OfYear(closings, q.year)
    BY DEF ClosingsOf, OfYear
  <2>2. closeMarks = {} /\ n = Cardinality(OfYear(closings, q.year))
    BY <1>4, <1>23, <2>1
  <2>3. NothingMissed(closings) /\ NoneBelow(accountant, closings)
    BY <2>2 DEF YearInv
  <2>4. ASSUME NEW i \in DOMAIN P, LastOf(P, i) PROVE StandingIn(P, P[i].year) \subseteq P[i].standing \cup {i}
    <3>1. CASE i = L + 1
      <4>1. StandingIn(closings, q.year) \subseteq q.standing
        BY <1>8, <2>2 DEF Ready
      <4> QED
        BY <1>7, <1>11, <3>1, <4>1
    <3>2. CASE i \in DOMAIN closings
      <4>1. P[i] = closings[i] /\ i \in Nat /\ i <= L
        BY <1>6, <1>7, <3>2
      <4>2. closings[i].year # q.year
        <5>1. SUFFICES ASSUME closings[i].year = q.year PROVE FALSE
          OBVIOUS
        <5>2. L + 1 <= i
          BY <1>11, <2>4, <4>1, <5>1 DEF LastOf
        <5> QED
          BY <1>6, <4>1, <5>2
      <4>3. LastOf(closings, i)
        BY <1>12, <2>4, <4>1, <4>2 DEF LastOf
      <4>4. StandingIn(closings, closings[i].year) \subseteq closings[i].standing \cup {i}
        BY <2>3, <3>2, <4>3 DEF NothingMissed
      <4> QED
        BY <1>12, <4>1, <4>2, <4>4
    <3> QED
      BY <1>9, <3>1, <3>2
  <2>5. NotNegative(q.lines)
    BY <1>2, <1>3, <2>3 DEF NoneBelow
  <2>6. \A i \in DOMAIN P : NotNegative(P[i].lines)
    BY <1>7, <1>9, <2>3, <2>5 DEF NoneBelow
  <2>7. \A j \in Accountants : accountant'[j] # <<>> /\ accountant'[j][1] = "close" => NotNegative(accountant'[j][2].lines)
    BY <1>16, <2>3 DEF NoneBelow
  <2> QED
    BY <2>4, <2>6, <2>7 DEF NothingMissed, NoneBelow
<1>24. SumOver(retained', DimValues) = SumOver([y \in Ys |-> Given(P, y)], Ys)
  <2>1. SumOver(retained', DimValues) = SumOver(retained, DimValues) + InCells(q.lines)
    BY <1>1, <1>10, <1>18, RetainedMore
  <2>2. \A z \in Ys : \A j \in StandingIn(closings, z) : j \in DOMAIN P /\ P[j].lines = closings[j].lines
    BY <1>7 DEF StandingIn
  <2>3. SumOver([z \in Ys |-> Given(P, z)], Ys) = SumOver([z \in Ys |-> Given(closings, z)], Ys) + InCells(q.lines)
    <3>1. PICK e \in DOMAIN P : e = L + 1
      BY <1>9
    <3>2. PICK y \in Ys : y = q.year
      BY <1>10
    <3>3. StandingIn(P, y) = StandingIn(closings, y) \cup {e} /\ e \notin StandingIn(closings, y)
      BY <1>11, <3>1, <3>2
    <3>4. \A z \in Ys : z # y => StandingIn(P, z) = StandingIn(closings, z)
      BY <1>12, <3>2
    <3>5. P[e].lines = q.lines
      BY <1>7, <3>1
    <3>6. closings \in Seq(ClosingRecords) /\ P \in Seq(ClosingRecords)
      BY <1>1, <1>7
    <3>7. SumOver([z \in Ys |-> Given(P, z)], Ys) = SumOver([z \in Ys |-> Given(closings, z)], Ys) + InCells(P[e].lines)
      BY <2>2, <3>3, <3>4, <3>6, GivenInAll
    <3> QED
      BY <3>5, <3>7
  <2>4. SumOver(retained, DimValues) = SumOver([y \in Ys |-> Given(closings, y)], Ys)
    BY DEF YearInv
  <2> QED
    BY <1>7, <2>1, <2>3, <2>4
<1> QED
  BY <1>4, <1>5, <1>19, <1>20, <1>21, <1>22, <1>23, <1>24 DEF YearInv

\* A closing is reversed.
LEMMA ReverseKeeps ==
    ASSUME YearInv, NEW i \in DOMAIN closings, ReverseClosing(i)
    PROVE  YearInv'
<1>1. /\ YearTypes /\ closings \in Seq(ClosingRecords) /\ accountant \in [Accountants -> AtWorkOnYears]
      /\ retained \in [DimValues -> Int] /\ PostedSoundly(closings, ordinary)
      /\ WaitingSoundly(accountant, closings, ordinary)
  BY DEF YearInv, YearTypes
<1>2. /\ years' = years /\ fiscallyClosed' = fiscallyClosed /\ ordinary' = ordinary
      /\ closings' = [closings EXCEPT ![i].reversed = TRUE] /\ ~closings[i].reversed
      /\ retained' = [d \in DimValues |-> retained[d] - RetainedLine(closings[i].lines, d)]
      /\ closeMarks' = closeMarks /\ accountant' = accountant
  BY DEF ReverseClosing
<1>3. PICK q \in ClosingRecords : q = closings[i]
  BY <1>1, YearFinite
<1>4. PICK r : r = [q EXCEPT !.reversed = TRUE]
  OBVIOUS
<1>5. /\ r \in ClosingRecords /\ r.reversed /\ r.year = q.year /\ r.lines = q.lines
      /\ r.byDimension = q.byDimension /\ r.read = q.read /\ r.standing = q.standing
  BY <1>4 DEF ClosingRecords
<1>6. PICK P : P = [closings EXCEPT ![i] = r]
  OBVIOUS
<1>7. closings' = P
  BY <1>2, <1>3, <1>4, <1>6
<1>8. DOMAIN closings = 1 .. Len(closings)
  BY <1>1, YearFinite
<1>9. /\ P \in Seq(ClosingRecords) /\ DOMAIN P = DOMAIN closings /\ P[i] = r
      /\ \A j \in DOMAIN closings : j # i => P[j] = closings[j]
  BY <1>1, <1>5, <1>6, <1>8, ElementRewritten
<1>10. \A j \in DOMAIN closings : P[j].year = closings[j].year /\ P[j].lines = closings[j].lines
  BY <1>3, <1>5, <1>9
<1>11. \A z : OfYear(P, z) = OfYear(closings, z)
  BY <1>9, <1>10 DEF OfYear
<1>12. /\ StandingIn(closings, q.year) = StandingIn(P, q.year) \cup {i} /\ i \notin StandingIn(P, q.year)
       /\ \A z : StandingIn(P, z) \subseteq StandingIn(closings, z)
       /\ \A z : z # q.year => StandingIn(P, z) = StandingIn(closings, z)
  BY <1>2, <1>3, <1>5, <1>9, <1>10 DEF StandingIn
<1>13. ASSUME NEW p \in ClosingRecords, Exact(p, closings) PROVE Exact(p, P)
  BY <1>1, <1>9, <1>10, <1>13, ExactKept
<1>14. q.year \in Ys /\ q.lines \in Numbers
  BY ClosingFields
<1>15. \A d \in DimValues : RetainedLine(q.lines, d) \in Int /\ retained[d] \in Int
  BY <1>1, <1>14, SentInAll
<1>16. retained' \in [DimValues -> Int] /\ \A d \in DimValues : retained[d] = retained'[d] + RetainedLine(q.lines, d)
  BY <1>2, <1>3, <1>15
<1>17. YearTypes'
  BY <1>1, <1>2, <1>7, <1>9, <1>16 DEF YearTypes
<1>18. InOrder'
  BY <1>2 DEF YearInv, InOrder, Busy
<1>19. PostedSoundly(P, ordinary)
  <2>1. ASSUME NEW j \in DOMAIN P PROVE Exact(P[j], P) /\ ReadBefore(P[j], ordinary) /\ j \notin P[j].standing
    <3>1. Exact(closings[j], closings) /\ ReadBefore(closings[j], ordinary) /\ j \notin closings[j].standing
      BY <1>1, <1>9 DEF PostedSoundly
    <3>2. CASE j = i
      <4>1. Exact(r, closings)
        BY <1>3, <1>5, <3>1, <3>2, ExactOf
      <4>2. Exact(r, P)
        BY <1>5, <1>13, <4>1
      <4>3. ReadBefore(r, ordinary)
        BY <1>3, <1>5, <3>1, <3>2 DEF ReadBefore
      <4> QED
        BY <1>3, <1>5, <1>9, <3>1, <3>2, <4>2, <4>3
    <3>3. CASE j # i
      <4>1. closings[j] \in ClosingRecords
        BY <1>1, <1>9, YearFinite
      <4> QED
        BY <1>9, <1>13, <3>1, <3>3, <4>1
    <3> QED
      BY <3>2, <3>3
  <2> QED
    BY <2>1 DEF PostedSoundly
<1>20. WaitingSoundly(accountant, P, ordinary)
  <2>1. ASSUME NEW j \in Accountants, accountant[j] # <<>>, accountant[j][1] = "close"
        PROVE  /\ Exact(accountant[j][2], P) /\ ReadBefore(accountant[j][2], ordinary)
               /\ Ready(accountant[j][2], accountant[j][3], P)
    <3>1. PICK p \in ClosingRecords, m \in Nat : p = accountant[j][2] /\ m = accountant[j][3]
      BY <1>1, <2>1, WaitingIs
    <3>2. Exact(p, closings) /\ ReadBefore(p, ordinary) /\ Ready(p, m, closings)
      BY <1>1, <2>1, <3>1 DEF WaitingSoundly
    <3>3. Ready(p, m, P)
      <4>1. OfYear(P, p.year) = OfYear(closings, p.year) /\ StandingIn(P, p.year) \subseteq StandingIn(closings, p.year)
        BY <1>11, <1>12
      <4> QED
        BY <3>2, <4>1 DEF Ready
    <3> QED
      BY <1>13, <3>1, <3>2, <3>3
  <2> QED
    BY <2>1 DEF WaitingSoundly
<1>21. ASSUME closeMarks' = {} PROVE NothingMissed(P) /\ NoneBelow(accountant, P)
  <2>1. NothingMissed(closings) /\ NoneBelow(accountant, closings)
    BY <1>2, <1>21 DEF YearInv
  <2>2. \A j \in DOMAIN closings : P[j].standing = closings[j].standing
    BY <1>3, <1>5, <1>9
  <2>3. ASSUME NEW j \in DOMAIN P, LastOf(P, j) PROVE StandingIn(P, P[j].year) \subseteq P[j].standing \cup {j}
    <3>1. P[j].year = closings[j].year /\ P[j].standing = closings[j].standing /\ j \in DOMAIN closings
      BY <1>9, <1>10, <2>2
    <3>2. LastOf(closings, j)
      BY <1>11, <2>3, <3>1 DEF LastOf
    <3>3. StandingIn(closings, closings[j].year) \subseteq closings[j].standing \cup {j}
      BY <2>1, <3>1, <3>2 DEF NothingMissed
    <3>4. StandingIn(P, P[j].year) \subseteq StandingIn(closings, P[j].year)
      BY <1>12
    <3> QED
      BY <3>1, <3>3, <3>4
  <2>4. \A j \in DOMAIN P : NotNegative(P[j].lines)
    BY <1>9, <1>10, <2>1 DEF NoneBelow
  <2> QED
    BY <2>1, <2>3, <2>4 DEF NothingMissed, NoneBelow
<1>22. SumOver(retained', DimValues) = SumOver([y \in Ys |-> Given(P, y)], Ys)
  <2>1. SumOver(retained, DimValues) = SumOver(retained', DimValues) + InCells(q.lines)
    <3>1. PICK v : v = retained'
      OBVIOUS
    <3>2. SumOver(retained, DimValues) = SumOver(v, DimValues) + InCells(q.lines)
      BY <1>1, <1>14, <1>16, <3>1, RetainedMore
    <3> QED
      BY <3>1, <3>2
  <2>2. PICK y \in Ys : y = q.year
    BY <1>14
  <2>3. StandingIn(closings, y) = StandingIn(P, y) \cup {i} /\ i \notin StandingIn(P, y)
    BY <1>12, <2>2
  <2>4. \A z \in Ys : z # y => StandingIn(closings, z) = StandingIn(P, z)
    BY <1>12, <2>2
  <2>5. \A z \in Ys : \A j \in StandingIn(P, z) : j \in DOMAIN closings /\ closings[j].lines = P[j].lines
    BY <1>9, <1>10 DEF StandingIn
  <2>6. closings \in Seq(ClosingRecords) /\ P \in Seq(ClosingRecords)
    BY <1>1, <1>9
  <2>7. SumOver([z \in Ys |-> Given(closings, z)], Ys) = SumOver([z \in Ys |-> Given(P, z)], Ys) + InCells(closings[i].lines)
    BY <2>3, <2>4, <2>5, <2>6, GivenInAll
  <2>8. SumOver(retained, DimValues) = SumOver([z \in Ys |-> Given(closings, z)], Ys)
    BY DEF YearInv
  <2>9. \A z \in Ys : Given(P, z) \in Int
    BY <2>6, GivenInt
  <2>10. SumOver([z \in Ys |-> Given(P, z)], Ys) \in Int
    <3> DEFINE g == [z \in Ys |-> Given(P, z)]
    <3>1. \A z \in Ys : g[z] \in Int
      BY <2>9
    <3> HIDE DEF g
    <3>2. SumOver(g, Ys) \in Int
      BY <3>1, YearFinite, SumIsInt
    <3> QED
      BY <3>2 DEF g
  <2>11. SumOver(retained', DimValues) \in Int
    <3>1. \A d \in DimValues : retained'[d] \in Int
      BY <1>16
    <3>2. PICK v : v = retained'
      OBVIOUS
    <3>3. SumOver(v, DimValues) \in Int
      BY <3>1, <3>2, YearFinite, SumIsInt
    <3> QED
      BY <3>2, <3>3
  <2>12. InCells(q.lines) \in Int
    BY <1>14, SentInAll
  <2> QED
    BY <1>3, <2>1, <2>7, <2>8, <2>10, <2>11, <2>12
<1> QED
  BY <1>2, <1>7, <1>17, <1>18, <1>19, <1>20, <1>21, <1>22 DEF YearInv

LEMMA YearStepInv == YearInv /\ [YearNext]_yearVars => YearInv'
<1> SUFFICES ASSUME YearInv, [YearNext]_yearVars PROVE YearInv'
  OBVIOUS
<1>1. CASE UNCHANGED yearVars
  BY <1>1 DEF yearVars, YearInv, YearTypes, InOrder, Busy
<1>2. ASSUME NEW y \in 1 .. MaxYears, NEW c \in Cells, PostInto(y, c) PROVE YearInv'
  BY <1>2, PostIntoKeeps DEF Ys
<1>3. CASE CreateFiscalYear
  BY <1>3, CreateKeeps
<1>4. ASSUME NEW k \in Accountants, AskCloseYear(k) PROVE YearInv'
  BY <1>4, AskKeeps
<1>5. ASSUME NEW k \in Accountants, CloseFiscalYear(k) PROVE YearInv'
  BY <1>5, CloseYearKeeps
<1>6. ASSUME NEW k \in Accountants, PostClosing(k) PROVE YearInv'
  BY <1>6, PostClosingKeeps
<1>7. ASSUME NEW k \in Accountants, NEW y \in 1 .. MaxYears, NEW b \in BOOLEAN, ReadNetChanges(k, y, b)
      PROVE  YearInv'
  BY <1>7, ReadNetKeeps DEF Ys
<1>8. ASSUME NEW i \in DOMAIN closings, ReverseClosing(i) PROVE YearInv'
  BY <1>8, ReverseKeeps
<1> QED
  BY <1>1, <1>2, <1>3, <1>4, <1>5, <1>6, <1>7, <1>8 DEF YearNext

\* What is left and what the closings that stand took make up what was posted.
LEMMA AllAccountedFor ==
    ASSUME YearInv
    PROVE  SumFunction(retained) + SumFunction([p \in (1 .. MaxYears) \X Cells |-> NetChange(p[1], p[2])])
             = PostedInAll
<1> DEFINE f == [p \in (1 .. MaxYears) \X Cells |-> NetChange(p[1], p[2])]
           o == [p \in (1 .. MaxYears) \X Cells |-> ordinary[p[1]][p[2]]]
           t == [p \in (1 .. MaxYears) \X Cells |-> LinesOver(closings, StandingIn(closings, p[1]), p[2])]
           m == [y \in Ys |-> [c \in Cells |-> LinesOver(closings, StandingIn(closings, y), c)]]
           rows == [y \in Ys |-> Given(closings, y)]
           All == Ys \X Cells
<1>1. YearTypes /\ closings \in Seq(ClosingRecords) /\ ordinary \in [Ys -> [Cells -> Nat]] /\ retained \in [DimValues -> Int]
  BY DEF YearInv, YearTypes
<1>2. ASSUME NEW y \in Ys, NEW c \in Cells
      PROVE  /\ f[<<y, c>>] = ordinary[y][c] - LinesOver(closings, StandingIn(closings, y), c)
             /\ o[<<y, c>>] = ordinary[y][c] /\ ordinary[y][c] \in Int
             /\ t[<<y, c>>] = LinesOver(closings, StandingIn(closings, y), c)
             /\ LinesOver(closings, StandingIn(closings, y), c) \in Int
             /\ m[y][c] = LinesOver(closings, StandingIn(closings, y), c)
  <2>1. <<y, c>> \in (1 .. MaxYears) \X Cells /\ <<y, c>>[1] = y /\ <<y, c>>[2] = c
    BY DEF Ys
  <2>2. f[<<y, c>>] = NetChange(y, c)
    BY <2>1
  <2>3. o[<<y, c>>] = ordinary[y][c]
    BY <2>1
  <2>4. t[<<y, c>>] = LinesOver(closings, StandingIn(closings, y), c)
    BY <2>1
  <2>5. m[y][c] = LinesOver(closings, StandingIn(closings, y), c)
    OBVIOUS
  <2>6. NetChange(y, c) = ordinary[y][c] - LinesOver(closings, StandingIn(closings, y), c)
    <3>1. NetChange(y, c) = NetNow(ordinary, closings, y)[c]
      BY <1>1, NetChangeIs
    <3> QED
      BY <3>1 DEF NetNow
  <2>7. StandingIn(closings, y) \in SUBSET DOMAIN closings
    BY <1>1, ClosingsFinite
  <2>8. LinesOver(closings, StandingIn(closings, y), c) \in Int
    BY <1>1, <2>7, LinesInt
  <2>9. ordinary[y][c] \in Int
    BY <1>1
  <2> HIDE DEF f, o, t, m
  <2> QED
    BY <2>2, <2>3, <2>4, <2>5, <2>6, <2>8, <2>9
<1>3. DOMAIN f = All /\ DOMAIN o = All /\ DOMAIN retained = DimValues
  BY <1>1 DEF Ys
<1>4. IsFiniteSet(All)
  BY YearFinite, FS_Product
<1>5. \A y \in Ys : rows[y] = SumOver(m[y], Cells)
  BY DEF Given, InCells
<1>6. /\ SumFunction(f) = SumOver(f, All) /\ SumFunction(retained) = SumOver(retained, DimValues)
      /\ PostedInAll = SumOver(o, All)
  <2>1. PostedInAll = SumFunction(o)
    BY DEF PostedInAll
  <2> HIDE DEF f, o, All
  <2> QED
    BY <1>3, <2>1, SumOfFunction
<1>7. SumOver(retained, DimValues) = SumOver(rows, Ys)
  BY DEF YearInv
<1> HIDE DEF f, o, t, m, rows
<1>8. PairsOf(Ys, Cells, t, m)
  BY <1>2 DEF PairsOf
<1>9. SumOver(t, All) = SumOver(rows, Ys)
  BY <1>5, <1>8, YearFinite, SumOfPairs
<1>10. \A p \in All : f[p] \in Int /\ t[p] \in Int /\ o[p] = f[p] + t[p]
  <2>1. ASSUME NEW y \in Ys, NEW c \in Cells
        PROVE  f[<<y, c>>] \in Int /\ t[<<y, c>>] \in Int /\ o[<<y, c>>] = f[<<y, c>>] + t[<<y, c>>]
    <3>1. PICK l \in Int, x \in Int : l = LinesOver(closings, StandingIn(closings, y), c) /\ x = ordinary[y][c]
      BY <1>2
    <3>2. f[<<y, c>>] = x - l /\ t[<<y, c>>] = l /\ o[<<y, c>>] = x
      BY <1>2, <3>1
    <3> QED
      BY <3>2
  <2> QED
    BY <2>1
<1> HIDE DEF All
<1>11. SumOver(o, All) = SumOver(f, All) + SumOver(t, All)
  BY <1>4, <1>10, SumOfSums
<1>12. SumOver(f, All) \in Int /\ SumOver(t, All) \in Int
  BY <1>4, <1>10, SumIsInt
<1>13. SumFunction(retained) + SumFunction(f) = PostedInAll
  BY <1>6, <1>7, <1>9, <1>11, <1>12
<1> QED
  BY <1>13 DEF f

LEMMA YearEndIsSound == YearInv => YearEndSound
<1> SUFFICES ASSUME YearInv PROVE YearEndSound
  OBVIOUS
<1>1. YearTypes /\ closings \in Seq(ClosingRecords) /\ ordinary \in [Ys -> [Cells -> Nat]] /\ PostedSoundly(closings, ordinary)
  BY DEF YearInv, YearTypes
<1>2. fiscallyClosed = 1 .. Cardinality(fiscallyClosed)
  <2>1. PICK n \in Nat : fiscallyClosed = 1 .. n
    BY DEF YearInv, InOrder
  <2>2. Cardinality(1 .. n) = IF 1 > n THEN 0 ELSE n - 1 + 1
    BY FS_Interval
  <2> QED
    BY <2>1, <2>2
<1>3. ASSUME closeMarks = {}, NEW y \in 1 .. years, ClosingsOf(y) # {}
      PROVE  LET last == Max(ClosingsOf(y))
             IN  /\ closings[last].byDimension => \A c \in Cells : NetChange(y, c) = Since(last, y, c)
                 /\ \A a \in ResultAccounts :
                      /\ NetOfAccount(y, a) = SumFunction([d \in DimValues |-> Since(last, y, <<a, d>>)])
                      /\ NetOfAccount(y, a) >= 0
  <2> DEFINE k == Max(ClosingsOf(y))
  <2>0. y \in Ys
    <3>1. years \in Ys /\ MaxYears \in Nat
      BY <1>1, YearAssumption DEF YearTypes
    <3> QED
      BY <3>1 DEF Ys
  <2>1. /\ \A c \in Cells : NetChange(y, c) = NetNow(ordinary, closings, y)[c]
        /\ \A a \in ResultAccounts : NetOfAccount(y, a) = InAccount(NetNow(ordinary, closings, y), a)
        /\ Standing(y) = StandingIn(closings, y) /\ ClosingsOf(y) = OfYear(closings, y)
    BY <1>1, <2>0, NetChangeIs
  <2>2. OfYear(closings, y) \subseteq Nat /\ IsFiniteSet(OfYear(closings, y)) /\ OfYear(closings, y) # {}
    BY <1>1, <1>3, <2>1, ClosingsFinite, YearFinite
  <2>3. k \in OfYear(closings, y) /\ \A j \in OfYear(closings, y) : j <= k
    <3>1. PICK x \in OfYear(closings, y) : \A j \in OfYear(closings, y) : j <= x
      BY <2>2, HasGreatest
    <3>2. \A j \in OfYear(closings, y) : x >= j
      BY <2>2, <3>1
    <3>3. k \in OfYear(closings, y) /\ \A j \in OfYear(closings, y) : k >= j
      BY <2>1, <3>2 DEF Max
    <3> QED
      BY <2>2, <3>3
  <2> HIDE DEF k
  <2>4. k \in DOMAIN closings /\ closings[k].year = y /\ LastOf(closings, k)
    BY <2>3 DEF OfYear, LastOf
  <2>5. NothingMissed(closings)
    BY <1>3 DEF YearInv
  <2>6. /\ closings[k].byDimension => \A c \in Cells : NetNow(ordinary, closings, y)[c] = Kept(ordinary, closings, k, c)
        /\ \A a \in ResultAccounts : InAccount(NetNow(ordinary, closings, y), a)
                                       = InAccount([c \in Cells |-> Kept(ordinary, closings, k, c)], a)
    BY <1>1, <2>4, <2>5, AfterTheLast
  <2>7. \A c : Since(k, y, c) = Kept(ordinary, closings, k, c)
    <3>1. ASSUME NEW w, NEW c PROVE ClosedBy(w, c) = LinesOver(closings, w, c)
      <4> DEFINE f == [i \in w |-> closings[i].lines[c]]
      <4>1. SumFunction(f) = SumOver(f, DOMAIN f) /\ DOMAIN f = w
        BY SumOfFunction
      <4> QED
        BY <4>1 DEF ClosedBy, LinesOver
    <3> QED
      BY <2>1, <2>4, <3>1 DEF Since, Kept
  <2>8. closings[k].byDimension => \A c \in Cells : NetChange(y, c) = Since(k, y, c)
    BY <2>1, <2>6, <2>7
  <2>9. ASSUME NEW a \in ResultAccounts
        PROVE  NetOfAccount(y, a) = SumFunction([d \in DimValues |-> Since(k, y, <<a, d>>)])
    <3> DEFINE f == [d \in DimValues |-> Since(k, y, <<a, d>>)]
               g == [d \in DimValues |-> [c \in Cells |-> Kept(ordinary, closings, k, c)][<<a, d>>]]
    <3>1. \A d \in DimValues : <<a, d>> \in Cells
      BY DEF Cells
    <3>2. f = g
      BY <2>7, <3>1
    <3>3. SumFunction(f) = SumOver(f, DOMAIN f) /\ DOMAIN f = DimValues
      BY SumOfFunction
    <3>4. InAccount([c \in Cells |-> Kept(ordinary, closings, k, c)], a) = SumOver(g, DimValues)
      BY DEF InAccount
    <3> QED
      BY <2>1, <2>6, <3>2, <3>3, <3>4
  <2>10. \A a \in ResultAccounts : NetOfAccount(y, a) >= 0
    <3>1. NotNegative(NetNow(ordinary, closings, y))
      BY <1>3, <2>0, NoAccountBelow
    <3> QED
      BY <2>1, <3>1 DEF NotNegative
  <2> QED
    BY <2>8, <2>9, <2>10 DEF k
<1>4. SumFunction(retained) + SumFunction([p \in (1 .. MaxYears) \X Cells |-> NetChange(p[1], p[2])]) = PostedInAll
  BY AllAccountedFor
<1> QED
  BY <1>2, <1>3, <1>4 DEF YearEndSound

-----------------------------------------------------------------------------
(* The registers together: each is one of them while the others rest.       *)

\* The whole starts with every register at its start.
LEMMA RegistersStart ==
    RegistersInit => OrderInv /\ ReviewInv /\ StockInv /\ FaInv /\ PayInv /\ ImpInv
        /\ YearInv
BY OrderInitInv, ReviewInitInv, StockInitInv, FaInitInv, PayInitInv, ImpInitInv,
   YearInitInv DEF RegistersInit

\* A step of the whole is a step of one register or none of it.
LEMMA StepsOfTheRegisters ==
    ASSUME [RegistersNext]_registersVars
    PROVE  /\ [OrderNext]_orderVars /\ [ReviewNext]_reviewVars /\ [StockNext]_stockVars
           /\ [FaNext]_faVars /\ [PayNext]_payVars /\ [ImpNext]_impVars /\ [YearNext]_yearVars
BY DEF RegistersNext, registersVars, DocStep, StockStep, OrderStep, PayStep, ImpStep, FaStep,
       ReviewStep, YearStep

\* Purchasing, for any number of requests, orders and postings: unless requests overtook each
\* other, an order is billed once, its goods move once (twice where they were shipped alone
\* before) and it only disappears when both are done; and a processed line of a requisition
\* stands once, on the order it names.
THEOREM PurchasingSoundAlways == RegistersSpec => []PurchasingSound
<1>1. RegistersInit => OrderInv /\ ReviewInv
  BY RegistersStart
<1>2. OrderInv /\ ReviewInv /\ [RegistersNext]_registersVars => (OrderInv /\ ReviewInv)'
  BY StepsOfTheRegisters, OrderStepInv, ReviewStepInv
<1>3. OrderInv /\ ReviewInv => PurchasingSound
  BY OrdersAreSound, ReviewIsSound DEF PurchasingSound
<1> QED
  BY <1>1, <1>2, <1>3, PTL DEF RegistersSpec

\* An item at a location, for any openings, costs, quantities, number of requests and costing
\* method: unless a document wrote back what had changed since it looked, the roll-up is the item
\* ledger, and the open lots together are the roll-up too but for credit memos and Standard
\* costing; unless something moved between plan and posting, no lot is below zero and no more
\* is issued than approved; and where a lot leaves at its own cost, the inventory account is what
\* the lots cost to half a unit of the currency for each unit of quantity moved.
THEOREM StockAgreesAlways == RegistersSpec => []StockAgrees
<1>1. RegistersInit => StockInv
  BY RegistersStart
<1>2. StockInv /\ [RegistersNext]_registersVars => StockInv'
  BY StepsOfTheRegisters, StockStepInv
<1>3. StockInv => StockAgrees
  BY StockIsSound
<1> QED
  BY <1>1, <1>2, <1>3, PTL DEF RegistersSpec

\* One asset in one book, for any costs, salvage value, life, days, method and number of requests:
\* the roll-ups, the FA ledger and the two accounts agree and a disposed asset is worth nothing
\* unless a line was posted twice, a disposal reversed an older book or a line revived the asset;
\* and calculated depreciation stays above the salvage value, and on the straight line but for
\* half a unit for each line and one final rounding, while each line was posted on the book it was
\* calculated of.
THEOREM AssetSoundAlways == RegistersSpec => []AssetSound
<1>1. RegistersInit => FaInv
  BY RegistersStart
<1>2. FaInv /\ [RegistersNext]_registersVars => FaInv'
  BY StepsOfTheRegisters, FaStepInv
<1>3. FaInv => AssetSound
  BY AssetIsSound
<1> QED
  BY <1>1, <1>2, <1>3, PTL DEF RegistersSpec

\* Payroll, for any number of requests and periods, any loan and any instalment: while no period
\* was run again, no status overtaken and no line changed by hand, the last line of the loan has
\* exactly what the payslips have not deducted, and they deduct less than an instalment too much;
\* a closed period posted the payslip it shows; and one period is worked on at a time.
THEOREM PayrollHoldsAlways == RegistersSpec => []PayrollHolds
<1>1. RegistersInit => PayInv
  BY RegistersStart
<1>2. PayInv /\ [RegistersNext]_registersVars => PayInv'
  BY StepsOfTheRegisters, PayStepInv
<1>3. PayInv => PayrollHolds
  BY PayrollIsSound
<1> QED
  BY <1>1, <1>2, <1>3, PTL DEF RegistersSpec

\* Imprests and claims, for any number of documents and requests, any amounts and any limit:
\* unless a request overtook another, two lines of one code met or a line was removed by hand, the
\* control account is what the employees owe or are owed, and a document settled owes nothing but
\* what its line on the payroll still has to take; and the limit is kept unless two issues were
\* counted before either was posted.
THEOREM ImprestsAlways == RegistersSpec => []Imprests
<1>1. RegistersInit => ImpInv
  BY RegistersStart
<1>2. ImpInv /\ [RegistersNext]_registersVars => ImpInv'
  BY StepsOfTheRegisters, ImpStepInv
<1>3. ImpInv => Imprests
  BY ImprestsAreSound
<1> QED
  BY <1>1, <1>2, <1>3, PTL DEF RegistersSpec

\* The end of a fiscal year, for any number of years, accounts, dimension values, closings and
\* requests: years close in order; unless a closing missed another of its year, the last closing of
\* a year leaves in each account what was posted or given back since it looked, per dimension
\* value if it closed by them, and no account falls below zero; and what is in retained earnings
\* and what is left make up what was posted.
THEOREM YearEndSoundAlways == RegistersSpec => []YearEndSound
<1>1. RegistersInit => YearInv
  BY RegistersStart
<1>2. YearInv /\ [RegistersNext]_registersVars => YearInv'
  BY StepsOfTheRegisters, YearStepInv
<1>3. YearInv => YearEndSound
  BY YearEndIsSound
<1> QED
  BY <1>1, <1>2, <1>3, PTL DEF RegistersSpec
=============================================================================
