---------------------------- MODULE MCUnattended ----------------------------
(* What must go on without anybody looking: the jobs of the queue, the      *)
(* messages that one of them delivers, and a fee run that is posted again   *)
(* until everybody is billed.  The three share no state, so a behaviour is  *)
(* one of them, and the fairness of each is asked of its own only.          *)
(*                                                                          *)
(* Two processes that poll two entries; two messages; two fee runs that     *)
(* overlap, one of them split in three, of amounts that do not divide by    *)
(* three.                                                                   *)
EXTENDS JobQueue, Outbox, FeeRun, TLC

CONSTANTS s1, s2, m1, m2, r1, r2, c1, c2

TwoEach == [t \in Threads |-> IF t = "other poll" THEN "B" ELSE "A"]

ScopeGrade == (r1 :> {s1, s2}) @@ (r2 :> {s1})
SplitAndWhole == (r1 :> <<33, 33, 34>>) @@ (r2 :> <<100>>)
OneBill == {[lines |-> <<50, 25>>, discount |-> 10]}

VARIABLE goesOn     \* which of the three this behaviour is

unattendedVars == <<goesOn, vars, outboxVars, feeVars>>

UnattendedInit ==
    /\ goesOn \in {"jobs", "messages", "fees"}
    /\ Init /\ OutboxInit /\ FeeInit
    /\ goesOn # "fees" => \A s \in Students : ready[s]

JobStep == goesOn = "jobs" /\ Next /\ UNCHANGED <<goesOn, outboxVars, feeVars>>
MessageStep == goesOn = "messages" /\ OutboxNext /\ UNCHANGED <<goesOn, vars, feeVars>>
FeeStep == goesOn = "fees" /\ FeeNext /\ UNCHANGED <<goesOn, vars, outboxVars>>

UnattendedNext == JobStep \/ MessageStep \/ FeeStep

(* As LiveSpec of JobQueue: the timer of each process fires for ever,       *)
(* whether or not people start entries by hand meanwhile, time passes, and  *)
(* what has begun goes on.                                                  *)
JobsGoOn ==
    /\ WF_vars(goesOn = "jobs" /\ Tick)
    /\ \A t \in Threads :
          /\ SF_vars(goesOn = "jobs" /\ Poll(t))
          /\ WF_vars(goesOn = "jobs" /\ Begin(t))
          /\ WF_vars(goesOn = "jobs" /\ Acquire(t))
          /\ WF_vars(goesOn = "jobs" /\ Finish(t))

(* The dispatch job runs again and again, handlers go on, time passes.      *)
MessagesGoOn ==
    /\ \A s \in Senders :
          /\ WF_outboxVars(goesOn = "messages" /\ RequeueLost(s))
          /\ WF_outboxVars(goesOn = "messages" /\ Delivery(s))
    /\ \A m \in Messages : WF_outboxVars(goesOn = "messages" /\ TimePasses(m))

(* Fee accounts are put right, a request under way goes on, and an open run *)
(* with somebody to bill is posted again, as its page offers.               *)
RunsGoOn ==
    /\ \A s \in Students : WF_feeVars(goesOn = "fees" /\ Mend(s))
    /\ \A c \in Clerks, r \in FeeRuns :
          /\ WF_feeVars(goesOn = "fees" /\ PreviewRun(c, r))
          /\ WF_feeVars(goesOn = "fees" /\ FinishRun(c, r))
          /\ WF_feeVars(goesOn = "fees" /\ DeleteRun(c, r))
          /\ \A s \in Students : WF_feeVars(goesOn = "fees" /\ BillStudent(c, r, s))
    /\ \A r \in FeeRuns : SF_feeVars(goesOn = "fees" /\ \E c \in Clerks : PostRead(c, r))

UnattendedSpec ==
    /\ UnattendedInit /\ [][UnattendedNext]_unattendedVars
    /\ JobsGoOn /\ MessagesGoOn /\ RunsGoOn
=============================================================================
