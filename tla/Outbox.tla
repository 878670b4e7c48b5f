------------------------------- MODULE Outbox -------------------------------
(***************************************************************************)
(* The message outbox (lib/outbox.ts): every e-mail and SMS is a row first *)
(* and is then delivered, at once by the request that wrote it or later by *)
(* the OUTBOX_DISPATCH job.                                                *)
(***************************************************************************)
EXTENDS Naturals

CONSTANTS
    Messages,      \* message_outbox ids
    Senders,       \* requests and jobs being served
    MaxAttempts,   \* message_outbox.max_attempts
    MaxPersons,    \* bound on retries and cancellations by hand
    MaxSenderCrashes, \* bound on dispatchers that die
    SlowSends      \* whether a gateway may take over ten minutes to answer

ASSUME OutboxAssumption ==
    /\ MaxAttempts \in Nat \ {0} /\ MaxPersons \in Nat /\ MaxSenderCrashes \in Nat
    /\ SlowSends \in BOOLEAN

VARIABLES
    outbox,   \* message_outbox; the status "none" is a row not yet written
    sends,    \* how often each message went out
    sender,   \* where each request or job is
    persons, senderCrashes,
    resent    \* history: messages put back by hand while a session was sending them

outboxVars == <<outbox, sends, sender, persons, senderCrashes, resent>>

OutboxStatuses == {"none", "QUEUED", "SENDING", "SENT", "FAILED", "CANCELLED", "purged"}

\* next_attempt_at is abstracted to whether it has come (QUEUED) or lies more than
\* ten minutes back (SENDING)
OutboxRow == [status : OutboxStatuses, attempts : Nat, passed : BOOLEAN]
SenderType ==
    [at : {"idle", "list", "claim", "send", "ok", "error", "unconfigured", "retry", "cancel"},
     on : SUBSET Messages, todo : SUBSET Messages, read : Nat]

OutboxTypeOK ==
    /\ outbox \in [Messages -> OutboxRow] /\ sends \in [Messages -> Nat]
    /\ sender \in [Senders -> SenderType]
    /\ persons \in 0 .. MaxPersons /\ senderCrashes \in 0 .. MaxSenderCrashes /\ resent \subseteq Messages

WaitingSender == [at |-> "idle", on |-> {}, todo |-> {}, read |-> 0]
FreeSender(s) == sender[s].at = "idle"
Sends(s, m) == m \in sender[s].on /\ sender[s].at \in {"send", "ok", "error", "unconfigured"}
\* on to the next message of the list, or through
Onward(s, todo) ==
    sender' = [sender EXCEPT ![s] = IF todo = {} THEN WaitingSender ELSE [WaitingSender EXCEPT !.at = "claim", !.todo = todo]]

OutboxInit ==
    /\ outbox = [m \in Messages |-> [status |-> "none", attempts |-> 0, passed |-> FALSE]]
    /\ sends = [m \in Messages |-> 0]
    /\ sender = [s \in Senders |-> WaitingSender]
    /\ persons = 0 /\ senderCrashes = 0 /\ resent = {}

-----------------------------------------------------------------------------
\* enqueueMessage: the row is QUEUED and due, and the request goes on to deliver it.
Enqueue(s, m) ==
    /\ FreeSender(s) /\ outbox[m].status = "none"
    /\ outbox' = [outbox EXCEPT ![m] = [status |-> "QUEUED", attempts |-> 0, passed |-> TRUE]]
    /\ Onward(s, {m})
    /\ UNCHANGED <<sends, persons, senderCrashes, resent>>

\* dispatchOutbox: what has been SENDING for over ten minutes is QUEUED again ...
\* (first with a defect: it is not)
RequeueNothing(s) ==
    /\ FreeSender(s)
    /\ sender' = [sender EXCEPT ![s].at = "list"]
    /\ UNCHANGED <<outbox, sends, persons, senderCrashes, resent>>

RequeueLost(s) ==
    /\ FreeSender(s)
    /\ outbox' = [m \in Messages |->
                 IF outbox[m].status = "SENDING" /\ outbox[m].passed
                 THEN [outbox[m] EXCEPT !.status = "QUEUED"] ELSE outbox[m]]
    /\ sender' = [sender EXCEPT ![s].at = "list"]
    /\ UNCHANGED <<sends, persons, senderCrashes, resent>>

\* ... and what is due is delivered, one message after the other.
ListDue(s) ==
    /\ sender[s].at = "list"
    /\ Onward(s, {m \in Messages : outbox[m].status = "QUEUED" /\ outbox[m].passed})
    /\ UNCHANGED <<outbox, sends, persons, senderCrashes, resent>>

\* deliverMessage: the row is claimed, or somebody else has it
\* (first with a defect: the claim does not look at the status)
ClaimAny(s) ==
    /\ sender[s].at = "claim"
    /\ \E m \in sender[s].todo :
        /\ outbox' = [outbox EXCEPT ![m] = [status |-> "SENDING", attempts |-> @.attempts + 1, passed |-> FALSE]]
        /\ sender' = [sender EXCEPT ![s] = [at |-> "send", on |-> {m}, todo |-> @.todo \ {m},
                                        read |-> outbox[m].attempts + 1]]
    /\ UNCHANGED <<sends, persons, senderCrashes, resent>>

Claim(s) ==
    /\ sender[s].at = "claim"
    /\ \E m \in sender[s].todo :
        IF outbox[m].status = "QUEUED"
        THEN /\ outbox' = [outbox EXCEPT ![m] = [status |-> "SENDING", attempts |-> @.attempts + 1, passed |-> FALSE]]
             /\ sender' = [sender EXCEPT ![s] = [at |-> "send", on |-> {m}, todo |-> @.todo \ {m},
                                             read |-> outbox[m].attempts + 1]]
        ELSE Onward(s, sender[s].todo \ {m}) /\ UNCHANGED outbox
    /\ UNCHANGED <<sends, persons, senderCrashes, resent>>

\* The gateway: it sends and says so, sends and its answer is lost, refuses, or is
\* not configured at all.
Transport(s) ==
    /\ sender[s].at = "send"
    /\ \E went \in BOOLEAN, answer \in {"ok", "error", "unconfigured"} :
        /\ answer = "ok" => went
        /\ answer = "unconfigured" => ~went
        /\ sends' = [m \in Messages |-> sends[m] + IF went /\ m \in sender[s].on THEN 1 ELSE 0]
        /\ sender' = [sender EXCEPT ![s].at = answer]
    /\ UNCHANGED <<outbox, persons, senderCrashes, resent>>

\* The outcome is written, by id, whatever the status is by now: SENT; FAILED after
\* the last attempt or without a transport; else QUEUED for a later attempt.
\* (first with a defect: an exhausted message is taken for sent)
OutcomeSent(s) ==
    CASE sender[s].at = "unconfigured" -> "FAILED"
      [] sender[s].at = "ok" \/ sender[s].read >= MaxAttempts -> "SENT"
      [] OTHER -> "QUEUED"

Outcome(s) ==
    CASE sender[s].at = "ok" -> "SENT"
      [] sender[s].at = "unconfigured" \/ sender[s].read >= MaxAttempts -> "FAILED"
      [] OTHER -> "QUEUED"

Record(s) ==
    /\ sender[s].at \in {"ok", "error", "unconfigured"}
    /\ outbox' = [m \in Messages |->
                 IF m \in sender[s].on THEN [outbox[m] EXCEPT !.status = Outcome(s), !.passed = FALSE] ELSE outbox[m]]
    /\ Onward(s, sender[s].todo)
    /\ UNCHANGED <<sends, persons, senderCrashes, resent>>

\* The back-off runs out, or ten minutes pass since the claim.
TimePasses(m) ==
    /\ ~outbox[m].passed
    /\ \/ outbox[m].status = "QUEUED"
       \/ outbox[m].status = "SENDING" /\ (SlowSends \/ \A s \in Senders : ~Sends(s, m))
    /\ outbox' = [outbox EXCEPT ![m].passed = TRUE]
    /\ UNCHANGED <<sends, sender, persons, senderCrashes, resent>>

-----------------------------------------------------------------------------
\* retryMessage and cancelMessage: any message that was not read as SENT
Person(s, m, what) ==
    /\ FreeSender(s) /\ persons < MaxPersons
    /\ outbox[m].status \in {"QUEUED", "SENDING", "FAILED", "CANCELLED"}
    /\ sender' = [sender EXCEPT ![s] = [WaitingSender EXCEPT !.at = what, !.on = {m}]]
    /\ persons' = persons + 1
    /\ UNCHANGED <<outbox, sends, senderCrashes, resent>>

RetryWrite(s) ==
    /\ sender[s].at = "retry"
    /\ outbox' = [m \in Messages |->
                 IF m \in sender[s].on THEN [status |-> "QUEUED", attempts |-> 0, passed |-> TRUE] ELSE outbox[m]]
    /\ Onward(s, sender[s].on)
    /\ resent' = resent \cup {m \in sender[s].on : \E t \in Senders : Sends(t, m)}
    /\ UNCHANGED <<sends, persons, senderCrashes>>

CancelWrite(s) ==
    /\ sender[s].at = "cancel"
    /\ outbox' = [m \in Messages |->
                 IF m \in sender[s].on THEN [outbox[m] EXCEPT !.status = "CANCELLED"] ELSE outbox[m]]
    /\ Onward(s, {})
    /\ UNCHANGED <<sends, persons, senderCrashes, resent>>

\* purgeSentMessages, ninety days later
Purge(m) ==
    /\ outbox[m].status = "SENT" /\ \A s \in Senders : m \notin sender[s].on \cup sender[s].todo
    /\ outbox' = [outbox EXCEPT ![m].status = "purged"]
    /\ UNCHANGED <<sends, sender, persons, senderCrashes, resent>>

SenderCrash(s) ==
    /\ ~FreeSender(s) /\ senderCrashes < MaxSenderCrashes
    /\ senderCrashes' = senderCrashes + 1
    /\ Onward(s, {})
    /\ UNCHANGED <<outbox, sends, persons, resent>>

-----------------------------------------------------------------------------
Delivery(s) == ListDue(s) \/ Claim(s) \/ Transport(s) \/ Record(s) \/ RetryWrite(s) \/ CancelWrite(s)

OutboxNext ==
    \/ \E s \in Senders, m \in Messages : Enqueue(s, m) \/ Person(s, m, "retry") \/ Person(s, m, "cancel")
    \/ \E s \in Senders : RequeueLost(s) \/ Delivery(s) \/ SenderCrash(s)
    \/ \E m \in Messages : TimePasses(m) \/ Purge(m)

OutboxSpec == OutboxInit /\ [][OutboxNext]_outboxVars

-----------------------------------------------------------------------------
\* "Claims the row (QUEUED -> SENDING) so two dispatchers never send the same
\* message": at most one session is between the claim and its outcome.
OneSender == \A s, t \in Senders : \A m \in Messages : Sends(s, m) /\ Sends(t, m) => s = t

\* Short of a slow gateway, the only way to two senders is a person who puts a message
\* back while it is being sent.
OneSenderUnlessPutBack ==
    \A s, t \in Senders : \A m \in Messages :
        Sends(s, m) /\ Sends(t, m) => s = t \/ m \in resent

\* A message is attempted max_attempts times, and once more for every dispatcher that
\* died on one, unless a person put it back while it was being sent.
AttemptsExplained ==
    \A m \in Messages : outbox[m].attempts <= MaxAttempts + senderCrashes \/ m \in resent

\* A message that is on file as SENT did go out, whatever persons and crashes do.
SentMeansSent == \A m \in Messages : outbox[m].status \in {"SENT", "purged"} => sends[m] > 0

\* The rows are well typed, their attempts accounted for, what is on file as sent was
\* sent, and no two sessions send one message unless a person put it back.
OutboxSound == OutboxTypeOK /\ AttemptsExplained /\ SentMeansSent /\ OneSenderUnlessPutBack

\* "It will not be sent": a cancelled message does not go out, and stays cancelled
\* until a person retries it.
CancelledStays ==
    [][\A m \in Messages :
        outbox[m].status = "CANCELLED" =>
            /\ sends'[m] = sends[m]
            /\ outbox'[m].status = "CANCELLED" \/ \E s \in Senders : RetryWrite(s)]_outboxVars

\* No message is forgotten: what is written is sent, cancelled, or reported FAILED.
NothingForgotten ==
    \A m \in Messages :
        (outbox[m].status \in {"QUEUED", "SENDING"}) ~> (outbox[m].status \in {"SENT", "FAILED", "CANCELLED"})
=============================================================================
