------------------------------ MODULE JobQueue ------------------------------
(***************************************************************************)
(* The recurring background jobs (lib/jobQueue.ts): every minute each      *)
(* server process reads the entries that are due and runs them one after   *)
(* the other under a database lease; a person may run one at once.         *)
(*                                                                         *)
(* The clock is a set of countdowns: minutes until an entry is due, until  *)
(* its lease has lapsed, and how long a run has taken so far.              *)
(***************************************************************************)
EXTENDS Integers

CONSTANTS
    Entries,    \* ids of job_queue_entry rows
    Instances,  \* server processes
    Threads,    \* polls and requests being served
    Host,       \* the process each thread runs in
    Lease,      \* LEASE_MINUTES
    Interval,   \* run_every_minutes
    MaxRun,     \* bound on how long a job takes
    MaxAdmin,   \* bound on changes by an administrator
    MaxCrashes  \* bound on process deaths

ASSUME ConstantsAssumption ==
    /\ Entries \subseteq Nat \ {0} /\ Host \in [Threads -> Instances]
    /\ Lease \in Nat \ {0} /\ Interval \in Nat \ {0} /\ MaxRun \in Nat
    /\ MaxAdmin \in Nat /\ MaxCrashes \in Nat

VARIABLES
    entry,    \* job_queue_entry
    running,  \* the in-memory set of each process
    thread,   \* where each poll or request is
    admin, crashes

vars == <<entry, running, thread, admin, crashes>>

NoOne == "no one"
NoEntry == 0
EntryType ==
    [there : BOOLEAN, ready : BOOLEAN, due : 0 .. Interval,
     lease : 0 .. Lease + 1, holder : Instances \cup {NoOne}]
ThreadType ==
    [at : {"idle", "next", "lease", "work"}, todo : SUBSET Entries, on : Entries \cup {NoEntry},
     manual : BOOLEAN, took : 0 .. MaxRun]

TypeOK ==
    /\ entry \in [Entries -> EntryType]
    /\ running \in [Instances -> SUBSET Entries]
    /\ thread \in [Threads -> ThreadType]
    /\ admin \in 0 .. MaxAdmin /\ crashes \in 0 .. MaxCrashes

Resting == [at |-> "idle", todo |-> {}, on |-> NoEntry, manual |-> FALSE, took |-> 0]

\* createJobQueueEntry: a new entry is on hold and due at once
Init ==
    /\ entry = [e \in Entries |-> [there |-> TRUE, ready |-> FALSE, due |-> 0,
                                   lease |-> 0, holder |-> NoOne]]
    /\ running = [i \in Instances |-> {}]
    /\ thread = [t \in Threads |-> Resting]
    /\ admin = 0 /\ crashes = 0

IsDue(e) == entry[e].there /\ entry[e].ready /\ entry[e].due = 0
Works(t, e) == thread[t].at = "work" /\ thread[t].on = e

-----------------------------------------------------------------------------
\* runDueJobQueueEntries reads the list of due entries once.
Poll(t) ==
    LET due == {e \in Entries : IsDue(e)} IN
    /\ thread[t].at = "idle" /\ due # {}
    /\ thread' = [thread EXCEPT ![t] = [Resting EXCEPT !.at = "next", !.todo = due]]
    /\ UNCHANGED <<entry, running, admin, crashes>>

\* runJobQueueEntryNow: whatever its status, unless it is seen running
RunNow(t, e) ==
    /\ thread[t].at = "idle" /\ entry[e].there
    /\ e \notin running[Host[t]] /\ entry[e].lease = 0
    /\ thread' = [thread EXCEPT ![t] = [Resting EXCEPT !.at = "next", !.todo = {e}, !.manual = TRUE]]
    /\ UNCHANGED <<entry, running, admin, crashes>>

\* what the thread does after an entry: the next of its list, or it is through
After(t, rest) ==
    IF rest = {} THEN Resting
    ELSE [thread[t] EXCEPT !.at = "next", !.todo = rest, !.on = NoEntry, !.took = 0]

\* execute: in the order of the ids; an entry this process already runs is passed over
Begin(t) ==
    /\ thread[t].at = "next"
    /\ \E e \in thread[t].todo :
        /\ \A f \in thread[t].todo : e <= f
        /\ thread' = [thread EXCEPT ![t] =
                        IF e \in running[Host[t]] THEN After(t, thread[t].todo \ {e})
                        ELSE [thread[t] EXCEPT !.at = "lease", !.on = e, !.todo = thread[t].todo \ {e}]]
    /\ UNCHANGED <<entry, running, admin, crashes>>

\* acquireLease: one UPDATE that succeeds only while nobody holds a live lease
\* (first with defects: the lease is taken whoever holds it; only a free one is)
TakeLease(t, free) ==
    LET e == thread[t].on
        i == Host[t] IN
    /\ thread[t].at = "lease"
    /\ IF entry[e].there /\ free
       THEN /\ entry' = [entry EXCEPT ![e].lease = Lease + 1, ![e].holder = i]
            /\ running' = [running EXCEPT ![i] = @ \cup {e}]
            /\ thread' = [thread EXCEPT ![t].at = "work"]
       ELSE thread' = [thread EXCEPT ![t] = After(t, thread[t].todo)] /\ UNCHANGED <<entry, running>>
    /\ UNCHANGED <<admin, crashes>>

AcquireAlways(t) == TakeLease(t, TRUE)
AcquireUnheld(t) == TakeLease(t, entry[thread[t].on].holder = NoOne)
Acquire(t) == TakeLease(t, entry[thread[t].on].lease = 0)

\* The job ends, well or in error: the next run is set and the lease cleared, by id.
Finish(t) ==
    LET e == thread[t].on IN
    /\ thread[t].at = "work"
    /\ entry' = [entry EXCEPT ![e].due = Interval, ![e].lease = 0, ![e].holder = NoOne]
    /\ running' = [running EXCEPT ![Host[t]] = @ \ {e}]
    /\ thread' = [thread EXCEPT ![t] = After(t, thread[t].todo)]
    /\ UNCHANGED <<admin, crashes>>

-----------------------------------------------------------------------------
\* setJobQueueEntryStatus: ready makes it due at once
SetStatus(e, ready) ==
    /\ admin < MaxAdmin /\ entry[e].there
    /\ entry' = [entry EXCEPT ![e].ready = ready, ![e].due = IF ready THEN 0 ELSE entry[e].due]
    /\ admin' = admin + 1
    /\ UNCHANGED <<running, thread, crashes>>

Delete(e) ==
    /\ admin < MaxAdmin /\ entry[e].there
    /\ entry' = [entry EXCEPT ![e].there = FALSE]
    /\ admin' = admin + 1
    /\ UNCHANGED <<running, thread, crashes>>

\* A process dies with everything it was doing, and is started again.
Crash(i) ==
    /\ crashes < MaxCrashes
    /\ \E t \in Threads : Host[t] = i /\ thread[t].at # "idle"
    /\ running' = [running EXCEPT ![i] = {}]
    /\ thread' = [t \in Threads |-> IF Host[t] = i THEN Resting ELSE thread[t]]
    /\ crashes' = crashes + 1
    /\ UNCHANGED <<entry, admin>>

Less(n) == IF n = 0 THEN 0 ELSE n - 1

\* A minute passes; no job takes longer than MaxRun.
Tick ==
    /\ \A t \in Threads : thread[t].at = "work" => thread[t].took < MaxRun
    /\ entry' = [e \in Entries |-> [entry[e] EXCEPT !.due = Less(entry[e].due), !.lease = Less(entry[e].lease)]]
    /\ thread' = [t \in Threads |->
                    IF thread[t].at = "work" THEN [thread[t] EXCEPT !.took = thread[t].took + 1] ELSE thread[t]]
    /\ UNCHANGED <<running, admin, crashes>>

Next ==
    \/ \E t \in Threads : Poll(t) \/ Begin(t) \/ Acquire(t) \/ Finish(t)
    \/ \E t \in Threads, e \in Entries : RunNow(t, e)
    \/ \E e \in Entries, ready \in BOOLEAN : SetStatus(e, ready)
    \/ \E e \in Entries : Delete(e)
    \/ \E i \in Instances : Crash(i)
    \/ Tick

Spec == Init /\ [][Next]_vars

\* The timer fires for ever, whether or not people start entries by hand meanwhile
\* (hence SF: a thread busy with those comes free again and again), time passes, and
\* what has begun goes on.
LiveSpec ==
    /\ Spec /\ WF_vars(Tick)
    /\ \A t \in Threads :
        SF_vars(Poll(t)) /\ WF_vars(Begin(t)) /\ WF_vars(Acquire(t)) /\ WF_vars(Finish(t))

-----------------------------------------------------------------------------
\* "two application instances polling the same table (or the poller and a 'Run
\* now' click on another instance) cannot both run it"
OneRunAtATime ==
    \A t, u \in Threads : \A e \in Entries : Works(t, e) /\ Works(u, e) => t = u

\* The queue implements a lock on every entry: it is taken when its job starts, only
\* while nobody runs it, and given up at the end or when the process dies.
Running == {t \in Threads : thread[t].at = "work"}
Runs == {<<t, thread[t].on>> : t \in Running}
Lock == INSTANCE Exclusion WITH Holders <- Threads, Resources <- Entries, holds <- Runs
LocksEntries == Lock!Spec

\* While an entry runs, its lease is live and belongs to that process, and a
\* process remembers exactly what it is running.
RunsUnderItsLease ==
    /\ \A t \in Threads : \A e \in Entries :
        Works(t, e) => entry[e].lease > 0 /\ entry[e].holder = Host[t]
    /\ \A i \in Instances : \A e \in running[i] : \E t \in Threads : Host[t] = i /\ Works(t, e)

\* "Picks up every READY entry ... whose next_run_at is due": an unattended run
\* starts only on an entry that is ready and due at that moment.
UnattendedWhenDue ==
    [][\A t \in Threads :
        thread[t].at = "lease" /\ thread'[t].at = "work" /\ ~thread[t].manual
            => IsDue(thread[t].on)]_vars

\* An entry that is ready is run, again and again, even after a process died
\* holding its lease, until it is put on hold or deleted.
ReadyRuns ==
    \A e \in Entries :
        (entry[e].there /\ entry[e].ready) ~>
            (~entry[e].ready \/ ~entry[e].there \/ \E t \in Threads : Works(t, e))
=============================================================================
