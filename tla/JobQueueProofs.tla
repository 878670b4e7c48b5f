-------------------------- MODULE JobQueueProofs --------------------------
(***************************************************************************)
(* Proofs about JobQueue, for any number of processes, requests, entries   *)
(* and administrator's changes: type correctness, and, for jobs no longer  *)
(* than the lease, that an entry never runs twice at a time and runs under *)
(* its own live lease.                                                     *)
(***************************************************************************)
EXTENDS JobQueue, TLAPS

-----------------------------------------------------------------------------
(* Types.                                                                  *)

LEMMA RestingType == Resting \in ThreadType
BY ConstantsAssumption DEF Resting, ThreadType

\* Going on to the rest of a list keeps a thread in its type.
LEMMA AfterType ==
    ASSUME TypeOK, NEW t \in Threads, NEW rest \in SUBSET Entries
    PROVE  After(t, rest) \in ThreadType
<1>1. thread[t] \in ThreadType /\ 0 \in 0 .. MaxRun
  BY ConstantsAssumption DEF TypeOK
<1>2. [thread[t] EXCEPT !.at = "next", !.todo = rest, !.on = NoEntry, !.took = 0] \in ThreadType
  BY <1>1 DEF ThreadType
<1>3. QED
  BY <1>2, RestingType DEF After

LEMMA LessType ==
    ASSUME NEW n \in Nat, NEW m \in 0 .. n
    PROVE  Less(m) \in 0 .. n /\ (m > 0 => Less(m) = m - 1)
BY DEF Less

\* A thread that is about to take the lease, or works, is on an entry.
OnEntry == \A t \in Threads : thread[t].at \in {"lease", "work"} => thread[t].on \in Entries

LEMMA InitType == Init => TypeOK /\ OnEntry
<1> SUFFICES ASSUME Init PROVE TypeOK /\ OnEntry
  OBVIOUS
<1>1. thread \in [Threads -> ThreadType]
  BY RestingType DEF Init
<1>2. entry \in [Entries -> EntryType]
  BY ConstantsAssumption DEF Init, EntryType
<1>3. running \in [Instances -> SUBSET Entries] /\ admin \in 0 .. MaxAdmin /\ crashes \in 0 .. MaxCrashes
  BY ConstantsAssumption DEF Init
<1>4. OnEntry
  BY DEF Init, OnEntry, Resting
<1>5. QED
  BY <1>1, <1>2, <1>3, <1>4 DEF TypeOK

\* Every step keeps every variable in its type.
LEMMA NextType == TypeOK /\ OnEntry /\ [Next]_vars => TypeOK' /\ OnEntry'
<1> SUFFICES ASSUME TypeOK, OnEntry, [Next]_vars PROVE TypeOK' /\ OnEntry'
  OBVIOUS
<1> USE ConstantsAssumption
<1>t. ASSUME NEW t \in Threads PROVE thread[t] \in ThreadType
  BY <1>t DEF TypeOK
<1>1. ASSUME NEW t \in Threads, Poll(t) PROVE TypeOK' /\ OnEntry'
  <2>1. [Resting EXCEPT !.at = "next", !.todo = {e \in Entries : IsDue(e)}] \in ThreadType
    BY RestingType DEF ThreadType
  <2>2. thread' = [thread EXCEPT ![t] = [Resting EXCEPT !.at = "next", !.todo = {e \in Entries : IsDue(e)}]]
    BY <1>1 DEF Poll
  <2>3. QED
    BY <2>1, <2>2, <1>1 DEF Poll, TypeOK, OnEntry, Resting
<1>2. ASSUME NEW t \in Threads, NEW e \in Entries, RunNow(t, e) PROVE TypeOK' /\ OnEntry'
  <2>1. [Resting EXCEPT !.at = "next", !.todo = {e}, !.manual = TRUE] \in ThreadType
    BY RestingType DEF ThreadType
  <2>2. QED
    BY <2>1, <1>2 DEF RunNow, TypeOK, OnEntry, Resting
<1>3. ASSUME NEW t \in Threads, Begin(t) PROVE TypeOK' /\ OnEntry'
  <2>1. PICK e \in thread[t].todo :
          thread' = [thread EXCEPT ![t] =
                      IF e \in running[Host[t]] THEN After(t, thread[t].todo \ {e})
                      ELSE [thread[t] EXCEPT !.at = "lease", !.on = e, !.todo = thread[t].todo \ {e}]]
    BY <1>3 DEF Begin
  <2>2. thread[t].todo \in SUBSET Entries
    BY <1>t DEF ThreadType
  <2>3. After(t, thread[t].todo \ {e}) \in ThreadType
    BY <2>2, AfterType
  <2>4. [thread[t] EXCEPT !.at = "lease", !.on = e, !.todo = thread[t].todo \ {e}] \in ThreadType
    BY <2>2, <1>t DEF ThreadType
  <2>5. thread' \in [Threads -> ThreadType]
    BY <2>1, <2>3, <2>4 DEF TypeOK
  <2>6. After(t, thread[t].todo \ {e}).at \notin {"lease", "work"}
    BY <1>t DEF After, Resting, ThreadType
  <2>7. OnEntry'
    BY <2>1, <2>2, <2>4, <2>6, <1>t DEF OnEntry, TypeOK, ThreadType
  <2>8. QED
    BY <2>5, <2>7, <1>3 DEF Begin, TypeOK
<1>4. ASSUME NEW t \in Threads, Acquire(t) PROVE TypeOK' /\ OnEntry'
  <2>0. thread[t].at = "lease" /\ thread[t].on \in Entries /\ Host[t] \in Instances
    BY <1>4 DEF Acquire, TakeLease, OnEntry
  <2>1. thread[t].todo \in SUBSET Entries /\ After(t, thread[t].todo) \in ThreadType
    BY <1>t, AfterType DEF ThreadType
  <2>2. After(t, thread[t].todo).at \notin {"lease", "work"}
    BY <1>t DEF After, Resting, ThreadType
  <2>3. CASE entry[thread[t].on].there /\ entry[thread[t].on].lease = 0
    <3>1. /\ entry' = [entry EXCEPT ![thread[t].on].lease = Lease + 1, ![thread[t].on].holder = Host[t]]
          /\ running' = [running EXCEPT ![Host[t]] = running[Host[t]] \cup {thread[t].on}]
          /\ thread' = [thread EXCEPT ![t].at = "work"]
      BY <2>3, <1>4 DEF Acquire, TakeLease
    <3>2. entry' \in [Entries -> EntryType]
      BY <3>1, <2>0 DEF TypeOK, EntryType
    <3>3. thread' \in [Threads -> ThreadType]
      BY <3>1, <1>t DEF TypeOK, ThreadType
    <3>4. OnEntry'
      BY <3>1, <2>0, <1>t DEF OnEntry, TypeOK, ThreadType
    <3>5. QED
      BY <3>1, <3>2, <3>3, <3>4, <2>0, <1>4 DEF Acquire, TakeLease, TypeOK
  <2>4. CASE ~(entry[thread[t].on].there /\ entry[thread[t].on].lease = 0)
    <3>1. thread' = [thread EXCEPT ![t] = After(t, thread[t].todo)] /\ UNCHANGED <<entry, running>>
      BY <2>4, <1>4 DEF Acquire, TakeLease
    <3>2. QED
      BY <3>1, <2>1, <2>2, <1>4 DEF Acquire, TakeLease, TypeOK, OnEntry
  <2>5. QED
    BY <2>3, <2>4
<1>5. ASSUME NEW t \in Threads, Finish(t) PROVE TypeOK' /\ OnEntry'
  <2>0. thread[t].at = "work" /\ thread[t].on \in Entries /\ Host[t] \in Instances
    BY <1>5 DEF Finish, OnEntry
  <2>1. thread[t].todo \in SUBSET Entries /\ After(t, thread[t].todo) \in ThreadType
    BY <1>t, AfterType DEF ThreadType
  <2>2. After(t, thread[t].todo).at \notin {"lease", "work"}
    BY <1>t DEF After, Resting, ThreadType
  <2>3. entry' \in [Entries -> EntryType]
    BY <2>0, <1>5 DEF Finish, TypeOK, EntryType
  <2>4. QED
    BY <2>0, <2>1, <2>2, <2>3, <1>5 DEF Finish, TypeOK, OnEntry
<1>6. ASSUME NEW e \in Entries, NEW ready \in BOOLEAN, SetStatus(e, ready) PROVE TypeOK' /\ OnEntry'
  <2>1. entry[e] \in EntryType /\ 0 \in 0 .. Interval
    BY DEF TypeOK
  <2>a. [entry[e] EXCEPT !.ready = ready, !.due = IF ready THEN 0 ELSE entry[e].due] \in EntryType
    BY <2>1 DEF EntryType
  <2>b. entry' = [entry EXCEPT ![e] = [entry[e] EXCEPT !.ready = ready, !.due = IF ready THEN 0 ELSE entry[e].due]]
    BY <2>1, <1>6 DEF SetStatus, TypeOK
  <2>c. entry' \in [Entries -> EntryType]
    BY <2>a, <2>b DEF TypeOK
  <2>2. QED
    BY <2>c, <1>6 DEF SetStatus, TypeOK, OnEntry
<1>7. ASSUME NEW e \in Entries, Delete(e) PROVE TypeOK' /\ OnEntry'
  <2>1. entry' \in [Entries -> EntryType]
    BY <1>7 DEF Delete, TypeOK, EntryType
  <2>2. QED
    BY <2>1, <1>7 DEF Delete, TypeOK, OnEntry
<1>8. ASSUME NEW i \in Instances, Crash(i) PROVE TypeOK' /\ OnEntry'
  <2>1. thread' \in [Threads -> ThreadType]
    BY <1>8, <1>t, RestingType DEF Crash
  <2>2. OnEntry'
    BY <1>8 DEF Crash, OnEntry, Resting
  <2>3. QED
    BY <2>1, <2>2, <1>8 DEF Crash, TypeOK
<1>9. ASSUME Tick PROVE TypeOK' /\ OnEntry'
  <2>1. entry' \in [Entries -> EntryType]
    <3>1. ASSUME NEW e \in Entries PROVE [entry[e] EXCEPT !.due = Less(entry[e].due), !.lease = Less(entry[e].lease)] \in EntryType
      <4>1. entry[e] \in EntryType
        BY DEF TypeOK
      <4>2. entry[e].due \in 0 .. Interval /\ entry[e].lease \in 0 .. Lease + 1
        BY <4>1 DEF EntryType
      <4>3. Less(entry[e].due) \in 0 .. Interval /\ Less(entry[e].lease) \in 0 .. Lease + 1
        BY <4>2, LessType, Lease + 1 \in Nat, Interval \in Nat
      <4>4. QED
        BY <4>1, <4>3 DEF EntryType
    <3>2. entry' = [e \in Entries |-> [entry[e] EXCEPT !.due = Less(entry[e].due), !.lease = Less(entry[e].lease)]]
      BY <1>9 DEF Tick
    <3>3. QED
      BY <3>1, <3>2
  <2>2. \A t \in Threads : thread'[t] \in ThreadType /\ thread'[t].at = thread[t].at /\ thread'[t].on = thread[t].on
    <3>1. ASSUME NEW t \in Threads
          PROVE  thread'[t] \in ThreadType /\ thread'[t].at = thread[t].at /\ thread'[t].on = thread[t].on
      <4>1. CASE thread[t].at = "work"
        <5>1. thread[t].took + 1 \in 0 .. MaxRun
          <6>1. thread[t].took < MaxRun
            BY <4>1, <1>9 DEF Tick
          <6>2. thread[t].took \in 0 .. MaxRun
            BY <1>t DEF ThreadType
          <6>3. QED
            BY <6>1, <6>2
        <5>2. thread'[t] = [thread[t] EXCEPT !.took = thread[t].took + 1]
          BY <4>1, <1>9 DEF Tick
        <5>3. QED
          BY <5>1, <5>2, <1>t DEF ThreadType
      <4>2. CASE thread[t].at # "work"
        BY <4>2, <1>9, <1>t DEF Tick
      <4>3. QED
        BY <4>1, <4>2
    <3>2. QED
      BY <3>1
  <2>3. thread' \in [Threads -> ThreadType]
    BY <2>2, <1>9 DEF Tick
  <2>4. QED
    BY <2>1, <2>2, <2>3, <1>9 DEF Tick, TypeOK, OnEntry
<1>10. CASE UNCHANGED vars
  BY <1>10 DEF vars, TypeOK, OnEntry
<1>11. QED
  BY <1>1, <1>2, <1>3, <1>4, <1>5, <1>6, <1>7, <1>8, <1>9, <1>10 DEF Next

\* Every reachable state is well typed.
THEOREM TypeCorrect == Spec => []TypeOK
<1>1. Spec => [](TypeOK /\ OnEntry)
  BY InitType, NextType, PTL DEF Spec
<1>2. QED
  BY <1>1, PTL

-----------------------------------------------------------------------------
(* The lease. What makes it inductive is the clock: while a thread works,  *)
(* the minutes its run has taken and the minutes left of its lease add up  *)
(* to the lease it took, so a lease can lapse only after the longest run.  *)

UnderLease ==
    \A t \in Threads :
        thread[t].at = "work" =>
            /\ entry[thread[t].on].holder = Host[t]
            /\ entry[thread[t].on].lease + thread[t].took = Lease + 1

Alone ==
    \A t, u \in Threads :
        thread[t].at = "work" /\ thread[u].at = "work" /\ thread[t].on = thread[u].on => t = u

Remembered ==
    \A i \in Instances : \A e \in running[i] :
        \E t \in Threads : Host[t] = i /\ thread[t].at = "work" /\ thread[t].on = e

\* a thread that is not working has not yet taken any time
Fresh == \A t \in Threads : thread[t].at # "work" => thread[t].took = 0

LeaseInv == TypeOK /\ OnEntry /\ UnderLease /\ Alone /\ Remembered /\ Fresh

LEMMA InitLease == Init => LeaseInv
<1> SUFFICES ASSUME Init PROVE LeaseInv
  OBVIOUS
<1>1. UnderLease /\ Alone /\ Fresh
  BY DEF Init, UnderLease, Alone, Fresh, Resting
<1>2. Remembered
  BY DEF Init, Remembered
<1>3. QED
  BY <1>1, <1>2, InitType DEF LeaseInv

\* A working thread's lease is live.
LEMMA LiveLease ==
    ASSUME LeaseInv, MaxRun <= Lease, NEW t \in Threads, thread[t].at = "work"
    PROVE  entry[thread[t].on].lease > 0
<1>1. thread[t].took \in 0 .. MaxRun /\ thread[t].on \in Entries
  BY DEF LeaseInv, TypeOK, ThreadType, OnEntry
<1>2. entry[thread[t].on].lease \in 0 .. Lease + 1
  BY <1>1 DEF LeaseInv, TypeOK, EntryType
<1>3. entry[thread[t].on].lease + thread[t].took = Lease + 1
  BY DEF LeaseInv, UnderLease
<1>4. QED
  BY <1>1, <1>2, <1>3, ConstantsAssumption

\* A step in which no thread starts or ends its work, no run takes time and no
\* lease, holder or memory changes keeps the invariant.
LEMMA NoWorkStep ==
    ASSUME LeaseInv,
           \A t \in Threads : /\ (thread'[t].at = "work") <=> (thread[t].at = "work")
                              /\ thread[t].at = "work" => thread'[t] = thread[t]
                              /\ thread[t].at # "work" => thread'[t].took = 0,
           \A e \in Entries : entry'[e].lease = entry[e].lease /\ entry'[e].holder = entry[e].holder,
           running' = running
    PROVE  UnderLease' /\ Alone' /\ Remembered' /\ Fresh'
<1>1. UnderLease'
  BY DEF LeaseInv, UnderLease, OnEntry
<1>2. Alone'
  BY DEF LeaseInv, Alone
<1>3. Remembered'
  BY DEF LeaseInv, Remembered
<1>4. Fresh'
  BY DEF Fresh
<1>5. QED
  BY <1>1, <1>2, <1>3, <1>4

\* After an entry a thread is not working, and its clock is reset.
LEMMA AfterFresh ==
    ASSUME TypeOK, NEW t \in Threads, NEW rest
    PROVE  After(t, rest).at # "work" /\ After(t, rest).took = 0
<1>1. thread[t] \in ThreadType
  BY DEF TypeOK
<1>2. QED
  BY <1>1 DEF After, Resting, ThreadType

LEMMA NextLease == MaxRun <= Lease /\ LeaseInv /\ [Next]_vars => LeaseInv'
<1> SUFFICES ASSUME MaxRun <= Lease, LeaseInv, [Next]_vars PROVE LeaseInv'
  OBVIOUS
<1> USE ConstantsAssumption
<1>a. TypeOK' /\ OnEntry'
  BY NextType DEF LeaseInv
<1>t. ASSUME NEW t \in Threads PROVE thread[t] \in ThreadType
  BY <1>t DEF LeaseInv, TypeOK
<1>f. thread \in [Threads -> ThreadType] /\ entry \in [Entries -> EntryType]
  BY DEF LeaseInv, TypeOK
<1> DEFINE Rest == UnderLease' /\ Alone' /\ Remembered' /\ Fresh'
<1>1. ASSUME NEW t \in Threads, Poll(t) PROVE Rest
  BY <1>1, <1>f, NoWorkStep DEF Poll, Resting, LeaseInv, Fresh
<1>2. ASSUME NEW t \in Threads, NEW e \in Entries, RunNow(t, e) PROVE Rest
  BY <1>2, <1>f, NoWorkStep DEF RunNow, Resting, LeaseInv, Fresh
<1>3. ASSUME NEW t \in Threads, Begin(t) PROVE Rest
  <2>1. PICK e \in thread[t].todo :
          thread' = [thread EXCEPT ![t] =
                      IF e \in running[Host[t]] THEN After(t, thread[t].todo \ {e})
                      ELSE [thread[t] EXCEPT !.at = "lease", !.on = e, !.todo = thread[t].todo \ {e}]]
    BY <1>3 DEF Begin
  <2>2. thread[t].at = "next" /\ thread[t].took = 0
    BY <1>3 DEF Begin, LeaseInv, Fresh
  <2>3. thread'[t].at # "work" /\ thread'[t].took = 0
    BY <2>1, <2>2, <1>f, <1>t, AfterFresh DEF LeaseInv, ThreadType
  <2>4. \A u \in Threads : u # t => thread'[u] = thread[u]
    BY <2>1, <1>f
  <2>5. QED
    BY <2>2, <2>3, <2>4, <1>3, NoWorkStep DEF Begin, LeaseInv, Fresh
<1>4. ASSUME NEW t \in Threads, Acquire(t) PROVE Rest
  <2>0. thread[t].at = "lease" /\ thread[t].on \in Entries /\ Host[t] \in Instances /\ thread[t].took = 0
    BY <1>4 DEF Acquire, TakeLease, LeaseInv, OnEntry, Fresh
  <2>1. CASE entry[thread[t].on].there /\ entry[thread[t].on].lease = 0
    <3> DEFINE e == thread[t].on
    <3>1. /\ entry' = [entry EXCEPT ![e].lease = Lease + 1, ![e].holder = Host[t]]
          /\ running' = [running EXCEPT ![Host[t]] = running[Host[t]] \cup {e}]
          /\ thread' = [thread EXCEPT ![t].at = "work"]
      BY <2>1, <1>4 DEF Acquire, TakeLease
    <3>2. \A u \in Threads : thread[u].at = "work" => thread[u].on # e
      BY <2>1, LiveLease
    <3>3. /\ thread'[t].at = "work" /\ thread'[t].on = e /\ thread'[t].took = 0
          /\ \A u \in Threads : u # t => thread'[u] = thread[u]
      BY <3>1, <2>0, <1>f, <1>t DEF ThreadType
    <3>4. /\ entry'[e].lease = Lease + 1 /\ entry'[e].holder = Host[t]
          /\ \A f \in Entries : f # e => entry'[f] = entry[f]
      BY <3>1, <2>0, <1>f DEF EntryType
    <3> HIDE DEF e
    <3>5. UnderLease'
      <4>1. SUFFICES ASSUME NEW u \in Threads, thread'[u].at = "work"
                     PROVE  /\ entry'[thread'[u].on].holder = Host[u]
                            /\ entry'[thread'[u].on].lease + thread'[u].took = Lease + 1
        BY DEF UnderLease
      <4>2. CASE u = t
        BY <4>2, <3>3, <3>4
      <4>3. CASE u # t
        <5>1. thread'[u] = thread[u] /\ thread[u].at = "work"
          BY <4>1, <4>3, <3>3
        <5>2. thread[u].on \in Entries /\ thread[u].on # e
          BY <5>1, <3>2 DEF LeaseInv, OnEntry
        <5>3. entry'[thread[u].on] = entry[thread[u].on]
          BY <5>2, <3>4
        <5>4. QED
          BY <5>1, <5>3 DEF LeaseInv, UnderLease
      <4>4. QED
        BY <4>2, <4>3
    <3>6. Alone'
      BY <3>2, <3>3 DEF Alone, LeaseInv
    <3>7. Remembered'
      BY <3>1, <3>3, <2>0 DEF Remembered, LeaseInv, TypeOK
    <3>8. Fresh'
      BY <3>3 DEF Fresh, LeaseInv
    <3>9. QED
      BY <3>5, <3>6, <3>7, <3>8
  <2>2. CASE ~(entry[thread[t].on].there /\ entry[thread[t].on].lease = 0)
    <3>1. thread' = [thread EXCEPT ![t] = After(t, thread[t].todo)] /\ UNCHANGED <<entry, running>>
      BY <2>2, <1>4 DEF Acquire, TakeLease
    <3>2. thread'[t].at # "work" /\ thread'[t].took = 0
      BY <3>1, <1>f, AfterFresh DEF LeaseInv
    <3>3. QED
      BY <3>1, <3>2, <2>0, <1>f, NoWorkStep DEF LeaseInv, Fresh
  <2>3. QED
    BY <2>1, <2>2
<1>5. ASSUME NEW t \in Threads, Finish(t) PROVE Rest
  <2> DEFINE e == thread[t].on
  <2>0. thread[t].at = "work" /\ e \in Entries /\ Host[t] \in Instances
    BY <1>5 DEF Finish, LeaseInv, OnEntry
  <2>1. thread'[t].at # "work" /\ thread'[t].took = 0 /\ \A u \in Threads : u # t => thread'[u] = thread[u]
    BY <1>5, <1>f, AfterFresh DEF Finish, LeaseInv
  <2>2. \A u \in Threads : u # t /\ thread[u].at = "work" => thread[u].on # e
    BY <2>0 DEF LeaseInv, Alone
  <2>3. \A f \in Entries : f # e => entry'[f] = entry[f]
    BY <1>5, <1>f DEF Finish
  <2>4. running' = [running EXCEPT ![Host[t]] = running[Host[t]] \ {e}]
    BY <1>5 DEF Finish
  <2> HIDE DEF e
  <2>5. UnderLease'
    <3>1. SUFFICES ASSUME NEW u \in Threads, thread'[u].at = "work"
                   PROVE  /\ entry'[thread'[u].on].holder = Host[u]
                          /\ entry'[thread'[u].on].lease + thread'[u].took = Lease + 1
      BY DEF UnderLease
    <3>2. u # t /\ thread'[u] = thread[u] /\ thread[u].at = "work"
      BY <3>1, <2>1
    <3>3. thread[u].on \in Entries /\ thread[u].on # e
      BY <3>2, <2>2 DEF LeaseInv, OnEntry
    <3>4. entry'[thread[u].on] = entry[thread[u].on]
      BY <3>3, <2>3
    <3>5. QED
      BY <3>2, <3>4 DEF LeaseInv, UnderLease
  <2>6. Alone'
    BY <2>1 DEF Alone, LeaseInv
  <2>7. Remembered'
    <3>1. SUFFICES ASSUME NEW i \in Instances, NEW f \in running'[i]
                   PROVE  \E u \in Threads : Host[u] = i /\ thread'[u].at = "work" /\ thread'[u].on = f
      BY DEF Remembered
    <3>2. f \in running[i] /\ (i = Host[t] => f # e)
      BY <2>4, <2>0 DEF LeaseInv, TypeOK
    <3>3. PICK u \in Threads : Host[u] = i /\ thread[u].at = "work" /\ thread[u].on = f
      BY <3>2 DEF Remembered, LeaseInv
    <3>4. u # t
      BY <3>2, <3>3 DEF e
    <3>5. QED
      BY <3>3, <3>4, <2>1
  <2>8. Fresh'
    BY <2>1 DEF Fresh, LeaseInv
  <2>9. QED
    BY <2>5, <2>6, <2>7, <2>8
<1>6. ASSUME NEW e \in Entries, NEW ready \in BOOLEAN, SetStatus(e, ready) PROVE Rest
  <2>1. \A f \in Entries : entry'[f].lease = entry[f].lease /\ entry'[f].holder = entry[f].holder
    BY <1>6, <1>f DEF SetStatus, EntryType
  <2>2. thread' = thread /\ running' = running
    BY <1>6 DEF SetStatus
  <2>3. QED
    BY <2>1, <2>2, NoWorkStep DEF LeaseInv, Fresh
<1>7. ASSUME NEW e \in Entries, Delete(e) PROVE Rest
  <2>1. \A f \in Entries : entry'[f].lease = entry[f].lease /\ entry'[f].holder = entry[f].holder
    BY <1>7, <1>f DEF Delete, EntryType
  <2>2. thread' = thread /\ running' = running
    BY <1>7 DEF Delete
  <2>3. QED
    BY <2>1, <2>2, NoWorkStep DEF LeaseInv, Fresh
<1>8. ASSUME NEW i \in Instances, Crash(i) PROVE Rest
  <2>1. \A u \in Threads : /\ Host[u] = i => thread'[u].at # "work" /\ thread'[u].took = 0
                           /\ Host[u] # i => thread'[u] = thread[u]
    BY <1>8 DEF Crash, Resting
  <2>2. UnderLease' /\ Alone' /\ Fresh'
    BY <2>1, <1>8 DEF Crash, UnderLease, Alone, Fresh, LeaseInv
  <2>3. Remembered'
    BY <2>1, <1>8 DEF Crash, Remembered, LeaseInv, TypeOK
  <2>4. QED
    BY <2>2, <2>3
<1>9. ASSUME Tick PROVE Rest
  <2>1. \A u \in Threads : /\ thread'[u].at = thread[u].at /\ thread'[u].on = thread[u].on
                           /\ thread'[u].took = IF thread[u].at = "work" THEN thread[u].took + 1
                                                ELSE thread[u].took
    BY <1>9, <1>t DEF Tick, ThreadType
  <2>2. ASSUME NEW e \in Entries
        PROVE  /\ entry'[e].holder = entry[e].holder
               /\ entry[e].lease > 0 => entry'[e].lease = entry[e].lease - 1
    <3>1. entry[e] \in EntryType
      BY <1>f
    <3>2. entry'[e] = [entry[e] EXCEPT !.due = Less(entry[e].due), !.lease = Less(entry[e].lease)]
      BY <1>9 DEF Tick
    <3>3. entry'[e].holder = entry[e].holder /\ entry'[e].lease = Less(entry[e].lease)
      BY <3>1, <3>2 DEF EntryType
    <3>4. QED
      BY <3>3 DEF Less
  <2>3. UnderLease'
    <3>1. SUFFICES ASSUME NEW t \in Threads, thread'[t].at = "work"
                   PROVE  /\ entry'[thread'[t].on].holder = Host[t]
                          /\ entry'[thread'[t].on].lease + thread'[t].took = Lease + 1
      BY DEF UnderLease
    <3>a. thread[t].at = "work"
      BY <3>1, <2>1
    <3>b. thread[t].on \in Entries
      BY <3>a DEF LeaseInv, OnEntry
    <3>c. thread[t].took \in 0 .. MaxRun
      BY <1>t DEF ThreadType
    <3>2. thread[t].at = "work" /\ thread[t].on \in Entries /\ thread[t].took \in Nat
      BY <3>a, <3>b, <3>c
    <3>d. entry[thread[t].on] \in EntryType
      BY <3>b, <1>f
    <3>e. entry[thread[t].on].lease \in 0 .. Lease + 1
      BY <3>d DEF EntryType
    <3>f. entry[thread[t].on].lease > 0
      BY <3>a, LiveLease
    <3>3. entry[thread[t].on].lease > 0 /\ entry[thread[t].on].lease \in Nat
      BY <3>e, <3>f
    <3>4. /\ entry[thread[t].on].holder = Host[t]
          /\ entry[thread[t].on].lease + thread[t].took = Lease + 1
      BY <3>2 DEF LeaseInv, UnderLease
    <3>5. /\ entry'[thread[t].on].holder = Host[t]
          /\ entry'[thread[t].on].lease = entry[thread[t].on].lease - 1
      BY <3>2, <3>3, <3>4, <2>2
    <3>6. thread'[t].on = thread[t].on /\ thread'[t].took = thread[t].took + 1
      BY <3>a, <2>1
    <3>7. QED
      BY <3>2, <3>3, <3>4, <3>5, <3>6
  <2>4. Alone' /\ Fresh'
    BY <2>1 DEF Alone, Fresh, LeaseInv
  <2>5. Remembered'
    <3>1. running' = running
      BY <1>9 DEF Tick
    <3>2. QED
      BY <2>1, <3>1 DEF Remembered, LeaseInv
  <2>6. QED
    BY <2>3, <2>4, <2>5
<1>10. ASSUME UNCHANGED vars PROVE Rest
  BY <1>10 DEF vars, LeaseInv, UnderLease, Alone, Remembered, Fresh
<1> HIDE DEF Rest
<1>11. Rest
  BY <1>1, <1>2, <1>3, <1>4, <1>5, <1>6, <1>7, <1>8, <1>9, <1>10 DEF Next, Rest
<1>12. QED
  BY <1>a, <1>11 DEF LeaseInv, Rest

LEMMA LeaseInvariant ==
    ASSUME MaxRun <= Lease
    PROVE  Spec => []LeaseInv
<1>1. LeaseInv /\ [Next]_vars => LeaseInv'
  BY NextLease
<1>2. QED
  BY <1>1, InitLease, PTL DEF Spec

\* If no job takes longer than the lease, no entry is run by two requests or
\* processes at a time, however polls, "Run now", deaths and changes interleave.
THEOREM LeaseExcludes ==
    ASSUME MaxRun <= Lease
    PROVE  Spec => []OneRunAtATime
<1>1. LeaseInv => OneRunAtATime
  BY DEF LeaseInv, Alone, OneRunAtATime, Works
<1>2. QED
  BY <1>1, LeaseInvariant, PTL

\* ... every run is under a live lease of its own process, and what a process
\* remembers to be running is what it runs.
THEOREM LeaseCovers ==
    ASSUME MaxRun <= Lease
    PROVE  Spec => []RunsUnderItsLease
<1>1. LeaseInv => RunsUnderItsLease
  BY LiveLease DEF LeaseInv, UnderLease, Remembered, RunsUnderItsLease, Works
<1>2. QED
  BY <1>1, LeaseInvariant, PTL

-----------------------------------------------------------------------------
\* A step after which only those run who ran before, on the same entry, gives up.
LEMMA OnlyGivenUp ==
    ASSUME \A t \in Threads : thread'[t].at = "work" =>
               thread[t].at = "work" /\ thread'[t].on = thread[t].on
    PROVE  Runs' \subseteq Runs
BY DEF Runs, Running

LEMMA StepIsLockStep ==
    MaxRun <= Lease /\ LeaseInv /\ [Next]_vars => [Lock!Next]_Runs
<1> SUFFICES ASSUME MaxRun <= Lease, LeaseInv, [Next]_vars PROVE Lock!Next
  OBVIOUS
<1> DEFINE Fewer == \A u \in Threads : thread'[u].at = "work" =>
                        thread[u].at = "work" /\ thread'[u].on = thread[u].on
<1>t. ASSUME NEW t \in Threads PROVE thread[t] \in ThreadType
  BY <1>t DEF LeaseInv, TypeOK
<1>f. thread \in [Threads -> ThreadType]
  BY DEF LeaseInv, TypeOK
<1>g. Fewer => Lock!Next
  BY OnlyGivenUp DEF Lock!Next, Lock!GiveUp
<1>1. ASSUME NEW t \in Threads, Poll(t) PROVE Fewer
  BY <1>1, <1>f DEF Poll, Resting
<1>2. ASSUME NEW t \in Threads, NEW e \in Entries, RunNow(t, e) PROVE Fewer
  BY <1>2, <1>f DEF RunNow, Resting
<1>3. ASSUME NEW t \in Threads, Begin(t) PROVE Fewer
  <2>1. PICK e \in thread[t].todo :
          thread' = [thread EXCEPT ![t] =
                      IF e \in running[Host[t]] THEN After(t, thread[t].todo \ {e})
                      ELSE [thread[t] EXCEPT !.at = "lease", !.on = e, !.todo = thread[t].todo \ {e}]]
    BY <1>3 DEF Begin
  <2>2. thread'[t].at # "work"
    BY <2>1, <1>f, <1>t, AfterFresh DEF LeaseInv, ThreadType
  <2>3. QED
    BY <2>1, <2>2, <1>f
<1>4. ASSUME NEW t \in Threads, Acquire(t) PROVE Lock!Next
  <2> DEFINE e == thread[t].on
  <2>0. e \in Entries
    BY <1>4 DEF Acquire, TakeLease, LeaseInv, OnEntry
  <2>1. CASE entry[e].there /\ entry[e].lease = 0
    <3>1. thread' = [thread EXCEPT ![t].at = "work"]
      BY <2>1, <1>4 DEF Acquire, TakeLease
    <3>2. \A u \in Threads : thread[u].at = "work" => thread[u].on # e
      BY <2>1, LiveLease
    <3>3. /\ thread'[t].at = "work" /\ thread'[t].on = e
          /\ \A u \in Threads : u # t => thread'[u] = thread[u]
      BY <3>1, <1>f, <1>t DEF ThreadType
    <3>4. thread[t].at # "work"
      BY <1>4 DEF Acquire, TakeLease
    <3>5. Runs' = Runs \cup {<<t, e>>}
      BY <3>3, <3>4 DEF Runs, Running
    <3>6. \A u \in Threads : <<u, e>> \notin Runs
      BY <3>2 DEF Runs, Running
    <3>7. QED
      BY <3>5, <3>6, <2>0 DEF Lock!Next, Lock!Take
  <2>2. CASE ~(entry[e].there /\ entry[e].lease = 0)
    <3>1. thread' = [thread EXCEPT ![t] = After(t, thread[t].todo)]
      BY <2>2, <1>4 DEF Acquire, TakeLease
    <3>2. thread'[t].at # "work"
      BY <3>1, <1>f, AfterFresh DEF LeaseInv
    <3>3. Fewer
      BY <3>1, <3>2, <1>f
    <3>4. QED
      BY <3>3, <1>g
  <2>3. QED
    BY <2>1, <2>2
<1>5. ASSUME NEW t \in Threads, Finish(t) PROVE Fewer
  <2>1. thread' = [thread EXCEPT ![t] = After(t, thread[t].todo)]
    BY <1>5 DEF Finish
  <2>2. thread'[t].at # "work"
    BY <2>1, <1>f, AfterFresh DEF LeaseInv
  <2>3. QED
    BY <2>1, <2>2, <1>f
<1>6. ASSUME NEW e \in Entries, NEW ready \in BOOLEAN, SetStatus(e, ready) PROVE Fewer
  BY <1>6 DEF SetStatus
<1>7. ASSUME NEW e \in Entries, Delete(e) PROVE Fewer
  BY <1>7 DEF Delete
<1>8. ASSUME NEW i \in Instances, Crash(i) PROVE Fewer
  BY <1>8 DEF Crash, Resting
<1>9. ASSUME Tick PROVE Fewer
  BY <1>9, <1>t DEF Tick, ThreadType
<1>10. ASSUME UNCHANGED vars PROVE Fewer
  BY <1>10 DEF vars
<1> HIDE DEF Fewer
<1>11. QED
  BY <1>g, <1>1, <1>2, <1>3, <1>4, <1>5, <1>6, <1>7, <1>8, <1>9, <1>10 DEF Next

\* If no job takes longer than the lease, the job queue implements a lock on each of
\* its entries.
THEOREM QueueIsLock ==
    ASSUME MaxRun <= Lease
    PROVE  Spec => LocksEntries
<1>1. Init => Lock!Init
  BY DEF Init, Lock!Init, Runs, Running, Resting
<1>2. LeaseInv /\ [Next]_vars => [Lock!Next]_Runs
  BY StepIsLockStep
<1>3. QED
  BY <1>1, <1>2, LeaseInvariant, PTL DEF Spec, LocksEntries, Lock!Spec
=============================================================================
