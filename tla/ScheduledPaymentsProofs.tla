---------------------- MODULE ScheduledPaymentsProofs ----------------------
(* Theorems about ScheduledPayments, for every value of its constants. *)
EXTENDS ScheduledPayments, Integers, TLAPS

Busy(w) ==
  sweep[w].pc \in {"insert", "execute", "recordSuccess", "recordFailure"}

\* A sweep past "take" has a schedule in hand.
InHand == \A w \in Sweeps : Busy(w) => sweep[w].current \in Schedules

SInv == SchedulesTypeOK /\ InHand

\* A fresh sweep has the shape of a sweep.
LEMMA NoSweepType == NoSweep \in Sweep /\ NoSweep.pc = "idle"
BY DEF NoSweep, Sweep

\* Going on with the list, or ending the task, leaves no schedule in hand.
LEMMA ContinueType ==
  ASSUME SInv, NEW w \in Sweeps, Continue(w)
  PROVE  sweep' \in [Sweeps -> Sweep] /\ InHand'
<1> DEFINE new == IF sweep[w].todo = {} THEN NoSweep
                  ELSE [sweep[w] EXCEPT !.pc = "take", !.current = Nothing]
<1>1. new \in Sweep /\ new.pc \in {"idle", "take"}
  BY NoSweepType DEF SInv, SchedulesTypeOK, Sweep
<1>2. sweep' = [sweep EXCEPT ![w] = new]
  BY DEF Continue
<1> HIDE DEF new
<1>3. sweep' \in [Sweeps -> Sweep]
  BY <1>1, <1>2 DEF SInv, SchedulesTypeOK
<1>4. InHand'
  BY <1>1, <1>2 DEF SInv, SchedulesTypeOK, InHand, Busy
<1> QED
  BY <1>3, <1>4

\* A step of one sweep that gives it the state "new".
LEMMA SweepMoves ==
  ASSUME SInv, NEW w \in Sweeps, NEW new \in Sweep,
         sweep' = [sweep EXCEPT ![w] = new],
         new.pc \in {"insert", "execute", "recordSuccess", "recordFailure"}
           => new.current \in Schedules
  PROVE  sweep' \in [Sweeps -> Sweep] /\ InHand'
BY DEF SInv, SchedulesTypeOK, InHand, Busy

\* Everything starts empty and well shaped.
LEMMA SInvInit == InitSchedules => SInv
<1> SUFFICES ASSUME InitSchedules PROVE SInv
  OBVIOUS
<1>1. schedule \in [Schedules -> Schedule]
  BY DEF InitSchedules, NoSchedule, Schedule
<1>2. sweep \in [Sweeps -> Sweep] /\ InHand
  BY NoSweepType DEF InitSchedules, InHand, Busy
<1> QED
  BY <1>1, <1>2, SchedulesAssumption DEF InitSchedules, SInv, SchedulesTypeOK

\* SInv is inductive.
LEMMA SInvNext == SInv /\ [NextSchedules]_scheduleVars => SInv'
<1> SUFFICES ASSUME SInv, [NextSchedules]_scheduleVars PROVE SInv'
  OBVIOUS
<1> USE SchedulesAssumption DEF SInv
<1>1. ASSUME NEW s \in Schedules, Cancel(s) PROVE SInv'
  <2>1. schedule' \in [Schedules -> Schedule]
    BY <1>1 DEF Cancel, SchedulesTypeOK, Schedule
  <2> QED
    BY <1>1, <2>1 DEF Cancel, SchedulesTypeOK, InHand, Busy
<1>2. ASSUME NEW s \in Schedules, NEW d \in 0..(today + 1), Create(s, d)
      PROVE  SInv'
  <2>1. d \in Nat
    BY DEF SchedulesTypeOK
  <2>2. schedule' \in [Schedules -> Schedule]
    BY <1>2, <2>1 DEF Create, SchedulesTypeOK, Schedule
  <2> QED
    BY <1>2, <2>2 DEF Create, SchedulesTypeOK, InHand, Busy
<1>3. ASSUME NEW w \in Sweeps, Begin(w) PROVE SInv'
  <2> DEFINE new == [pc |-> "take", todo |-> Due, current |-> Nothing,
                     seen |-> [s \in Schedules |-> schedule[s].next]]
  <2>1. new \in Sweep /\ new.pc = "take"
    BY DEF SchedulesTypeOK, Sweep, Schedule, Due
  <2>2. sweep' = [sweep EXCEPT ![w] = new]
    BY <1>3 DEF Begin
  <2> HIDE DEF new
  <2>3. sweep' \in [Sweeps -> Sweep] /\ InHand'
    BY <2>1, <2>2, SweepMoves
  <2> QED
    BY <1>3, <2>3 DEF Begin, SchedulesTypeOK
<1>4. ASSUME NEW w \in Sweeps, SweepStep(w) PROVE SInv'
  <2>t. sweep[w] \in Sweep /\ (Busy(w) => sweep[w].current \in Schedules)
    BY DEF SchedulesTypeOK, InHand
  <2>1. ASSUME NEW s \in Schedules, Take(w, s) PROVE SInv'
    <3>1. PICK pc \in {"insert", "recordFailure"} :
            sweep' = [sweep EXCEPT ![w].todo = @ \ {s}, ![w].current = s,
                                   ![w].pc = pc]
      BY <2>1 DEF Take
    <3> DEFINE new == [sweep[w] EXCEPT !.todo = @ \ {s}, !.current = s, !.pc = pc]
    <3>2. new \in Sweep /\ new.current = s
      BY <2>t DEF Sweep
    <3>3. sweep' = [sweep EXCEPT ![w] = new]
      BY <3>1 DEF SchedulesTypeOK
    <3> HIDE DEF new
    <3>4. sweep' \in [Sweeps -> Sweep] /\ InHand'
      BY <3>2, <3>3, SweepMoves
    <3> QED
      BY <2>1, <3>4 DEF Take, SchedulesTypeOK
  <2>2. CASE Insert(w)
    <3> DEFINE new == [sweep[w] EXCEPT !.pc = "execute"]
    <3>1. new \in Sweep /\ new.current \in Schedules
      BY <2>2, <2>t DEF Insert, Busy, Sweep
    <3>2. sweep' = [sweep EXCEPT ![w] = new]
      BY <2>2 DEF Insert, SchedulesTypeOK
    <3> HIDE DEF new
    <3>3. sweep' \in [Sweeps -> Sweep] /\ InHand'
      BY <3>1, <3>2, SweepMoves
    <3> QED
      BY <2>2, <3>3 DEF Insert, SchedulesTypeOK
  <2>3. CASE Pay(w)
    <3> DEFINE new == [sweep[w] EXCEPT !.pc = "recordSuccess"]
               s == sweep[w].current
    <3>1. new \in Sweep /\ new.current \in Schedules /\ s \in Schedules
      BY <2>3, <2>t DEF Pay, Busy, Sweep
    <3>2. sweep' = [sweep EXCEPT ![w] = new]
      BY <2>3 DEF Pay, SchedulesTypeOK
    <3>3. paid' \in [Schedules -> Nat]
      BY <2>3, <3>1 DEF Pay, SchedulesTypeOK
    <3>4. balance' \in [Accounts -> Nat]
      <4>1. /\ From[s] \in Accounts /\ To[s] \in Accounts /\ Amount[s] \in Nat
            /\ balance[From[s]] >= Amount[s]
        BY <2>3, <3>1 DEF Pay, Payable
      <4> HIDE DEF s
      <4>2. balance' = [a \in Accounts |->
                          balance[a] - (IF a = From[s] THEN Amount[s] ELSE 0)
                                     + (IF a = To[s] THEN Amount[s] ELSE 0)]
        BY <2>3 DEF Pay, s
      <4>3. \A a \in Accounts :
              balance[a] - (IF a = From[s] THEN Amount[s] ELSE 0)
                         + (IF a = To[s] THEN Amount[s] ELSE 0) \in Nat
        BY <4>1 DEF SchedulesTypeOK
      <4> QED
        BY <4>2, <4>3
    <3> HIDE DEF new
    <3>5. sweep' \in [Sweeps -> Sweep] /\ InHand'
      BY <3>1, <3>2, SweepMoves
    <3> QED
      BY <2>3, <3>3, <3>4, <3>5 DEF Pay, SchedulesTypeOK
  <2>4. CASE PayAborted(w)
    <3>1. sweep' \in [Sweeps -> Sweep] /\ InHand'
      BY <2>4, NoSweepType, SweepMoves DEF PayAborted
    <3> QED
      BY <2>4, <3>1 DEF PayAborted, SchedulesTypeOK
  <2>5. CASE RecordSuccess(w) \/ RecordFailure(w)
    <3> DEFINE s == sweep[w].current
    <3>1. s \in Schedules /\ NextRun(w) \in Nat
      BY <2>5, <2>t DEF RecordSuccess, RecordFailure, Busy, NextRun, Sweep
    <3>2. PICK f \in BOOLEAN :
            schedule' = [schedule EXCEPT ![s].next = NextRun(w), ![s].failed = f]
      BY <2>5 DEF RecordSuccess, RecordFailure
    <3> DEFINE row == [schedule[s] EXCEPT !.next = NextRun(w), !.failed = f]
    <3>r. schedule[s] \in Schedule
      BY <3>1 DEF SchedulesTypeOK
    <3>a. row \in Schedule
      BY <3>1, <3>r DEF Schedule
    <3>b. schedule' = [schedule EXCEPT ![s] = row]
      BY <3>1, <3>2 DEF SchedulesTypeOK
    <3> HIDE DEF row
    <3>3. schedule' \in [Schedules -> Schedule]
      BY <3>1, <3>a, <3>b DEF SchedulesTypeOK
    <3>4. sweep' \in [Sweeps -> Sweep] /\ InHand'
      BY <2>5, ContinueType DEF RecordSuccess, RecordFailure
    <3> QED
      BY <2>5, <3>3, <3>4 DEF RecordSuccess, RecordFailure, SchedulesTypeOK
  <2> QED
    BY <1>4, <2>1, <2>2, <2>3, <2>4, <2>5 DEF SweepStep
<1>5. ASSUME NEW w \in Sweeps, Interrupt(w) PROVE SInv'
  <2>1. sweep' \in [Sweeps -> Sweep] /\ InHand'
    BY <1>5, NoSweepType, SweepMoves DEF Interrupt
  <2>2. interrupted' \in 0..MaxInterruptions
    BY <1>5 DEF Interrupt, SchedulesTypeOK
  <2> QED
    BY <1>5, <2>1, <2>2 DEF Interrupt, SchedulesTypeOK
<1>6. ASSUME NEW a \in Accounts, Spend(a) \/ Block(a) PROVE SInv'
  <2>1. balance' \in [Accounts -> Nat]
    BY <1>6 DEF Spend, Block, SchedulesTypeOK
  <2> QED
    BY <1>6, <2>1 DEF Spend, Block, SchedulesTypeOK, InHand, Busy
<1>7. ASSUME NEW c \in Customers, DeleteCustomer(c) PROVE SInv'
  BY <1>7 DEF DeleteCustomer, SchedulesTypeOK, InHand, Busy
<1>8. CASE Tick
  BY <1>8 DEF Tick, SchedulesTypeOK, InHand, Busy
<1>9. CASE UNCHANGED scheduleVars
  BY <1>9 DEF scheduleVars, SchedulesTypeOK, InHand, Busy
<1> QED
  BY <1>1, <1>2, <1>3, <1>4, <1>5, <1>6, <1>7, <1>8, <1>9 DEF NextSchedules

\* A sweep never records a result for a schedule it does not have in hand.
THEOREM SweepsHaveScheduleInHand == SpecSchedules => []SInv
<1> QED
  BY SInvInit, SInvNext, PTL DEF SpecSchedules

\* Rows and sweeps keep their shape; no payment, however sweeps overlap or
\* die, overdraws an account.
THEOREM SchedulesTypeCorrect == SpecSchedules => []SchedulesTypeOK
<1>1. SInv => SchedulesTypeOK
  BY DEF SInv
<1> QED
  BY <1>1, SweepsHaveScheduleInHand, PTL
-----------------------------------------------------------------------------
(* Cancellation *)

\* The ORM writes the columns that changed, so recording a result leaves
\* is_active as it is; only creation and cancellation touch it.
LEMMA StatesStep ==
  ASSUME SInv, [NextSchedules]_scheduleVars, NEW s \in Schedules,
         schedule[s].state = "cancelled"
  PROVE  schedule'[s].state = "cancelled"
<1>t. schedule \in [Schedules -> Schedule]
  BY DEF SInv, SchedulesTypeOK
<1>1. ASSUME NEW r \in Schedules, NEW d, Create(r, d)
      PROVE  schedule'[s].state = "cancelled"
  BY <1>1, <1>t DEF Create, Schedule
<1>2. ASSUME NEW r \in Schedules, Cancel(r)
      PROVE  schedule'[s].state = "cancelled"
  BY <1>2, <1>t DEF Cancel, Schedule
<1>3. ASSUME NEW w \in Sweeps, RecordSuccess(w) \/ RecordFailure(w)
      PROVE  schedule'[s].state = "cancelled"
  <2>1. PICK f \in BOOLEAN :
          schedule' = [schedule EXCEPT ![sweep[w].current].next = NextRun(w),
                                       ![sweep[w].current].failed = f]
    BY <1>3 DEF RecordSuccess, RecordFailure
  <2>2. schedule'[s].state = schedule[s].state
    BY <1>t, <2>1 DEF Schedule
  <2> QED
    BY <2>2
<1>4. CASE UNCHANGED schedule
  BY <1>4
<1> QED
  BY <1>1, <1>2, <1>3, <1>4
     DEF NextSchedules, SweepStep, Begin, Take, Insert, Pay, PayAborted,
         Interrupt, Spend, Block, DeleteCustomer, Tick, scheduleVars

\* A sweep takes up what it listed, and pays what it has in hand.
LEMMA UnlistedStep ==
  ASSUME SInv, [NextSchedules]_scheduleVars, NEW s \in Schedules,
         schedule[s].state = "cancelled", ~Listed(s)
  PROVE  ~Listed(s)' /\ paid'[s] = paid[s]
<1>t. sweep \in [Sweeps -> Sweep] /\ paid \in [Schedules -> Nat]
  BY DEF SInv, SchedulesTypeOK
<1>n. s # Nothing
  BY SchedulesAssumption
<1>o. \A w \in Sweeps : s \notin sweep[w].todo /\ s # sweep[w].current
  BY DEF Listed
<1>l. (\A w \in Sweeps : s \notin sweep'[w].todo /\ s # sweep'[w].current)
        => ~Listed(s)'
  BY DEF Listed
<1>m. ASSUME NEW w \in Sweeps, NEW new, sweep' = [sweep EXCEPT ![w] = new],
             s \notin new.todo, s # new.current
      PROVE  ~Listed(s)'
  BY <1>m, <1>t, <1>o, <1>l
<1>q. UNCHANGED sweep => ~Listed(s)'
  BY <1>o, <1>l
<1>e. s \notin NoSweep.todo /\ s # NoSweep.current
  BY <1>n DEF NoSweep
<1>1. ASSUME NEW w \in Sweeps, Begin(w) PROVE ~Listed(s)' /\ paid' = paid
  <2>1. s \notin Due
    BY DEF Due
  <2> DEFINE new == [pc |-> "take", todo |-> Due, current |-> Nothing,
                     seen |-> [r \in Schedules |-> schedule[r].next]]
  <2>2. s \notin new.todo /\ s # new.current
    BY <1>n, <2>1
  <2>3. sweep' = [sweep EXCEPT ![w] = new] /\ paid' = paid
    BY <1>1 DEF Begin
  <2> HIDE DEF new
  <2> QED
    BY <1>m, <2>2, <2>3
<1>2. ASSUME NEW w \in Sweeps, NEW r \in Schedules, Take(w, r)
      PROVE  ~Listed(s)' /\ paid' = paid
  <2>1. r # s
    BY <1>2, <1>o DEF Take
  <2>2. PICK pc :
          sweep' = [sweep EXCEPT ![w].todo = @ \ {r}, ![w].current = r, ![w].pc = pc]
    BY <1>2 DEF Take
  <2> DEFINE new == [sweep[w] EXCEPT !.todo = @ \ {r}, !.current = r, !.pc = pc]
  <2>3. s \notin new.todo /\ s # new.current
    BY <1>o, <1>t, <2>1 DEF Sweep
  <2>4. sweep' = [sweep EXCEPT ![w] = new]
    BY <2>2, <1>t
  <2> HIDE DEF new
  <2> QED
    BY <1>2, <1>m, <2>3, <2>4 DEF Take
<1>3. ASSUME NEW w \in Sweeps, NEW pc, sweep' = [sweep EXCEPT ![w].pc = pc]
      PROVE  ~Listed(s)'
  <2> DEFINE new == [sweep[w] EXCEPT !.pc = pc]
  <2>1. s \notin new.todo /\ s # new.current
    BY <1>o, <1>t DEF Sweep
  <2>2. sweep' = [sweep EXCEPT ![w] = new]
    BY <1>3, <1>t
  <2> HIDE DEF new
  <2> QED
    BY <1>m, <2>1, <2>2
<1>4. ASSUME NEW w \in Sweeps, Insert(w) PROVE ~Listed(s)' /\ paid' = paid
  BY <1>3, <1>4 DEF Insert
<1>5. ASSUME NEW w \in Sweeps, Pay(w) PROVE ~Listed(s)' /\ paid'[s] = paid[s]
  BY <1>3, <1>5, <1>o, <1>t DEF Pay
<1>6. ASSUME NEW w \in Sweeps, PayAborted(w) \/ Interrupt(w)
      PROVE  ~Listed(s)' /\ paid' = paid
  BY <1>6, <1>m, <1>e DEF PayAborted, Interrupt
<1>7. ASSUME NEW w \in Sweeps, RecordSuccess(w) \/ RecordFailure(w)
      PROVE  ~Listed(s)' /\ paid' = paid
  <2> DEFINE new == IF sweep[w].todo = {} THEN NoSweep
                    ELSE [sweep[w] EXCEPT !.pc = "take", !.current = Nothing]
  <2>1. s \notin new.todo /\ s # new.current
    BY <1>o, <1>t, <1>n DEF NoSweep, Sweep
  <2>2. sweep' = [sweep EXCEPT ![w] = new] /\ paid' = paid
    BY <1>7 DEF RecordSuccess, RecordFailure, Continue
  <2> HIDE DEF new
  <2> QED
    BY <1>m, <2>1, <2>2
<1>8. CASE UNCHANGED <<sweep, paid>>
  BY <1>8, <1>q
<1> QED
  BY <1>1, <1>2, <1>4, <1>5, <1>6, <1>7, <1>8
     DEF NextSchedules, SweepStep, Create, Cancel, Spend, Block, DeleteCustomer,
         Tick, scheduleVars

\* No sweep reactivates a schedule, whatever it read before the cancellation.
THEOREM CancellationIsFinal == SpecSchedules => CancellationSticks
<1> DEFINE Sticks == \A s \in Schedules :
      schedule[s].state = "cancelled" => schedule'[s].state = "cancelled"
<1>1. SInv /\ [NextSchedules]_scheduleVars => [Sticks]_scheduleVars
  BY StatesStep
<1> QED
  BY <1>1, SweepsHaveScheduleInHand, PTL DEF SpecSchedules, CancellationSticks

\* Only a sweep that had listed a schedule before its cancellation can still pay
\* it: nothing takes it up later, for any number of overlapping sweeps.
THEOREM CancelledNeverReturns == SpecSchedules => CancelledIsOver
<1> DEFINE Over == \A s \in Schedules :
      schedule[s].state = "cancelled" /\ ~Listed(s) =>
        ~Listed(s)' /\ paid'[s] = paid[s]
<1>1. SInv /\ [NextSchedules]_scheduleVars => [Over]_scheduleVars
  BY UnlistedStep
<1> QED
  BY <1>1, SweepsHaveScheduleInHand, PTL DEF SpecSchedules, CancelledIsOver
-----------------------------------------------------------------------------
(* Duplicates, where sweeps do not overlap.  Each payment advances the     *)
(* schedule by one period from a run that was due, so a schedule has been  *)
(* advanced at most as often as it had runs due; a payment that did not    *)
(* advance it is the one in hand, or was cut short.                        *)

OneSweepAtATime == \A v, w \in Sweeps : v = w

\* What a sweep has listed is due, and it knows the row as it is.
ListedAreDue ==
  \A w \in Sweeps, s \in Schedules :
    s \in sweep[w].todo \/ s = sweep[w].current =>
      /\ schedule[s].state # "none" /\ schedule[s].next <= today
      /\ sweep[w].seen[s] = schedule[s].next

TakenOnce == \A w \in Sweeps : sweep[w].current \notin sweep[w].todo

\* A payment for s is committed that has not advanced the schedule so far.
Unrecorded(s) ==
  \E w \in Sweeps : sweep[w].pc = "recordSuccess" /\ sweep[w].current = s

\* Schedule s has been advanced k times, always from a run that was due.
Advanced(s, k) ==
  /\ schedule[s].next = schedule[s].start + k * Period[s]
  /\ k = 0 \/ schedule[s].next <= today + Period[s]

Paced(s) ==
  /\ schedule[s].state = "none" => paid[s] = 0
  /\ \E k \in Nat :
       /\ Advanced(s, k)
       /\ paid[s] <= k + interrupted + (IF Unrecorded(s) THEN 1 ELSE 0)

AllPaced == \A s \in Schedules : Paced(s)

DInv == SInv /\ ListedAreDue /\ TakenOnce /\ AllPaced

\* A period fits into a time at least as often as its multiples do.
LEMMA MultiplesBelow ==
  ASSUME NEW x \in Nat, NEW k \in Nat, NEW p \in Nat \ {0}, k * p <= x
  PROVE  k <= x \div p
<1> DEFINE d == x \div p
<1>1. d \in Nat /\ x < (d + 1) * p
  OBVIOUS
<1> HIDE DEF d
<1>2. SUFFICES ASSUME d + 1 <= k PROVE FALSE
  BY <1>1 DEF d
<1>3. PICK j \in Nat : k = d + 1 + j
  <2>1. k - (d + 1) \in Nat
    BY <1>1, <1>2
  <2> QED
    BY <1>1, <2>1
<1>4. k * p = (d + 1) * p + j * p
  BY <1>1, <1>3
<1>5. j * p >= 0 /\ j * p \in Nat
  OBVIOUS
<1>6. (d + 1) * p \in Nat /\ k * p \in Nat
  BY <1>1
<1> QED
  BY <1>1, <1>4, <1>5, <1>6

\* A paced schedule has been paid as often as it was due, but for the sweeps
\* that were cut short.
LEMMA PacedIsBounded ==
  ASSUME DInv, NEW s \in Schedules
  PROVE  paid[s] <= RunsDue(s) + interrupted
<1>t. /\ schedule[s] \in Schedule /\ paid[s] \in Nat /\ interrupted \in Nat
      /\ today \in Nat /\ Period[s] \in Nat \ {0}
  BY SchedulesAssumption DEF DInv, SInv, SchedulesTypeOK
<1>n. schedule[s].start \in Nat /\ schedule[s].next \in Nat
  BY <1>t DEF Schedule
<1>1. PICK k \in Nat :
        /\ Advanced(s, k)
        /\ paid[s] <= k + interrupted + (IF Unrecorded(s) THEN 1 ELSE 0)
  BY DEF DInv, AllPaced, Paced
<1>2. CASE schedule[s].state = "none"
  BY <1>2, <1>t DEF DInv, AllPaced, Paced, RunsDue
<1>3. ASSUME schedule[s].state # "none", NEW j \in Nat,
             schedule[s].start + j * Period[s] <= today
      PROVE  j + 1 <= RunsDue(s)
  <2>1. j * Period[s] \in Nat
    BY <1>t
  <2>2. schedule[s].start <= today /\ today - schedule[s].start \in Nat
        /\ j * Period[s] <= today - schedule[s].start
    BY <1>3, <1>n, <1>t, <2>1
  <2>3. j <= (today - schedule[s].start) \div Period[s]
    BY <1>t, <2>2, MultiplesBelow
  <2>4. (today - schedule[s].start) \div Period[s] \in Int
    BY <1>t, <2>2
  <2>5. RunsDue(s) = (today - schedule[s].start) \div Period[s] + 1
    BY <1>3, <1>n, <1>t, <2>2 DEF RunsDue
  <2> QED
    BY <2>3, <2>4, <2>5
<1>r. RunsDue(s) \in Nat
  BY <1>n, <1>t DEF RunsDue
<1>4. CASE schedule[s].state # "none" /\ Unrecorded(s)
  <2>1. schedule[s].next <= today
    BY <1>4 DEF Unrecorded, DInv, ListedAreDue
  <2>2. k + 1 <= RunsDue(s)
    BY <1>1, <1>3, <1>4, <2>1 DEF Advanced
  <2> QED
    BY <1>1, <1>4, <1>r, <1>t, <2>2
<1>5. CASE schedule[s].state # "none" /\ ~Unrecorded(s)
  <2>1. CASE k = 0
    BY <1>1, <1>5, <1>r, <1>t, <2>1
  <2>2. CASE k # 0
    <3>1. PICK j \in Nat : k = j + 1
      <4>1. k - 1 \in Nat /\ k = (k - 1) + 1
        BY <2>2
      <4> QED
        BY <4>1
    <3>2. k * Period[s] = j * Period[s] + Period[s] /\ j * Period[s] \in Nat
      BY <1>t, <3>1
    <3>3. schedule[s].start + j * Period[s] <= today
      BY <1>1, <1>n, <1>t, <2>2, <3>2 DEF Advanced
    <3>4. j + 1 <= RunsDue(s)
      BY <1>3, <1>5, <3>3
    <3> QED
      BY <1>1, <1>5, <1>r, <1>t, <3>1, <3>4
  <2> QED
    BY <2>1, <2>2
<1> QED
  BY <1>2, <1>4, <1>5

\* A step that leaves the row of s, what was paid for it and what is unrecorded
\* keeps its pace; so does one that is cut short.
LEMMA PacedKept ==
  ASSUME DInv, SInv', NEW s \in Schedules,
         \/ /\ schedule'[s].next = schedule[s].next
            /\ schedule'[s].start = schedule[s].start
            /\ schedule'[s].state = "none" => schedule[s].state = "none"
         \/ /\ schedule[s].state = "none"
            /\ schedule'[s].next = schedule'[s].start
            /\ schedule'[s].state # "none",
         paid'[s] = paid[s], today' >= today,
         \/ /\ interrupted' = interrupted
            /\ Unrecorded(s) => Unrecorded(s)'
         \/ interrupted' = interrupted + 1
  PROVE  Paced(s)'
<1>t. /\ schedule[s] \in Schedule /\ paid[s] \in Nat /\ interrupted \in Nat
      /\ today \in Nat /\ today' \in Nat /\ Period[s] \in Nat \ {0}
      /\ schedule'[s] \in Schedule /\ interrupted' \in Nat
  BY SchedulesAssumption DEF DInv, SInv, SchedulesTypeOK
<1>n. /\ schedule[s].start \in Nat /\ schedule[s].next \in Nat
      /\ schedule'[s].start \in Nat /\ schedule'[s].next \in Nat
  BY <1>t DEF Schedule
<1>p. Paced(s)
  BY DEF DInv, AllPaced
<1>1. CASE /\ schedule'[s].next = schedule[s].next
           /\ schedule'[s].start = schedule[s].start
           /\ schedule'[s].state = "none" => schedule[s].state = "none"
  <2>1. PICK k \in Nat :
          /\ Advanced(s, k)
          /\ paid[s] <= k + interrupted + (IF Unrecorded(s) THEN 1 ELSE 0)
    BY <1>p DEF Paced
  <2>2. Advanced(s, k)'
    BY <1>1, <1>n, <1>t, <2>1 DEF Advanced
  <2>3. paid'[s] <= k + interrupted' + (IF Unrecorded(s)' THEN 1 ELSE 0)
    BY <1>t, <2>1
  <2> QED
    BY <1>1, <1>p, <2>2, <2>3 DEF Paced
<1>2. CASE /\ schedule[s].state = "none"
           /\ schedule'[s].next = schedule'[s].start
           /\ schedule'[s].state # "none"
  <2>1. Advanced(s, 0)'
    BY <1>2, <1>n, <1>t DEF Advanced
  <2>2. paid'[s] = 0
    BY <1>2, <1>p DEF Paced
  <2>3. paid'[s] <= 0 + interrupted' + (IF Unrecorded(s)' THEN 1 ELSE 0)
    <3>1. PICK i \in Nat : i = IF Unrecorded(s)' THEN 1 ELSE 0
      OBVIOUS
    <3>2. PICK n \in Nat : n = interrupted'
      BY <1>t
    <3>3. 0 <= 0 + n + i
      OBVIOUS
    <3> QED
      BY <2>2, <3>1, <3>2, <3>3
  <2> QED
    BY <1>2, <2>1, <2>3 DEF Paced
<1> QED
  BY <1>1, <1>2

\* A sweep that goes on with fewer schedules, or ends, knows them as before.
LEMMA ListedKept ==
  ASSUME DInv, NEW w \in Sweeps, NEW new \in Sweep,
         sweep' = [sweep EXCEPT ![w] = new],
         UNCHANGED <<schedule, today>>,
         \A s \in Schedules : s \in new.todo \/ s = new.current =>
           /\ s \in sweep[w].todo \/ s = sweep[w].current
           /\ new.seen[s] = sweep[w].seen[s],
         new.current \notin new.todo
  PROVE  ListedAreDue' /\ TakenOnce'
<1>1. \A v \in Sweeps : sweep'[v] = IF v = w THEN new ELSE sweep[v]
  BY DEF DInv, SInv, SchedulesTypeOK
<1>2. TakenOnce'
  BY <1>1 DEF DInv, TakenOnce
<1>3. ASSUME NEW v \in Sweeps, NEW s \in Schedules,
             s \in sweep'[v].todo \/ s = sweep'[v].current
      PROVE  /\ schedule'[s].state # "none" /\ schedule'[s].next <= today'
             /\ sweep'[v].seen[s] = schedule'[s].next
  BY <1>1, <1>3 DEF DInv, ListedAreDue
<1> QED
  BY <1>2, <1>3 DEF ListedAreDue

\* Everything starts without a payment.
LEMMA DInvInit == InitSchedules => DInv
<1> SUFFICES ASSUME InitSchedules PROVE DInv
  OBVIOUS
<1>1. SInv
  BY SInvInit
<1>2. ListedAreDue /\ TakenOnce
  BY SchedulesAssumption DEF InitSchedules, NoSweep, ListedAreDue, TakenOnce
<1>3. ASSUME NEW s \in Schedules PROVE Paced(s)
  <2>1. paid[s] = 0 /\ schedule[s] = NoSchedule /\ interrupted = 0
    BY DEF InitSchedules
  <2>2. Advanced(s, 0)
    BY <2>1, SchedulesAssumption DEF Advanced, NoSchedule
  <2>3. paid[s] <= 0 + interrupted + (IF Unrecorded(s) THEN 1 ELSE 0)
    BY <2>1
  <2> QED
    BY <2>1, <2>2, <2>3 DEF Paced
<1> QED
  BY <1>1, <1>2, <1>3 DEF DInv, AllPaced

\* Recording a result advances the schedule by the period of a run that was
\* due, on top of the row as it is.
LEMMA RecordingAdvances ==
  ASSUME DInv, SInv', OneSweepAtATime, NEW w \in Sweeps,
         RecordSuccess(w) \/ RecordFailure(w)
  PROVE  ListedAreDue' /\ TakenOnce' /\ AllPaced'
<1>t. /\ sweep[w] \in Sweep /\ sweep \in [Sweeps -> Sweep]
      /\ schedule \in [Schedules -> Schedule] /\ today \in Nat
      /\ paid \in [Schedules -> Nat] /\ interrupted \in Nat
  BY DEF DInv, SInv, SchedulesTypeOK
<1>c. sweep[w].current \in Schedules
  BY DEF DInv, SInv, InHand, Busy, RecordSuccess, RecordFailure
<1>s. PICK s \in Schedules : s = sweep[w].current
  BY <1>c
<1>p. Period[s] \in Nat \ {0}
  BY SchedulesAssumption
<1>1. /\ schedule[s].state # "none" /\ schedule[s].next <= today
      /\ sweep[w].seen[s] = schedule[s].next /\ s \notin sweep[w].todo
  BY <1>s DEF DInv, ListedAreDue, TakenOnce
<1>2. PICK f \in BOOLEAN :
        schedule' = [schedule EXCEPT ![s].next = schedule[s].next + Period[s],
                                     ![s].failed = f]
  BY <1>1, <1>s DEF RecordSuccess, RecordFailure, NextRun
<1>3. /\ schedule'[s].next = schedule[s].next + Period[s]
      /\ schedule'[s].start = schedule[s].start
      /\ schedule'[s].state = schedule[s].state
      /\ \A r \in Schedules \ {s} : schedule'[r] = schedule[r]
  BY <1>2, <1>t DEF Schedule
<1>4. PICK new \in Sweep :
        /\ sweep' = [sweep EXCEPT ![w] = new]
        /\ new = NoSweep \/ new = [sweep[w] EXCEPT !.pc = "take",
                                                   !.current = Nothing]
  <2>1. [sweep[w] EXCEPT !.pc = "take", !.current = Nothing] \in Sweep
    BY <1>t DEF Sweep
  <2> QED
    BY <2>1, NoSweepType DEF RecordSuccess, RecordFailure, Continue
<1>5. /\ new.current = Nothing /\ new.todo \subseteq sweep[w].todo
      /\ new.todo # {} => new.seen = sweep[w].seen
      /\ new.pc \in {"idle", "take"} /\ new.todo \subseteq Schedules
  <2>1. CASE new = NoSweep
    BY <2>1 DEF NoSweep
  <2>2. CASE new = [sweep[w] EXCEPT !.pc = "take", !.current = Nothing]
    BY <1>t, <2>2 DEF Sweep
  <2> QED
    BY <1>4, <2>1, <2>2
<1>6. \A v \in Sweeps : v = w /\ sweep'[v] = new
  BY <1>4, <1>t DEF OneSweepAtATime
<1>7. UNCHANGED <<today, paid, interrupted>>
  BY DEF RecordSuccess, RecordFailure
<1>8. TakenOnce'
  BY <1>5, <1>6, SchedulesAssumption DEF TakenOnce
<1>9. ListedAreDue'
  <2>1. ASSUME NEW v \in Sweeps, NEW r \in Schedules,
               r \in sweep'[v].todo \/ r = sweep'[v].current
        PROVE  /\ schedule'[r].state # "none" /\ schedule'[r].next <= today'
               /\ sweep'[v].seen[r] = schedule'[r].next
    <3>1. r \in new.todo /\ sweep'[v] = new
      BY <1>5, <1>6, <2>1, SchedulesAssumption
    <3>2. r \in sweep[w].todo /\ new.seen = sweep[w].seen /\ r # s
      BY <1>1, <1>5, <3>1
    <3>3. schedule'[r] = schedule[r]
      BY <1>3, <3>2
    <3> QED
      BY <1>7, <3>1, <3>2, <3>3 DEF DInv, ListedAreDue
  <2> QED
    BY <2>1 DEF ListedAreDue
<1>10. ASSUME NEW r \in Schedules \ {s} PROVE Paced(r)'
  <2>1. ~Unrecorded(r)
    BY <1>6, <1>s DEF Unrecorded
  <2> QED
    BY <1>3, <1>7, <1>t, <2>1, PacedKept
<1>11. Paced(s)'
  <2>1. PICK k \in Nat :
          /\ Advanced(s, k)
          /\ paid[s] <= k + interrupted + (IF Unrecorded(s) THEN 1 ELSE 0)
    BY DEF DInv, AllPaced, Paced
  <2>2. schedule[s].next \in Nat /\ schedule[s].start \in Nat
    BY <1>t DEF Schedule
  <2>3. PICK m \in Nat : m = k * Period[s] /\ (k + 1) * Period[s] = m + Period[s]
    <3>1. (k + 1) * Period[s] = k * Period[s] + Period[s] /\ k * Period[s] \in Nat
      BY <1>p
    <3> QED
      BY <3>1
  <2>4. Advanced(s, k + 1)'
    <3>a. schedule[s].next = schedule[s].start + m
      BY <2>1, <2>3 DEF Advanced
    <3>b. schedule'[s].next = schedule[s].start + (m + Period[s])
      BY <1>3, <1>p, <2>2, <3>a
    <3>1. schedule'[s].next = schedule'[s].start + (k + 1) * Period[s]
      BY <1>3, <2>3, <3>b
    <3>2. schedule'[s].next <= today' + Period[s]
      BY <1>1, <1>3, <1>7, <1>p, <1>t, <2>2
    <3> QED
      BY <3>1, <3>2 DEF Advanced
  <2>5. ~Unrecorded(s)'
    BY <1>5, <1>6 DEF Unrecorded
  <2>6. paid'[s] <= (k + 1) + interrupted'
    BY <1>7, <1>t, <2>1
  <2>7. paid'[s] <= (k + 1) + interrupted' + (IF Unrecorded(s)' THEN 1 ELSE 0)
    BY <1>7, <1>t, <2>5, <2>6
  <2>8. schedule'[s].state # "none" /\ k + 1 \in Nat
    BY <1>1, <1>3
  <2> QED
    BY <2>4, <2>7, <2>8 DEF Paced
<1> QED
  BY <1>8, <1>9, <1>10, <1>11 DEF AllPaced

\* Paying, one step of the sweep further on, leaves one payment unrecorded.
LEMMA PayingKeepsPace ==
  ASSUME DInv, SInv', OneSweepAtATime, NEW w \in Sweeps, Pay(w)
  PROVE  ListedAreDue' /\ TakenOnce' /\ AllPaced'
<1>t. /\ sweep[w] \in Sweep /\ sweep \in [Sweeps -> Sweep]
      /\ today \in Nat /\ paid \in [Schedules -> Nat] /\ interrupted \in Nat
  BY DEF DInv, SInv, SchedulesTypeOK
<1>c. sweep[w].current \in Schedules
  BY DEF DInv, SInv, InHand, Busy, Pay
<1>s. PICK s \in Schedules : s = sweep[w].current
  BY <1>c
<1>1. PICK new \in Sweep : /\ sweep' = [sweep EXCEPT ![w] = new]
                           /\ new = [sweep[w] EXCEPT !.pc = "recordSuccess"]
  <2>1. [sweep[w] EXCEPT !.pc = "recordSuccess"] \in Sweep
    BY <1>t DEF Sweep
  <2>2. sweep' = [sweep EXCEPT ![w] = [sweep[w] EXCEPT !.pc = "recordSuccess"]]
    BY <1>t DEF Pay
  <2> QED
    BY <2>1, <2>2
<1>2. /\ new.pc = "recordSuccess" /\ new.current = s
      /\ new.todo = sweep[w].todo /\ new.seen = sweep[w].seen
  BY <1>1, <1>s, <1>t DEF Sweep
<1>3. \A v \in Sweeps : v = w /\ sweep'[v] = new
  BY <1>1, <1>t DEF OneSweepAtATime
<1>4. UNCHANGED <<schedule, today, interrupted>>
  BY DEF Pay
<1>5. \A r \in Schedules : paid'[r] = IF r = s THEN paid[r] + 1 ELSE paid[r]
  BY <1>s, <1>t DEF Pay
<1>6. ListedAreDue' /\ TakenOnce'
  <2>1. new.current \notin new.todo
    BY <1>2, <1>s DEF DInv, TakenOnce
  <2>2. \A r \in Schedules : r \in new.todo \/ r = new.current =>
          /\ r \in sweep[w].todo \/ r = sweep[w].current
          /\ new.seen[r] = sweep[w].seen[r]
    BY <1>2, <1>s
  <2>3. UNCHANGED <<schedule, today>>
    BY <1>4
  <2> QED
    BY <1>1, <2>1, <2>2, <2>3, ListedKept
<1>7. ASSUME NEW r \in Schedules \ {s} PROVE Paced(r)'
  <2>1. ~Unrecorded(r)
    BY <1>3, <1>s DEF Unrecorded
  <2>2. SInv' /\ today' >= today /\ paid'[r] = paid[r]
    BY <1>4, <1>5, <1>t
  <2> QED
    BY <1>4, <2>1, <2>2, PacedKept
<1>8. Paced(s)'
  <2>1. ~Unrecorded(s) /\ Unrecorded(s)'
    BY <1>2, <1>3 DEF Unrecorded, Pay
  <2>2. PICK k \in Nat :
          /\ Advanced(s, k)
          /\ paid[s] <= k + interrupted + (IF Unrecorded(s) THEN 1 ELSE 0)
    BY DEF DInv, AllPaced, Paced
  <2>3. Advanced(s, k)'
    BY <1>4, <2>2 DEF Advanced
  <2>4. paid'[s] <= k + interrupted' + (IF Unrecorded(s)' THEN 1 ELSE 0)
    <3>1. paid[s] <= k + interrupted
      BY <1>t, <2>1, <2>2
    <3>2. paid'[s] = paid[s] + 1 /\ interrupted' = interrupted
      BY <1>4, <1>5
    <3> QED
      BY <1>t, <2>1, <3>1, <3>2
  <2>5. schedule'[s].state # "none"
    BY <1>4, <1>s DEF DInv, ListedAreDue
  <2> QED
    BY <2>3, <2>4, <2>5 DEF Paced
<1> QED
  BY <1>6, <1>7, <1>8 DEF AllPaced

\* A step of the sweep that neither pays nor records keeps every pace: it goes
\* on with the schedules it listed, or with none.
LEMMA SweepingKeepsPace ==
  ASSUME DInv, SInv', OneSweepAtATime, NEW w \in Sweeps, NEW new \in Sweep,
         sweep' = [sweep EXCEPT ![w] = new], UNCHANGED <<schedule, paid, today>>,
         \A s \in Schedules : s \in new.todo \/ s = new.current =>
           /\ s \in sweep[w].todo \/ s = sweep[w].current
           /\ new.seen[s] = sweep[w].seen[s],
         new.current \notin new.todo,
         \/ sweep[w].pc # "recordSuccess" /\ interrupted' = interrupted
         \/ interrupted' = interrupted + 1
  PROVE  ListedAreDue' /\ TakenOnce' /\ AllPaced'
<1>1. ListedAreDue' /\ TakenOnce'
  BY ListedKept
<1>2. ASSUME NEW r \in Schedules PROVE Paced(r)'
  <2>1. sweep[w].pc # "recordSuccess" => ~Unrecorded(r)
    BY DEF OneSweepAtATime, Unrecorded
  <2>2. today' >= today
    BY DEF DInv, SInv, SchedulesTypeOK
  <2> QED
    BY <2>1, <2>2, PacedKept
<1> QED
  BY <1>1, <1>2 DEF AllPaced

\* DInv is inductive where sweeps do not overlap.
LEMMA DInvNext ==
  ASSUME OneSweepAtATime, DInv, [NextSchedules]_scheduleVars
  PROVE  DInv'
<1>i. SInv'
  BY SInvNext DEF DInv
<1> SUFFICES ListedAreDue' /\ TakenOnce' /\ AllPaced'
  BY <1>i DEF DInv
<1>t. /\ schedule \in [Schedules -> Schedule] /\ sweep \in [Sweeps -> Sweep]
      /\ today \in Nat /\ interrupted \in Nat
  BY DEF DInv, SInv, SchedulesTypeOK
<1>u. ASSUME UNCHANGED sweep PROVE TakenOnce' /\ \A s \in Schedules :
                                      Unrecorded(s)' <=> Unrecorded(s)
  BY <1>u DEF DInv, TakenOnce, Unrecorded
<1>1. ASSUME NEW r \in Schedules, NEW d \in 0..(today + 1), Create(r, d)
      PROVE  ListedAreDue' /\ TakenOnce' /\ AllPaced'
  <2>1. /\ schedule[r].state = "none" /\ schedule'[r].state # "none"
        /\ schedule'[r].next = schedule'[r].start
        /\ \A s \in Schedules \ {r} : schedule'[s] = schedule[s]
        /\ UNCHANGED <<sweep, paid, today, interrupted>>
    BY <1>1, <1>t DEF Create
  <2>2. ListedAreDue'
    BY <2>1 DEF DInv, ListedAreDue
  <2>3. ASSUME NEW s \in Schedules PROVE Paced(s)'
    <3>1. today' >= today /\ (Unrecorded(s) => Unrecorded(s)')
      BY <1>t, <1>u, <2>1
    <3>2. CASE s = r
      BY <1>i, <2>1, <3>1, <3>2, PacedKept
    <3>3. CASE s # r
      BY <1>i, <2>1, <3>1, <3>3, PacedKept
    <3> QED
      BY <3>2, <3>3
  <2> QED
    BY <1>u, <2>1, <2>2, <2>3 DEF AllPaced
<1>2. ASSUME NEW r \in Schedules, Cancel(r)
      PROVE  ListedAreDue' /\ TakenOnce' /\ AllPaced'
  <2>1. /\ \A s \in Schedules : /\ schedule'[s].next = schedule[s].next
                                /\ schedule'[s].start = schedule[s].start
                                /\ schedule'[s].state = "none"
                                     <=> schedule[s].state = "none"
        /\ UNCHANGED <<sweep, paid, today, interrupted>>
    BY <1>2, <1>t DEF Cancel, Schedule
  <2>2. ListedAreDue'
    BY <2>1 DEF DInv, ListedAreDue
  <2>3. ASSUME NEW s \in Schedules PROVE Paced(s)'
    <3>1. today' >= today /\ (Unrecorded(s) => Unrecorded(s)')
      BY <1>t, <1>u, <2>1
    <3> QED
      BY <1>i, <2>1, <3>1, PacedKept
  <2> QED
    BY <1>u, <2>1, <2>2, <2>3 DEF AllPaced
<1>3. ASSUME NEW w \in Sweeps, Begin(w)
      PROVE  ListedAreDue' /\ TakenOnce' /\ AllPaced'
  <2>1. /\ \A v \in Sweeps : v = w
        /\ sweep[w].pc = "idle" /\ sweep'[w].pc = "take"
        /\ sweep'[w].todo = Due /\ sweep'[w].current = Nothing
        /\ \A s \in Schedules : sweep'[w].seen[s] = schedule[s].next
        /\ UNCHANGED <<schedule, paid, today, interrupted>>
    BY <1>3, <1>t DEF Begin, OneSweepAtATime
  <2>2. ListedAreDue' /\ TakenOnce'
    BY <2>1, SchedulesAssumption DEF ListedAreDue, TakenOnce, Due
  <2>3. ASSUME NEW s \in Schedules PROVE Paced(s)'
    <3>1. today' >= today /\ ~Unrecorded(s)
      BY <1>t, <2>1 DEF Unrecorded
    <3> QED
      BY <1>i, <2>1, <3>1, PacedKept
  <2> QED
    BY <2>2, <2>3 DEF AllPaced
<1>4. ASSUME NEW w \in Sweeps, NEW r \in Schedules, Take(w, r)
      PROVE  ListedAreDue' /\ TakenOnce' /\ AllPaced'
  <2>1. PICK pc \in {"insert", "recordFailure"} :
          sweep' = [sweep EXCEPT ![w].todo = @ \ {r}, ![w].current = r,
                                 ![w].pc = pc]
    BY <1>4 DEF Take
  <2>t. sweep[w] \in Sweep
    BY <1>t
  <2> DEFINE new == [sweep[w] EXCEPT !.todo = @ \ {r}, !.current = r, !.pc = pc]
  <2>2. /\ new \in Sweep /\ new.current = r /\ new.todo = sweep[w].todo \ {r}
        /\ new.seen = sweep[w].seen
    BY <2>1, <2>t DEF Sweep
  <2>3. sweep' = [sweep EXCEPT ![w] = new]
    BY <2>1, <1>t
  <2> HIDE DEF new
  <2>4. /\ UNCHANGED <<schedule, paid, today, interrupted>>
        /\ r \in sweep[w].todo /\ sweep[w].pc # "recordSuccess"
    BY <1>4 DEF Take
  <2> QED
    BY <1>i, <2>2, <2>3, <2>4, SweepingKeepsPace
<1>5. ASSUME NEW w \in Sweeps, Insert(w)
      PROVE  ListedAreDue' /\ TakenOnce' /\ AllPaced'
  <2>t. sweep[w] \in Sweep
    BY <1>t
  <2> DEFINE new == [sweep[w] EXCEPT !.pc = "execute"]
  <2>2. /\ new \in Sweep /\ new.current = sweep[w].current
        /\ new.todo = sweep[w].todo /\ new.seen = sweep[w].seen
    BY <2>t DEF Sweep
  <2>3. sweep' = [sweep EXCEPT ![w] = new]
    BY <1>5, <1>t DEF Insert
  <2> HIDE DEF new
  <2>4. /\ UNCHANGED <<schedule, paid, today, interrupted>>
        /\ sweep[w].current \notin sweep[w].todo
        /\ sweep[w].pc # "recordSuccess"
    BY <1>5 DEF Insert, DInv, TakenOnce
  <2> QED
    BY <1>i, <2>2, <2>3, <2>4, SweepingKeepsPace
<1>6. ASSUME NEW w \in Sweeps, Pay(w)
      PROVE  ListedAreDue' /\ TakenOnce' /\ AllPaced'
  BY <1>6, <1>i, PayingKeepsPace
<1>7. ASSUME NEW w \in Sweeps, PayAborted(w) \/ Interrupt(w)
      PROVE  ListedAreDue' /\ TakenOnce' /\ AllPaced'
  <2>1. NoSweep \in Sweep /\ NoSweep.todo = {} /\ NoSweep.current \notin Schedules
    BY NoSweepType, SchedulesAssumption DEF NoSweep
  <2>2. /\ UNCHANGED <<schedule, paid, today>>
        /\ sweep' = [sweep EXCEPT ![w] = NoSweep]
        /\ \/ sweep[w].pc # "recordSuccess" /\ interrupted' = interrupted
           \/ interrupted' = interrupted + 1
    BY <1>7 DEF PayAborted, Interrupt
  <2> QED
    BY <1>i, <2>1, <2>2, SweepingKeepsPace
<1>8. ASSUME NEW w \in Sweeps, RecordSuccess(w) \/ RecordFailure(w)
      PROVE  ListedAreDue' /\ TakenOnce' /\ AllPaced'
  BY <1>8, <1>i, RecordingAdvances
<1>9. ASSUME UNCHANGED <<schedule, paid, sweep, interrupted>>, today' >= today,
             today' \in Nat
      PROVE  ListedAreDue' /\ TakenOnce' /\ AllPaced'
  <2>1. ListedAreDue'
    <3>1. \A s \in Schedules : schedule[s].next \in Nat
      BY <1>t DEF Schedule
    <3> QED
      BY <1>9, <1>t, <3>1 DEF DInv, ListedAreDue
  <2>2. ASSUME NEW s \in Schedules PROVE Paced(s)'
    BY <1>9, <1>i, <1>u, PacedKept
  <2> QED
    BY <1>9, <1>u, <2>1, <2>2 DEF AllPaced
<1>10. CASE \/ \E a \in Accounts : Spend(a) \/ Block(a)
            \/ \E c \in Customers : DeleteCustomer(c)
            \/ Tick \/ UNCHANGED scheduleVars
  BY <1>9, <1>10, <1>t DEF Spend, Block, DeleteCustomer, Tick, scheduleVars
<1> QED
  BY <1>1, <1>2, <1>3, <1>4, <1>5, <1>6, <1>7, <1>8, <1>10
     DEF NextSchedules, SweepStep

\* Where sweeps do not overlap, a schedule is paid at most once for each run
\* that was due, plus once for each sweep that was cut short between its two
\* commits: failures, cancellations, backdated starts and refusals under lock
\* cost nothing.
THEOREM DuplicatesCostInterruptions ==
  ASSUME OneSweepAtATime
  PROVE  SpecSchedules => []DuplicatesAreInterruptions
<1>1. DInv /\ [NextSchedules]_scheduleVars => DInv'
  BY DInvNext
<1>2. DInv => DuplicatesAreInterruptions
  BY PacedIsBounded DEF DuplicatesAreInterruptions
<1> QED
  BY <1>1, <1>2, DInvInit, PTL DEF SpecSchedules
=============================================================================
