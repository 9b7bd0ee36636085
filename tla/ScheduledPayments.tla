------------------------- MODULE ScheduledPayments -------------------------
(***************************************************************************)
(* Standing payments: backend/app/modules/scheduled_payments and the sweep *)
(* _execute_scheduled_payments_async of background_tasks/tasks.py.  Celery *)
(* beat queues a sweep every five minutes and a worker may run it again    *)
(* when it was not acknowledged, so sweeps can overlap.  A sweep lists the *)
(* due schedules once, then for each of them makes the transfer, commits   *)
(* it, and advances the schedule in a second commit.  The transfer itself  *)
(* is that of Transfers; here it is reduced to what the sweep depends on:  *)
(* the validation on unlocked reads, the uncommitted INSERT, and the       *)
(* execution under lock, which fails in two ways that end the sweep.       *)
(***************************************************************************)
EXTENDS Naturals, FiniteSets

CONSTANTS
  Schedules, Sweeps, Accounts, Customers,
  Owner, From, To,   \* of each schedule: its customer and its accounts
  Amount,            \* of each schedule
  Period,            \* of each schedule: days from one run to the next
  Poisoned,          \* schedules whose transfer the database rejects
  Opening,           \* balance of each account
  LastDay,           \* bound: the clock stops here
  MaxInterruptions,  \* bound: how many sweeps may be cut short
  Nothing

VARIABLES
  schedule,    \* scheduled_payments: is_active, start, next_run_at, failure
  deleted,     \* customers with deleted_at set
  balance,     \* accounts.balance
  open,        \* accounts whose status is ACTIVE
  paid,        \* of each schedule: its transactions rows with status SUCCESS
  sweep,       \* the local state of each sweep
  today,
  interrupted  \* sweeps cut short so far

scheduleVars == <<schedule, deleted, balance, open, paid, sweep, today, interrupted>>

ASSUME SchedulesAssumption ==
  /\ Owner \in [Schedules -> Customers]
  /\ From \in [Schedules -> Accounts] /\ To \in [Schedules -> Accounts]
  /\ Amount \in [Schedules -> Nat \ {0}] /\ Period \in [Schedules -> Nat \ {0}]
  /\ Opening \in [Accounts -> Nat]
  /\ LastDay \in Nat /\ MaxInterruptions \in Nat
  /\ Nothing \notin Schedules

-----------------------------------------------------------------------------
Schedule ==
  [state : {"none", "active", "cancelled"}, start : Nat, next : Nat,
   failed : BOOLEAN]

(* todo: listed and not yet taken; seen: next_run_at as listed, where a row *)
(* object keeps it (expire_on_commit=False); current: the one in hand.      *)
Sweep ==
  [pc : {"idle", "take", "insert", "execute", "recordSuccess", "recordFailure"},
   todo : SUBSET Schedules, seen : [Schedules -> Nat],
   current : Schedules \cup {Nothing}]

NoSchedule == [state |-> "none", start |-> 0, next |-> 0, failed |-> FALSE]

NoSweep ==
  [pc |-> "idle", todo |-> {}, seen |-> [s \in Schedules |-> 0],
   current |-> Nothing]

InitSchedules ==
  /\ schedule = [s \in Schedules |-> NoSchedule]
  /\ deleted = {}
  /\ balance = Opening
  /\ open = Accounts
  /\ paid = [s \in Schedules |-> 0]
  /\ sweep = [w \in Sweeps |-> NoSweep]
  /\ today = 0
  /\ interrupted = 0

AccountsOf(s) == {From[s], To[s]}

\* The flushed but uncommitted INSERT of a transfer holds FOR KEY SHARE on the
\* rows of both accounts.
Sharers(a) ==
  {w \in Sweeps : sweep[w].pc = "execute" /\ a \in AccountsOf(sweep[w].current)}

\* Faulty variant: the balance is not tested.
PayableOnCredit(s) == From[s] # To[s] /\ AccountsOf(s) \subseteq open

\* What a transfer asks of its accounts.
Payable(s) ==
  /\ From[s] # To[s]
  /\ AccountsOf(s) \subseteq open
  /\ balance[From[s]] >= Amount[s]

-----------------------------------------------------------------------------
(* The customer's requests.                                                *)

\* start_at may lie in the past.
Create(s, start) ==
  /\ schedule[s].state = "none"
  /\ Owner[s] \notin deleted
  /\ From[s] \in open
  /\ schedule' = [schedule EXCEPT ![s] =
                    [state |-> "active", start |-> start, next |-> start,
                     failed |-> FALSE]]
  /\ UNCHANGED <<deleted, balance, open, paid, sweep, today, interrupted>>

\* An unlocked read, then an UPDATE of is_active only.
Cancel(s) ==
  /\ schedule[s].state = "active"
  /\ Owner[s] \notin deleted
  /\ schedule' = [schedule EXCEPT ![s].state = "cancelled"]
  /\ UNCHANGED <<deleted, balance, open, paid, sweep, today, interrupted>>

-----------------------------------------------------------------------------
(* The sweep.                                                              *)

\* Faulty variant: cancelled schedules are listed too.
DueWhenCancelled ==
  {s \in Schedules : schedule[s].state # "none" /\ schedule[s].next <= today}

\* list_due: an unlocked SELECT.
Due ==
  {s \in Schedules : schedule[s].state = "active" /\ schedule[s].next <= today}

Begin(w) ==
  /\ sweep[w].pc = "idle"
  /\ Due # {}
  /\ sweep' = [sweep EXCEPT ![w] =
                 [pc |-> "take", todo |-> Due, current |-> Nothing,
                  seen |-> [s \in Schedules |-> schedule[s].next]]]
  /\ UNCHANGED <<schedule, deleted, balance, open, paid, today, interrupted>>

\* The next schedule of the list, in the order the SELECT returned them (any:
\* it has no ORDER BY), and the validation of its transfer.
Take(w, s) ==
  /\ sweep[w].pc = "take"
  /\ s \in sweep[w].todo
  /\ sweep' = [sweep EXCEPT ![w].todo = @ \ {s}, ![w].current = s,
                 ![w].pc = IF Owner[s] \notin deleted /\ Payable(s)
                           THEN "insert" ELSE "recordFailure"]
  /\ UNCHANGED <<schedule, deleted, balance, open, paid, today, interrupted>>

\* The INSERT of the PENDING transaction: flushed, not committed.
Insert(w) ==
  /\ sweep[w].pc = "insert"
  /\ sweep' = [sweep EXCEPT ![w].pc = "execute"]
  /\ UNCHANGED <<schedule, deleted, balance, open, paid, today, interrupted>>

\* The sweep gets FOR UPDATE on both accounts: nobody else shares them.
Alone(w) == \A a \in AccountsOf(sweep[w].current) : Sharers(a) = {w}

\* _execute_locked_transfer and its commit.
Pay(w) ==
  LET s == sweep[w].current IN
  /\ sweep[w].pc = "execute" /\ Alone(w)
  /\ Payable(s) /\ s \notin Poisoned
  /\ balance' = [a \in Accounts |->
                   balance[a] - (IF a = From[s] THEN Amount[s] ELSE 0)
                              + (IF a = To[s] THEN Amount[s] ELSE 0)]
  /\ paid' = [paid EXCEPT ![s] = @ + 1]
  /\ sweep' = [sweep EXCEPT ![w].pc = "recordSuccess"]
  /\ UNCHANGED <<schedule, deleted, open, today, interrupted>>

\* Refused under lock: the rollback removes the transaction, which was never
\* committed; get_by_id returns None and the assertion after it ends the task.
\* A row the database rejects (a converted amount of 0.00) is no DomainError
\* and ends the task as well.  The rest of the list is not looked at.
PayAborted(w) ==
  /\ sweep[w].pc = "execute" /\ Alone(w)
  /\ ~Payable(sweep[w].current) \/ sweep[w].current \in Poisoned
  /\ sweep' = [sweep EXCEPT ![w] = NoSweep]
  /\ UNCHANGED <<schedule, deleted, balance, open, paid, today, interrupted>>

\* The loop goes on, or the task ends.
Continue(w) ==
  sweep' = [sweep EXCEPT ![w] =
              IF sweep[w].todo = {} THEN NoSweep
              ELSE [sweep[w] EXCEPT !.pc = "take", !.current = Nothing]]

\* advance_next_run on the value that was listed, not on the row as it is now.
NextRun(w) == sweep[w].seen[sweep[w].current] + Period[sweep[w].current]

\* Faulty variants: the schedule is not advanced; the whole row is written.
RecordWithoutAdvancing(w) ==
  /\ sweep[w].pc = "recordSuccess"
  /\ Continue(w)
  /\ UNCHANGED <<schedule, deleted, balance, open, paid, today, interrupted>>

RecordWholeRow(w) ==
  /\ sweep[w].pc = "recordSuccess"
  /\ schedule' = [schedule EXCEPT ![sweep[w].current] =
                    [state |-> "active", start |-> @.start, failed |-> FALSE,
                     next |-> NextRun(w)]]
  /\ Continue(w)
  /\ UNCHANGED <<deleted, balance, open, paid, today, interrupted>>

RecordFailureWithoutAdvancing(w) ==
  /\ sweep[w].pc = "recordFailure"
  /\ schedule' = [schedule EXCEPT ![sweep[w].current].failed = TRUE]
  /\ Continue(w)
  /\ UNCHANGED <<deleted, balance, open, paid, today, interrupted>>

RecordSuccess(w) ==
  LET s == sweep[w].current IN
  /\ sweep[w].pc = "recordSuccess"
  /\ schedule' = [schedule EXCEPT ![s].next = NextRun(w), ![s].failed = FALSE]
  /\ Continue(w)
  /\ UNCHANGED <<deleted, balance, open, paid, today, interrupted>>

RecordFailure(w) ==
  LET s == sweep[w].current IN
  /\ sweep[w].pc = "recordFailure"
  /\ schedule' = [schedule EXCEPT ![s].next = NextRun(w), ![s].failed = TRUE]
  /\ Continue(w)
  /\ UNCHANGED <<deleted, balance, open, paid, today, interrupted>>

\* The worker is killed, it loses the database or the broker, or PostgreSQL
\* aborts the session (two sweeps that share an account and both want FOR
\* UPDATE on it deadlock).  What was committed stays.
Interrupt(w) ==
  /\ sweep[w].pc # "idle"
  /\ interrupted < MaxInterruptions
  /\ interrupted' = interrupted + 1
  /\ sweep' = [sweep EXCEPT ![w] = NoSweep]
  /\ UNCHANGED <<schedule, deleted, balance, open, paid, today>>

-----------------------------------------------------------------------------
(* Everything else that goes on in the bank.                               *)

\* Another movement takes money from an account; it needs FOR UPDATE.
Spend(a) ==
  /\ balance[a] > 0 /\ a \in open /\ Sharers(a) = {}
  /\ balance' = [balance EXCEPT ![a] = @ - 1]
  /\ UNCHANGED <<schedule, deleted, open, paid, sweep, today, interrupted>>

\* An administrator blocks an account: FOR KEY SHARE does not stop the UPDATE.
Block(a) ==
  /\ open' = open \ {a}
  /\ UNCHANGED <<schedule, deleted, balance, paid, sweep, today, interrupted>>

DeleteCustomer(c) ==
  /\ deleted' = deleted \cup {c}
  /\ UNCHANGED <<schedule, balance, open, paid, sweep, today, interrupted>>

Tick ==
  /\ today < LastDay
  /\ today' = today + 1
  /\ UNCHANGED <<schedule, deleted, balance, open, paid, sweep, interrupted>>

SweepStep(w) ==
  \/ \E s \in Schedules : Take(w, s)
  \/ Insert(w) \/ Pay(w) \/ PayAborted(w) \/ RecordSuccess(w) \/ RecordFailure(w)

NextSchedules ==
  \/ \E s \in Schedules : Cancel(s) \/ \E d \in 0..(today + 1) : Create(s, d)
  \/ \E w \in Sweeps : Begin(w) \/ SweepStep(w) \/ Interrupt(w)
  \/ \E a \in Accounts : Spend(a) \/ Block(a)
  \/ \E c \in Customers : DeleteCustomer(c)
  \/ Tick

SpecSchedules == InitSchedules /\ [][NextSchedules]_scheduleVars

\* Beat keeps queueing sweeps and workers keep running them.
FairSchedules ==
  /\ SpecSchedules
  /\ \A w \in Sweeps :
       WF_scheduleVars(Begin(w)) /\ WF_scheduleVars(SweepStep(w))

-----------------------------------------------------------------------------
(* Properties *)

\* Every row and every sweep has the shape its table or task gives it; in
\* particular no payment overdraws an account.
SchedulesTypeOK ==
  /\ schedule \in [Schedules -> Schedule]
  /\ deleted \subseteq Customers
  /\ balance \in [Accounts -> Nat]
  /\ open \subseteq Accounts
  /\ paid \in [Schedules -> Nat]
  /\ sweep \in [Sweeps -> Sweep]
  /\ today \in Nat /\ interrupted \in 0..MaxInterruptions

\* The runs of a schedule that have come due by today.
RunsDue(s) ==
  IF schedule[s].state = "none" \/ schedule[s].start > today THEN 0
  ELSE (today - schedule[s].start) \div Period[s] + 1

\* As long as sweeps do not overlap, a sweep that is cut short between its two
\* commits costs one duplicate payment, and nothing else does.
DuplicatesAreInterruptions ==
  \A s \in Schedules : paid[s] <= RunsDue(s) + interrupted

\* A sweep that works with rows it read before a cancellation does not undo it.
CancellationSticks ==
  [][\A s \in Schedules :
       schedule[s].state = "cancelled" => schedule'[s].state = "cancelled"]_scheduleVars

Listed(s) == \E w \in Sweeps : s \in sweep[w].todo \cup {sweep[w].current}

\* Cancellation is final but for the sweeps that had listed the schedule: no
\* later sweep takes it up or pays it.
CancelledIsOver ==
  [][\A s \in Schedules : schedule[s].state = "cancelled" /\ ~Listed(s) =>
       ~Listed(s)' /\ paid'[s] = paid[s]]_scheduleVars

\* Each due run is dealt with: paid, recorded as a failure, or cancelled,
\* whatever happened to earlier sweeps.
DueIsHandled == \A s \in Schedules : s \in Due ~> s \notin Due

\* "One failing never blocks the others" (tasks.py): the same for schedules
\* whose transfer the database accepts, next to one it rejects.
OneFailureNeverBlocksOthers ==
  \A s \in Schedules \ Poisoned : s \in Due ~> s \notin Due
=============================================================================
