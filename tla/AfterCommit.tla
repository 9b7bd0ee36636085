----------------------------- MODULE AfterCommit -----------------------------
(***************************************************************************)
(* What follows a commit: backend/app/background_tasks.  A handler commits *)
(* and then hands its audit entry and its notifications to Celery, one     *)
(* .delay() after another, with Redis as the broker; a worker takes a task *)
(* and acknowledges it when it is over (task_acks_late).  Neither the      *)
(* commit and the messages nor the effect of a task and its acknowledgement*)
(* are one step.                                                           *)
(*                                                                         *)
(* The constant Tasks lists what the services send after one operation, in *)
(* their order.  Celery and Redis are external: a publish is tried again   *)
(* when its connection breaks, a message whose worker is gone is delivered *)
(* again, and one whose pool process alone died is not.                    *)
(***************************************************************************)
EXTENDS Naturals, Sequences, FiniteSets

CONSTANTS
  Ops,          \* operations that commit something
  Tasks,        \* names of the tasks an operation sends, in order
  Workers,      \* pool processes of the Celery worker
  MaxRetries,   \* retries of one publish
  MaxCopies,    \* bound: copies of one message that failures make
  NoJob

VARIABLES
  redisUp,      \* the broker is reachable
  op,           \* where each handler is
  queue,        \* copies of each task that wait in their queue
  job,          \* the task each worker has taken and not acknowledged
  effect,       \* audit_logs rows, or mails and SMS sent, of each task
  copies,       \* ghost: how often a task came into its queue
  missed        \* ghost: tasks, and the failure that lost a copy of them

commitVars == <<redisUp, op, queue, job, effect, copies, missed>>

Messages == Ops \X DOMAIN Tasks

OpState ==
  [pc : {"open", "refused", "publish", "answered", "failed", "stopped"},
   task : Nat, retries : 0 .. MaxRetries]

\* A task is taken, and then done or failed until it is acknowledged.
Job == [of : Messages, state : {"taken", "done", "failed"}]

\* Every operation modelled here sends something.
ASSUME AfterCommitAssumption ==
  /\ MaxRetries \in Nat /\ MaxCopies \in Nat
  /\ Len(Tasks) \in Nat \ {0} /\ DOMAIN Tasks = 1 .. Len(Tasks)
  /\ \A i, j \in DOMAIN Tasks : Tasks[i] = Tasks[j] => i = j
  /\ NoJob \notin Job

CommitInit ==
  /\ redisUp = TRUE
  /\ op = [o \in Ops |-> [pc |-> "open", task |-> 1, retries |-> 0]]
  /\ queue = [m \in Messages |-> 0]
  /\ job = [w \in Workers |-> NoJob]
  /\ effect = [m \in Messages |-> 0]
  /\ copies = [m \in Messages |-> 0]
  /\ missed = [m \in Messages |-> {}]

-----------------------------------------------------------------------------
(* Helpers *)

Holds(w, m) == job[w] # NoJob /\ job[w].of = m
Unfinished(m) == {w \in Workers : Holds(w, m) /\ job[w].state = "taken"}
Left(o) == {<<o, i>> : i \in op[o].task .. Len(Tasks)}
Enqueue(m) ==
  /\ copies[m] < MaxCopies  \* bound
  /\ queue' = [queue EXCEPT ![m] = @ + 1]
  /\ copies' = [copies EXCEPT ![m] = @ + 1]

\* A failure keeps the messages ms from being sent or from being done.
Miss(ms, cause) ==
  missed' = [m \in Messages |->
               IF m \in ms THEN missed[m] \cup {cause} ELSE missed[m]]

\* task_routes.
QueueOf(task) ==
  CASE task = "write_audit_log_task" -> "audit_queue"
    [] task = "send_notification_task" -> "notification_queue"
    [] task = "expire_stale_transactions_task" -> "default_queue"
    [] OTHER -> "celery"

\* Faulty variant: a worker that is not told of the other queues.
DefaultQueueOnly == {"celery"}

\* task_queues, the queues a worker listens to.
TaskQueues == {"celery", "audit_queue", "notification_queue", "default_queue"}

-----------------------------------------------------------------------------
(* The handler *)

\* The transaction commits; or it is rolled back, by the handler or because
\* its process stops.
Commit(o) ==
  /\ op[o].pc = "open"
  /\ op' = [op EXCEPT ![o].pc = "publish"]
  /\ UNCHANGED <<redisUp, queue, job, effect, copies, missed>>

Refuse(o) ==
  /\ op[o].pc = "open"
  /\ op' = [op EXCEPT ![o].pc = "refused"]
  /\ UNCHANGED <<redisUp, queue, job, effect, copies, missed>>

\* .delay() of the next task; after the last one the client is answered.
Publish(o) ==
  /\ op[o].pc = "publish" /\ redisUp
  /\ Enqueue(<<o, op[o].task>>)
  /\ op' = [op EXCEPT ![o] =
       [pc |-> IF op[o].task = Len(Tasks) THEN "answered" ELSE "publish",
        task |-> op[o].task + 1, retries |-> 0]]
  /\ UNCHANGED <<redisUp, job, effect, missed>>

\* Faulty variant: there is no end to the retries.
BreakPublishForever(o) ==
  /\ op[o].pc = "publish"
  /\ op' = [op EXCEPT ![o].retries = @ + 1]
  /\ UNCHANGED <<redisUp, queue, job, effect, copies, missed>>

\* The connection breaks; the message may have arrived.  After the last
\* retry .delay() raises, no handler of an exception expects it, and the
\* client reads 500 of what was committed: no later task is sent.
BreakPublish(o) ==
  /\ op[o].pc = "publish"
  /\ \/ redisUp /\ Enqueue(<<o, op[o].task>>)
     \/ UNCHANGED <<queue, copies>>
  /\ IF op[o].retries < MaxRetries
     THEN /\ op' = [op EXCEPT ![o].retries = @ + 1]
          /\ UNCHANGED missed
     ELSE /\ op' = [op EXCEPT ![o].pc = "failed"]
          /\ Miss({m \in Left(o) : copies'[m] = 0}, "broker")
  /\ UNCHANGED <<redisUp, job, effect>>

\* The process stops between the commit and its last message.
StopHandler(o) ==
  /\ op[o].pc = "publish"
  /\ op' = [op EXCEPT ![o].pc = "stopped"]
  /\ Miss({m \in Left(o) : copies[m] = 0}, "process")
  /\ UNCHANGED <<redisUp, queue, job, effect, copies>>

-----------------------------------------------------------------------------
(* The worker *)

Take(w, m) ==
  /\ job[w] = NoJob /\ redisUp
  /\ QueueOf(Tasks[m[2]]) \in TaskQueues /\ queue[m] > 0
  /\ queue' = [queue EXCEPT ![m] = @ - 1]
  /\ job' = [job EXCEPT ![w] = [of |-> m, state |-> "taken"]]
  /\ UNCHANGED <<redisUp, op, effect, copies, missed>>

Runs(w, task) ==
  job[w] # NoJob /\ job[w].state = "taken" /\ Tasks[job[w].of[2]] = task

\* The task is over, with n more of its effects.
EndTask(w, state, n) ==
  /\ effect' = [effect EXCEPT ![job[w].of] = @ + n]
  /\ job' = [job EXCEPT ![w].state = state]
  /\ UNCHANGED <<redisUp, op, queue, copies>>

\* The row of the audit entry is committed.
WriteAuditLog(w) ==
  /\ Runs(w, "write_audit_log_task")
  /\ EndTask(w, "done", 1)
  /\ UNCHANGED missed

\* The provider accepts the mail or the SMS.
SendNotification(w) ==
  /\ Runs(w, "send_notification_task")
  /\ EndTask(w, "done", 1)
  /\ UNCHANGED missed

\* The recipient is not there any more: the task returns.
SkipNotification(w) ==
  /\ Runs(w, "send_notification_task")
  /\ EndTask(w, "failed", 0)
  /\ Miss({job[w].of}, "effect")

\* The database or the provider refuses, or its answer is lost and it may
\* have accepted: the task raises, and max_retries has no effect, as nothing
\* calls retry.
FailTask(w) ==
  /\ job[w] # NoJob /\ job[w].state = "taken"
  /\ \E n \in 0 .. 1 : EndTask(w, "failed", n)
  /\ Miss({job[w].of}, "effect")

Acknowledge(w) ==
  /\ job[w] # NoJob /\ job[w].state # "taken" /\ redisUp
  /\ job' = [job EXCEPT ![w] = NoJob]
  /\ UNCHANGED <<redisUp, op, queue, effect, copies, missed>>

\* Faulty variant: without task_acks_late a task was acknowledged when it
\* was taken, and is not delivered again.
LoseAcknowledged(w) ==
  /\ job[w] # NoJob
  /\ job' = [job EXCEPT ![w] = NoJob]
  /\ UNCHANGED <<redisUp, op, queue, effect, copies, missed>>

\* The worker, or its connection, is lost: the broker delivers again what
\* was not acknowledged, done or not.
LoseWorker(w) ==
  /\ job[w] # NoJob
  /\ Enqueue(job[w].of)
  /\ job' = [job EXCEPT ![w] = NoJob]
  /\ UNCHANGED <<redisUp, op, effect, missed>>

\* The pool process alone is killed: the worker acknowledges its task, as
\* task_reject_on_worker_lost is not set.
KillPoolProcess(w) ==
  /\ job[w] # NoJob /\ redisUp
  /\ IF job[w].state = "taken" THEN Miss({job[w].of}, "pool")
     ELSE UNCHANGED missed
  /\ job' = [job EXCEPT ![w] = NoJob]
  /\ UNCHANGED <<redisUp, op, queue, effect, copies>>

FlipBroker ==
  /\ redisUp' = ~redisUp
  /\ UNCHANGED <<op, queue, job, effect, copies, missed>>

-----------------------------------------------------------------------------

WorkerStep(w) ==
  \/ WriteAuditLog(w) \/ SendNotification(w) \/ SkipNotification(w)
  \/ FailTask(w) \/ Acknowledge(w)

CommitNext ==
  \/ \E o \in Ops :
       \/ Commit(o) \/ Refuse(o)
       \/ Publish(o) \/ BreakPublish(o) \/ StopHandler(o)
  \/ \E w \in Workers :
       \/ \E m \in Messages : Take(w, m)
       \/ WorkerStep(w) \/ LoseWorker(w) \/ KillPoolProcess(w)
  \/ FlipBroker

\* The worker is restarted when it dies and goes on with what it took; an
\* outage of the broker ends, and each queue is served in the end.
CommitFairness ==
  /\ WF_commitVars(FlipBroker /\ redisUp')
  /\ \A w \in Workers : SF_commitVars(WorkerStep(w))
  /\ \A m \in Messages : SF_commitVars(\E w \in Workers : Take(w, m))

CommitSpec == CommitInit /\ [][CommitNext]_commitVars
FairCommitSpec == CommitSpec /\ CommitFairness

-----------------------------------------------------------------------------
(* Properties *)

\* The type invariant of handlers, queues and workers.
CommitTypeOK ==
  /\ redisUp \in BOOLEAN
  /\ op \in [Ops -> OpState]
  /\ queue \in [Messages -> Nat]
  /\ job \in [Workers -> Job \cup {NoJob}]
  /\ effect \in [Messages -> Nat]
  /\ copies \in [Messages -> Nat]
  /\ missed \in [Messages -> SUBSET {"process", "broker", "effect", "pool"}]

\* Nothing is audited or notified of an operation that was rolled back; and
\* each task of a committed one is still to be sent, waits, runs or is done,
\* exactly once if it came into its queue once, unless a failure that no
\* code repairs has hit it: the handler's process or the broker went down
\* after the commit, the effect was refused, the pool process was killed.
TasksAreAccountedFor ==
  \A m \in Messages :
    LET handler == op[m[1]]
        known == effect[m] + queue[m] + Cardinality(Unfinished(m))
    IN
    CASE handler.pc \in {"open", "refused"} -> known = 0
      [] missed[m] # {} -> TRUE
      [] handler.pc = "publish" /\ handler.task <= m[2] ->
           known = 0 \/ handler.retries > 0
      [] OTHER -> known >= 1 /\ (copies[m] = 1 => known = 1)

\* Whatever is sent is dealt with in the end, on whichever queue it is:
\* there is an audit row or a notification, or its task has failed.
SentTasksEnd ==
  \A m \in Messages :
    copies[m] > 0 ~> effect[m] > 0 \/ missed[m] # {}

=============================================================================
