-------------------------- MODULE AfterCommitProofs --------------------------
(* Theorems about AfterCommit, for every value of its constants. *)
EXTENDS AfterCommit, FiniteSetTheorems, TLAPS

\* The workers that have taken m and not finished it, counted.
Running(m) == Cardinality(Unfinished(m))

\* What is known of m: its effects, and its copies that wait or run.
Known(m) == effect[m] + queue[m] + Running(m)

\* A handler that publishes is at one of its tasks.
HandlersInRange ==
  \A o \in Ops :
    /\ op[o].pc \in {"open", "refused", "publish"} => op[o].task \in 1 .. Len(Tasks)
    /\ op[o].pc \in {"open", "refused"} => op[o].task = 1

\* A message is in its queue, or was, if its handler got past it; the handler
\* at its task cannot know.
Sent(m) ==
  LET handler == op[m[1]] IN
  /\ handler.pc \in {"open", "refused"} => copies[m] = 0
  /\ handler.pc = "publish" =>
       /\ m[2] < handler.task => copies[m] > 0
       /\ m[2] = handler.task /\ copies[m] > 0 => handler.retries > 0
       /\ m[2] > handler.task => copies[m] = 0
  /\ handler.pc = "answered" => copies[m] > 0
  /\ handler.pc \in {"failed", "stopped"} => copies[m] > 0 \/ missed[m] # {}

\* No message has more effects, waiting and running copies than came into its
\* queue; and none has lost them all, unless a failure hit it.
Counted(m) ==
  /\ Known(m) <= copies[m]
  /\ \A w \in Workers : Holds(w, m) => copies[m] > 0
  /\ copies[m] > 0 /\ missed[m] = {} => Known(m) > 0
  /\ op[m[1]].pc \in {"open", "refused"} => missed[m] = {}

ACInv ==
  /\ CommitTypeOK
  /\ HandlersInRange
  /\ \A m \in Messages : Sent(m) /\ Counted(m)

-----------------------------------------------------------------------------

\* Any worker that counts is a worker, and those are finitely many.
LEMMA RunningIsNat ==
  ASSUME IsFiniteSet(Workers), NEW m
  PROVE  IsFiniteSet(Unfinished(m)) /\ Running(m) \in Nat
<1>1. Unfinished(m) \subseteq Workers
  BY DEF Unfinished
<1>2. IsFiniteSet(Unfinished(m))
  BY <1>1, FS_Subset
<1> QED
  BY <1>2, FS_CardinalityType DEF Running

\* What one worker does changes the count of m by what it does to m.
LEMMA Recount ==
  ASSUME IsFiniteSet(Workers), NEW m, NEW w \in Workers,
         \A v \in Workers \ {w} : job'[v] = job[v]
  PROVE  /\ w \in Unfinished(m) /\ w \in Unfinished(m)' => Running(m)' = Running(m)
         /\ w \notin Unfinished(m) /\ w \notin Unfinished(m)' =>
              Running(m)' = Running(m)
         /\ w \notin Unfinished(m) /\ w \in Unfinished(m)' =>
              Running(m)' = Running(m) + 1
         /\ w \in Unfinished(m) /\ w \notin Unfinished(m)' =>
              Running(m) = Running(m)' + 1
<1>1. \A v \in Workers \ {w} : v \in Unfinished(m)' <=> v \in Unfinished(m)
  BY DEF Unfinished, Holds
<1>2. Unfinished(m) \subseteq Workers /\ Unfinished(m)' \subseteq Workers
  BY DEF Unfinished
<1>3. IsFiniteSet(Unfinished(m)) /\ IsFiniteSet(Unfinished(m)')
  BY <1>2, FS_Subset
<1>4. CASE w \in Unfinished(m) <=> w \in Unfinished(m)'
  <2>1. Unfinished(m)' = Unfinished(m)
    BY <1>1, <1>2, <1>4
  <2> QED
    BY <1>4, <2>1 DEF Running
<1>5. CASE w \notin Unfinished(m) /\ w \in Unfinished(m)'
  <2>1. Unfinished(m)' = Unfinished(m) \cup {w}
    BY <1>1, <1>2, <1>5
  <2>2. Cardinality(Unfinished(m) \cup {w}) = Cardinality(Unfinished(m)) + 1
    BY <1>3, <1>5, FS_AddElement
  <2> QED
    BY <1>5, <2>1, <2>2 DEF Running
<1>6. CASE w \in Unfinished(m) /\ w \notin Unfinished(m)'
  <2>1. Unfinished(m) = Unfinished(m)' \cup {w}
    BY <1>1, <1>2, <1>6
  <2>2. Cardinality(Unfinished(m)' \cup {w}) = Cardinality(Unfinished(m)') + 1
    BY <1>3, <1>6, FS_AddElement
  <2> QED
    BY <1>6, <2>1, <2>2 DEF Running
<1> QED
  BY <1>4, <1>5, <1>6

\* A message names an operation and one of its tasks.
LEMMA MessageParts ==
  ASSUME NEW m \in Messages
  PROVE  m = <<m[1], m[2]>> /\ m[1] \in Ops /\ m[2] \in 1 .. Len(Tasks)
BY AfterCommitAssumption DEF Messages

\* What is known of a message is a number.
LEMMA KnownIsNat ==
  ASSUME IsFiniteSet(Workers), CommitTypeOK, NEW m \in Messages
  PROVE  /\ effect[m] \in Nat /\ queue[m] \in Nat /\ copies[m] \in Nat
         /\ Running(m) \in Nat /\ Known(m) \in Nat
         /\ Known(m) = effect[m] + queue[m] + Running(m)
<1>1. Running(m) \in Nat
  BY RunningIsNat
<1> QED
  BY <1>1 DEF CommitTypeOK, Known

\* Nothing is sent before an operation commits.
LEMMA ACInvInit ==
  ASSUME IsFiniteSet(Workers), CommitInit
  PROVE  ACInv
<1>1. CommitTypeOK
  BY AfterCommitAssumption DEF CommitInit, CommitTypeOK, OpState
<1>2. HandlersInRange
  BY AfterCommitAssumption DEF CommitInit, HandlersInRange
<1>3. ASSUME NEW m \in Messages
      PROVE  Sent(m) /\ Counted(m)
  <2>1. m[1] \in Ops
    BY MessageParts
  <2>2. \A w \in Workers : ~ Holds(w, m)
    BY DEF CommitInit, Holds
  <2>3. Unfinished(m) = {}
    BY <2>2 DEF Unfinished
  <2>4. Running(m) = 0
    BY <2>3, FS_EmptySet DEF Running
  <2>5. Known(m) = 0 /\ copies[m] = 0 /\ missed[m] = {}
    BY <2>4 DEF CommitInit, Known
  <2>6. op[m[1]].pc = "open"
    BY <2>1 DEF CommitInit
  <2> QED
    BY <2>2, <2>5, <2>6 DEF Sent, Counted
<1> QED
  BY <1>1, <1>2, <1>3 DEF ACInv

\* A step that leaves the handler of m alone keeps what is said of its
\* sending, if it sends m no first time and forgets no failure.
LEMMA KeepsSent ==
  ASSUME CommitTypeOK, CommitTypeOK', NEW m \in Messages, Sent(m),
         op'[m[1]] = op[m[1]], copies'[m] > 0 <=> copies[m] > 0,
         missed[m] # {} => missed'[m] # {}
  PROVE  Sent(m)'
<1>1. copies[m] \in Nat /\ copies'[m] \in Nat
  BY DEF CommitTypeOK
<1>2. copies'[m] = 0 <=> copies[m] = 0
  BY <1>1
<1> QED
  BY <1>2 DEF Sent

\* A step that leaves what is known of m and its copies alone keeps what is
\* counted of it, if it forgets no failure.
LEMMA KeepsCounted ==
  ASSUME NEW m \in Messages, Counted(m),
         UNCHANGED <<effect[m], queue[m], copies[m]>>,
         missed[m] # {} => missed'[m] # {},
         Running(m)' = Running(m),
         \A w \in Workers : Holds(w, m)' => Holds(w, m),
         op'[m[1]].pc \in {"open", "refused"} =>
           op[m[1]].pc \in {"open", "refused"} /\ missed'[m] = missed[m]
  PROVE  Counted(m)'
<1>1. Known(m)' = Known(m)
  BY DEF Known
<1> QED
  BY <1>1 DEF Counted

\* The workers go on as they were: what each runs does not change.
LEMMA SameJobs ==
  ASSUME UNCHANGED job, NEW m
  PROVE  Running(m)' = Running(m) /\ \A w \in Workers : Holds(w, m)' <=> Holds(w, m)
BY DEF Running, Unfinished, Holds

-----------------------------------------------------------------------------
(* The handler *)

\* A commit or a refusal sends nothing yet.
LEMMA DecidingKeepsACInv ==
  ASSUME ACInv, NEW o \in Ops, Commit(o) \/ Refuse(o)
  PROVE  ACInv'
<1>1. PICK p \in {"publish", "refused"} :
        op[o].pc = "open" /\ op' = [op EXCEPT ![o].pc = p]
  BY DEF Commit, Refuse
<1>2. UNCHANGED <<redisUp, queue, job, effect, copies, missed>>
  BY DEF Commit, Refuse
<1>3. CommitTypeOK' /\ op'[o] = [op[o] EXCEPT !.pc = p]
  BY <1>1, <1>2 DEF ACInv, CommitTypeOK, OpState
<1>4. HandlersInRange'
  BY <1>1, <1>3, AfterCommitAssumption DEF ACInv, HandlersInRange, CommitTypeOK, OpState
<1>5. ASSUME NEW m \in Messages
      PROVE  Sent(m)' /\ Counted(m)'
  <2>1. Sent(m) /\ Counted(m) /\ CommitTypeOK /\ HandlersInRange
    BY DEF ACInv
  <2>2. UNCHANGED <<effect[m], queue[m], copies[m], missed[m]>>
    BY <1>2
  <2>3. Running(m)' = Running(m) /\ \A w \in Workers : Holds(w, m)' => Holds(w, m)
    BY <1>2, SameJobs
  <2>4. m[1] \in Ops /\ m[2] \in 1 .. Len(Tasks)
    BY MessageParts
  <2>5. op'[m[1]].pc \in {"open", "refused"} => op[m[1]].pc \in {"open", "refused"}
    BY <1>1, <1>3, <2>4 DEF ACInv, CommitTypeOK, OpState
  <2>6. Counted(m)'
    BY <2>1, <2>2, <2>3, <2>5, KeepsCounted
  <2>7. CASE m[1] # o
    <3>1. op'[m[1]] = op[m[1]]
      BY <1>1, <2>4, <2>7 DEF ACInv, CommitTypeOK
    <3> QED
      BY <1>3, <2>1, <2>2, <2>6, <3>1, KeepsSent
  <2>8. CASE m[1] = o
    <3>1. copies'[m] = 0 /\ op[o].task = 1
      BY <1>1, <2>1, <2>2, <2>8 DEF Sent, HandlersInRange
    <3>2. op'[o].pc = p /\ op'[o].task = 1
      BY <1>3, <3>1, <2>1 DEF CommitTypeOK, OpState
    <3>3. m[2] >= 1
      BY <2>4
    <3> QED
      BY <2>4, <2>6, <2>8, <3>1, <3>2, <3>3 DEF Sent
  <2> QED
    BY <2>7, <2>8
<1> QED
  BY <1>3, <1>4, <1>5 DEF ACInv

\* What comes into a queue, comes into one queue.
LEMMA EnqueueIsOne ==
  ASSUME CommitTypeOK, NEW k \in Messages, Enqueue(k)
  PROVE  /\ queue' \in [Messages -> Nat] /\ copies' \in [Messages -> Nat]
         /\ queue'[k] = queue[k] + 1 /\ copies'[k] = copies[k] + 1
         /\ \A m \in Messages \ {k} : queue'[m] = queue[m] /\ copies'[m] = copies[m]
BY DEF CommitTypeOK, Enqueue

\* A failure is added for some messages and none is forgotten.
LEMMA MissAdds ==
  ASSUME CommitTypeOK, NEW ms, NEW cause \in {"process", "broker", "effect", "pool"},
         Miss(ms, cause)
  PROVE  /\ missed' \in [Messages -> SUBSET {"process", "broker", "effect", "pool"}]
         /\ \A m \in Messages : missed[m] \subseteq missed'[m]
         /\ \A m \in Messages : m \notin ms => missed'[m] = missed[m]
         /\ \A m \in Messages : m \in ms => missed'[m] # {}
BY DEF CommitTypeOK, Miss

\* The message that a handler is about to send.
LEMMA CurrentMessage ==
  ASSUME ACInv, NEW o \in Ops, op[o].pc = "publish"
  PROVE  <<o, op[o].task>> \in Messages
BY AfterCommitAssumption DEF ACInv, HandlersInRange, Messages

\* What is sent is counted when it comes into its queue, by one on each side.
LEMMA SendingKeepsCounted ==
  ASSUME IsFiniteSet(Workers), CommitTypeOK, CommitTypeOK',
         NEW m \in Messages, Counted(m),
         queue'[m] = queue[m] + 1, copies'[m] = copies[m] + 1,
         UNCHANGED <<effect[m], job>>, op'[m[1]].pc \notin {"open", "refused"}
  PROVE  Counted(m)'
<1>1. Running(m)' = Running(m) /\ \A w \in Workers : Holds(w, m)' <=> Holds(w, m)
  BY SameJobs
<1>2. /\ effect[m] \in Nat /\ queue[m] \in Nat /\ copies[m] \in Nat
      /\ Running(m) \in Nat /\ Known(m) = effect[m] + queue[m] + Running(m)
  BY KnownIsNat
<1>3. Known(m)' = Known(m) + 1 /\ Known(m) \in Nat
  BY <1>1, <1>2 DEF Known
<1>4. copies'[m] > 0 /\ Known(m)' > 0 /\ Known(m)' <= copies'[m]
  BY <1>2, <1>3 DEF Counted
<1> QED
  BY <1>4 DEF Counted

\* A message that was published is counted, and its handler goes on.
LEMMA PublishKeepsACInv ==
  ASSUME IsFiniteSet(Workers), ACInv, NEW o \in Ops, Publish(o)
  PROVE  ACInv'
<1> USE DEF ACInv
<1>1. PICK k \in Messages : k = <<o, op[o].task>> /\ Enqueue(k)
  BY CurrentMessage DEF Publish
<1>2. /\ queue' \in [Messages -> Nat] /\ copies' \in [Messages -> Nat]
      /\ queue'[k] = queue[k] + 1 /\ copies'[k] = copies[k] + 1
      /\ \A m \in Messages \ {k} : queue'[m] = queue[m] /\ copies'[m] = copies[m]
  BY <1>1, EnqueueIsOne
<1>3. PICK t \in 1 .. Len(Tasks) : t = op[o].task
  BY DEF Publish, HandlersInRange
<1>4. PICK p \in {"publish", "answered"} :
        p = IF t = Len(Tasks) THEN "answered" ELSE "publish"
  OBVIOUS
<1>5. /\ op[o].pc = "publish"
      /\ op' = [op EXCEPT ![o] = [pc |-> p, task |-> t + 1, retries |-> 0]]
      /\ UNCHANGED <<redisUp, job, effect, missed>>
  BY <1>3, <1>4 DEF Publish
<1>6. [pc |-> p, task |-> t + 1, retries |-> 0] \in OpState
  BY AfterCommitAssumption DEF OpState
<1>7. CommitTypeOK'
  BY <1>2, <1>5, <1>6 DEF CommitTypeOK
<1>8. op'[o] = [pc |-> p, task |-> t + 1, retries |-> 0]
  BY <1>5 DEF CommitTypeOK
<1>9. HandlersInRange'
  BY <1>3, <1>4, <1>5, <1>8, AfterCommitAssumption DEF HandlersInRange, CommitTypeOK
<1>10. ASSUME NEW m \in Messages
       PROVE  Sent(m)' /\ Counted(m)'
  <2>1. m = <<m[1], m[2]>> /\ m[1] \in Ops /\ m[2] \in 1 .. Len(Tasks)
    BY MessageParts
  <2>2. Running(m)' = Running(m) /\ \A w \in Workers : Holds(w, m)' => Holds(w, m)
    BY <1>5, SameJobs
  <2>3. CASE m[1] # o
    <3>1. op'[m[1]] = op[m[1]] /\ m # k
      BY <1>1, <1>5, <2>1, <2>3 DEF CommitTypeOK
    <3>2. UNCHANGED <<effect[m], queue[m], copies[m], missed[m]>>
      BY <1>2, <1>5, <3>1
    <3>3. Sent(m)'
      BY <1>7, <3>1, <3>2, KeepsSent
    <3> QED
      BY <2>2, <3>1, <3>2, <3>3, KeepsCounted
  <2>4. CASE m = k
    <3>1. m[1] = o /\ m[2] = t
      BY <1>1, <1>3, <2>4
    <3>2. op'[m[1]].pc \notin {"open", "refused"}
      BY <1>8, <3>1
    <3>3. Counted(m)'
      BY <1>2, <1>5, <1>7, <2>4, <3>2, SendingKeepsCounted
    <3>4. copies'[m] > 0 /\ t < t + 1
      BY <1>2, <2>4 DEF CommitTypeOK
    <3>5. Sent(m)'
      BY <1>8, <3>1, <3>4 DEF Sent
    <3> QED
      BY <3>3, <3>5
  <2>5. CASE m[1] = o /\ m # k
    <3>1. m[2] # t
      BY <1>1, <1>3, <2>1, <2>5
    <3>2. UNCHANGED <<effect[m], queue[m], copies[m], missed[m]>>
      BY <1>2, <1>5, <2>5
    <3>3. op'[m[1]].pc \in {"open", "refused"} => op[m[1]].pc \in {"open", "refused"}
      BY <1>8, <2>5
    <3>4. Counted(m)'
      BY <2>2, <3>2, <3>3, KeepsCounted
    <3>5. /\ m[2] < t => copies'[m] > 0
          /\ m[2] > t => copies'[m] = 0
      BY <1>3, <1>5, <2>5, <3>2 DEF Sent
    <3>6. p = "answered" => m[2] < t
      BY <1>4, <2>1, <3>1
    <3>7. m[2] < t + 1 => m[2] < t
      BY <2>1, <3>1
    <3>8. m[2] >= t + 1 => m[2] > t
      BY <2>1, <3>1
    <3>9. ~ (copies'[m] = 0 /\ copies'[m] > 0)
      OBVIOUS
    <3>10. Sent(m)'
      BY <1>8, <2>1, <2>5, <3>5, <3>6, <3>7, <3>8, <3>9 DEF Sent
    <3> QED
      BY <3>4, <3>10
  <2> QED
    BY <1>1, <2>3, <2>4, <2>5
<1> QED
  BY <1>7, <1>9, <1>10

\* A publish that breaks sends its message or does not, and the handler tries
\* again or gives up with what was not sent noted.
LEMMA BreakPublishKeepsACInv ==
  ASSUME IsFiniteSet(Workers), ACInv, NEW o \in Ops, BreakPublish(o)
  PROVE  ACInv'
<1> USE DEF ACInv
<1>1. PICK k \in Messages : k = <<o, op[o].task>>
  BY CurrentMessage DEF BreakPublish
<1>2. PICK t \in 1 .. Len(Tasks) : t = op[o].task
  BY DEF BreakPublish, HandlersInRange
<1>3. PICK r \in 0 .. MaxRetries : r = op[o].retries
  BY DEF CommitTypeOK, OpState
<1>4. /\ queue' \in [Messages -> Nat] /\ copies' \in [Messages -> Nat]
      /\ \/ queue'[k] = queue[k] + 1 /\ copies'[k] = copies[k] + 1
         \/ queue'[k] = queue[k] /\ copies'[k] = copies[k]
      /\ \A m \in Messages \ {k} : queue'[m] = queue[m] /\ copies'[m] = copies[m]
  <2>1. CASE Enqueue(k)
    BY <2>1, EnqueueIsOne
  <2>2. CASE UNCHANGED <<queue, copies>>
    BY <2>2 DEF CommitTypeOK
  <2> QED
    BY <1>1, <2>1, <2>2 DEF BreakPublish
<1>5. op[o].pc = "publish" /\ UNCHANGED <<redisUp, job, effect>>
  BY DEF BreakPublish
<1>6. \/ /\ r < MaxRetries /\ op' = [op EXCEPT ![o].retries = @ + 1]
         /\ UNCHANGED missed
      \/ /\ op' = [op EXCEPT ![o].pc = "failed"]
         /\ Miss({m \in Left(o) : copies'[m] = 0}, "broker")
  BY <1>3 DEF BreakPublish
<1>7. /\ missed' \in [Messages -> SUBSET {"process", "broker", "effect", "pool"}]
      /\ \A m \in Messages : missed[m] # {} => missed'[m] # {}
      /\ \A m \in Messages : m \notin Left(o) => missed'[m] = missed[m]
  <2>1. CASE UNCHANGED missed
    BY <2>1 DEF CommitTypeOK
  <2>2. CASE Miss({m \in Left(o) : copies'[m] = 0}, "broker")
    BY <2>2, MissAdds
  <2> QED
    BY <1>6, <2>1, <2>2
<1>8. /\ op' \in [Ops -> OpState]
      /\ \A q \in Ops \ {o} : op'[q] = op[q]
      /\ op'[o].task = t
      /\ op'[o].pc \in {"publish", "failed"}
      /\ op'[o].pc = "publish" => op'[o].retries > 0
  <2>1. CASE r < MaxRetries /\ op' = [op EXCEPT ![o].retries = @ + 1]
    <3>1. PICK n \in 0 .. MaxRetries : n = r + 1 /\ n > 0
      BY <2>1, AfterCommitAssumption
    <3>2. op' = [op EXCEPT ![o].retries = n]
      BY <1>3, <2>1, <3>1
    <3> QED
      BY <1>2, <1>5, <3>1, <3>2 DEF CommitTypeOK, OpState
  <2>2. CASE op' = [op EXCEPT ![o].pc = "failed"]
    BY <1>2, <2>2 DEF CommitTypeOK, OpState
  <2> QED
    BY <1>6, <2>1, <2>2
<1>9. CommitTypeOK'
  BY <1>4, <1>5, <1>7, <1>8 DEF CommitTypeOK
<1>10. HandlersInRange'
  BY <1>2, <1>8 DEF HandlersInRange
<1>11. op'[o].pc = "failed" =>
         \A m \in Messages : m \in Left(o) /\ copies'[m] = 0 => missed'[m] # {}
  <2>1. CASE Miss({m \in Left(o) : copies'[m] = 0}, "broker")
    BY <2>1, MissAdds
  <2>2. CASE r < MaxRetries /\ op' = [op EXCEPT ![o].retries = @ + 1]
    BY <1>5, <2>2 DEF CommitTypeOK, OpState
  <2> QED
    BY <1>6, <2>1, <2>2
<1>12. ASSUME NEW m \in Messages
       PROVE  Counted(m)'
  <2>1. m[1] \in Ops
    BY MessageParts
  <2>2. Running(m)' = Running(m) /\ \A w \in Workers : Holds(w, m)' => Holds(w, m)
    BY <1>5, SameJobs
  <2>3. op'[m[1]].pc \in {"open", "refused"} =>
          op[m[1]].pc \in {"open", "refused"} /\ missed'[m] = missed[m]
    <3>1. CASE m[1] = o
      BY <1>8, <3>1
    <3>2. CASE m[1] # o
      BY <1>7, <1>8, <2>1, <3>2 DEF Left
    <3> QED
      BY <3>1, <3>2
  <2>4. CASE queue'[m] = queue[m] /\ copies'[m] = copies[m]
    <3>1. UNCHANGED <<effect[m], queue[m], copies[m]>>
      BY <1>5, <2>4
    <3> QED
      BY <1>7, <2>2, <2>3, <3>1, KeepsCounted
  <2>5. CASE m = k /\ queue'[k] = queue[k] + 1 /\ copies'[k] = copies[k] + 1
    <3>1. op'[m[1]].pc \notin {"open", "refused"}
      BY <1>1, <1>8, <2>5
    <3>2. UNCHANGED <<effect[m], job>>
      BY <1>5
    <3> QED
      BY <1>9, <2>5, <3>1, <3>2, SendingKeepsCounted
  <2> QED
    BY <1>4, <2>4, <2>5
<1>13. ASSUME NEW m \in Messages
       PROVE  Sent(m)'
  <2>1. m = <<m[1], m[2]>> /\ m[1] \in Ops /\ m[2] \in 1 .. Len(Tasks)
    BY MessageParts
  <2>2. CASE m[1] # o
    <3>1. op'[m[1]] = op[m[1]] /\ m # k
      BY <1>1, <1>8, <2>1, <2>2
    <3> QED
      BY <1>4, <1>7, <1>9, <3>1, KeepsSent
  <2>3. CASE m[1] = o
    <3>1. copies[m] \in Nat /\ copies'[m] \in Nat
      BY <1>4 DEF CommitTypeOK
    <3>2. m = k <=> m[2] = t
      BY <1>1, <1>2, <2>1, <2>3
    <3>3. /\ m[2] < t => copies'[m] > 0
          /\ m[2] > t => copies'[m] = 0
      BY <1>2, <1>4, <1>5, <2>1, <2>3, <3>2 DEF Sent
    <3>4. m \in Left(o) <=> m[2] >= t
      BY <1>2, <2>1, <2>3 DEF Left
    <3>5. op'[o].pc = "failed" => copies'[m] > 0 \/ missed'[m] # {}
      BY <1>11, <2>1, <3>1, <3>3, <3>4
    <3> QED
      BY <1>8, <2>3, <3>3, <3>5 DEF Sent
  <2> QED
    BY <2>2, <2>3
<1> QED
  BY <1>9, <1>10, <1>12, <1>13

\* A handler that stops leaves what it sent, and the rest is noted as missed.
LEMMA StopHandlerKeepsACInv ==
  ASSUME ACInv, NEW o \in Ops, StopHandler(o)
  PROVE  ACInv'
<1> USE DEF ACInv
<1>1. /\ op[o].pc = "publish" /\ op' = [op EXCEPT ![o].pc = "stopped"]
      /\ Miss({m \in Left(o) : copies[m] = 0}, "process")
      /\ UNCHANGED <<redisUp, queue, job, effect, copies>>
  BY DEF StopHandler
<1>2. /\ missed' \in [Messages -> SUBSET {"process", "broker", "effect", "pool"}]
      /\ \A m \in Messages : missed[m] # {} => missed'[m] # {}
      /\ \A m \in Messages : m \notin Left(o) => missed'[m] = missed[m]
      /\ \A m \in Messages : m \in Left(o) /\ copies[m] = 0 => missed'[m] # {}
  BY <1>1, MissAdds
<1>3. /\ op' \in [Ops -> OpState]
      /\ \A q \in Ops \ {o} : op'[q] = op[q]
      /\ op'[o].pc = "stopped"
  BY <1>1 DEF CommitTypeOK, OpState
<1>4. CommitTypeOK'
  BY <1>1, <1>2, <1>3 DEF CommitTypeOK
<1>5. HandlersInRange'
  BY <1>3 DEF HandlersInRange
<1>6. ASSUME NEW m \in Messages
      PROVE  Sent(m)' /\ Counted(m)'
  <2>1. m = <<m[1], m[2]>> /\ m[1] \in Ops /\ m[2] \in 1 .. Len(Tasks)
    BY MessageParts
  <2>2. Running(m)' = Running(m) /\ \A w \in Workers : Holds(w, m)' => Holds(w, m)
    BY <1>1, SameJobs
  <2>3. op'[m[1]].pc \in {"open", "refused"} =>
          op[m[1]].pc \in {"open", "refused"} /\ missed'[m] = missed[m]
    BY <1>2, <1>3, <2>1 DEF Left
  <2>4. UNCHANGED <<effect[m], queue[m], copies[m]>>
    BY <1>1
  <2>5. Counted(m)'
    BY <1>2, <2>2, <2>3, <2>4, KeepsCounted
  <2>6. CASE m[1] # o
    <3>1. op'[m[1]] = op[m[1]]
      BY <1>3, <2>1, <2>6
    <3> QED
      BY <1>2, <1>4, <2>4, <2>5, <3>1, KeepsSent
  <2>7. CASE m[1] = o
    <3>1. m \in Left(o) <=> m[2] >= op[o].task
      BY <1>1, <2>1, <2>7 DEF Left, HandlersInRange
    <3>2. copies[m] \in Nat /\ op[o].task \in Nat
      BY DEF CommitTypeOK, OpState
    <3>3. copies'[m] > 0 \/ missed'[m] # {}
      BY <1>1, <1>2, <2>1, <2>4, <2>7, <3>1, <3>2 DEF Sent
    <3> QED
      BY <1>3, <2>5, <2>7, <3>3 DEF Sent
  <2> QED
    BY <2>6, <2>7
<1> QED
  BY <1>4, <1>5, <1>6

-----------------------------------------------------------------------------
(* The worker *)

\* A worker that holds a task holds one of a message that came into its queue.
LEMMA HeldMessage ==
  ASSUME ACInv, NEW w \in Workers, job[w] # NoJob
  PROVE  /\ job[w].of \in Messages /\ job[w].state \in {"taken", "done", "failed"}
         /\ job[w] \in Job /\ copies[job[w].of] > 0
         /\ w \in Unfinished(job[w].of) <=> job[w].state = "taken"
         /\ \A m : m # job[w].of => ~ Holds(w, m)
<1>1. job[w] \in Job
  BY DEF ACInv, CommitTypeOK
<1>2. job[w].of \in Messages /\ job[w].state \in {"taken", "done", "failed"}
  BY <1>1 DEF Job
<1>3. Holds(w, job[w].of) /\ \A m : m # job[w].of => ~ Holds(w, m)
  BY DEF Holds
<1>4. copies[job[w].of] > 0
  BY <1>2, <1>3 DEF ACInv, Counted
<1> QED
  BY <1>1, <1>2, <1>3, <1>4 DEF Unfinished

\* A step of worker w with message k keeps the invariant if it counts a copy
\* that comes again, counts as before, or notes what it loses.
LEMMA WorkerKeepsACInv ==
  ASSUME IsFiniteSet(Workers), ACInv, CommitTypeOK', UNCHANGED op,
         NEW w \in Workers, NEW k \in Messages, copies[k] > 0,
         \A v \in Workers \ {w} : job'[v] = job[v],
         \A m \in Messages \ {k} :
           /\ effect'[m] = effect[m] /\ queue'[m] = queue[m]
           /\ copies'[m] = copies[m] /\ missed'[m] = missed[m]
           /\ ~ Holds(w, m) /\ ~ Holds(w, m)',
         missed[k] # {} => missed'[k] # {},
         \/ Known(k)' = Known(k) /\ copies'[k] \in {copies[k], copies[k] + 1}
         \/ Known(k)' = Known(k) + 1 /\ copies'[k] = copies[k] + 1
         \/ Known(k)' <= Known(k) /\ copies'[k] = copies[k] /\ missed'[k] # {}
  PROVE  ACInv'
<1>1. HandlersInRange'
  BY DEF ACInv, HandlersInRange
<1>2. CommitTypeOK /\ \A m \in Messages : Sent(m) /\ Counted(m)
  BY DEF ACInv
<1>3. ASSUME NEW m \in Messages, m # k
      PROVE  Sent(m)' /\ Counted(m)'
  <2>1. UNCHANGED <<effect[m], queue[m], copies[m]>> /\ missed'[m] = missed[m]
    BY <1>3
  <2>2. w \notin Unfinished(m) /\ w \notin Unfinished(m)'
    BY <1>3 DEF Unfinished
  <2>3. Running(m)' = Running(m)
    BY <2>2, Recount
  <2>4. \A v \in Workers : Holds(v, m)' => Holds(v, m)
    BY <1>3 DEF Holds
  <2>5. Counted(m)'
    BY <1>2, <2>1, <2>3, <2>4, KeepsCounted
  <2> QED
    BY <1>2, <2>1, <2>5, KeepsSent
<1>4. copies'[k] > 0
  BY <1>2 DEF CommitTypeOK
<1>5. Sent(k)'
  BY <1>2, <1>4, KeepsSent
<1>6. Counted(k)'
  <2>1. Known(k) \in Nat /\ Known(k) <= copies[k] /\ copies[k] \in Nat
    BY <1>2, KnownIsNat DEF Counted
  <2>2. missed[k] = {} => Known(k) > 0
    BY <1>2 DEF Counted
  <2>3. Known(k)' \in Nat
    <3>1. Unfinished(k)' \subseteq Workers
      BY DEF Unfinished
    <3>2. Running(k)' \in Nat
      BY <3>1, FS_Subset, FS_CardinalityType DEF Running
    <3> QED
      BY <3>2 DEF Known, CommitTypeOK
  <2>4. Known(k)' <= copies'[k] /\ (missed'[k] = {} => Known(k)' > 0)
    <3>1. CASE Known(k)' = Known(k) /\ copies'[k] \in {copies[k], copies[k] + 1}
      <4>1. missed'[k] = {} => missed[k] = {}
        OBVIOUS
      <4> QED
        BY <2>1, <2>2, <3>1, <4>1
    <3>2. CASE Known(k)' = Known(k) + 1 /\ copies'[k] = copies[k] + 1
      BY <2>1, <3>2
    <3>3. CASE Known(k)' <= Known(k) /\ copies'[k] = copies[k] /\ missed'[k] # {}
      BY <2>1, <2>3, <3>3
    <3> QED
      BY <3>1, <3>2, <3>3
  <2>5. op'[k[1]].pc \notin {"open", "refused"}
    <3>1. copies[k] # 0
      BY <2>1
    <3> QED
      BY <1>2, <3>1 DEF Sent
  <2> QED
    BY <1>4, <2>4, <2>5 DEF Counted
<1> QED
  BY <1>1, <1>3, <1>5, <1>6 DEF ACInv

\* A copy that is taken from its queue runs.
LEMMA TakeKeepsACInv ==
  ASSUME IsFiniteSet(Workers), ACInv, NEW w \in Workers, NEW k \in Messages, Take(w, k)
  PROVE  ACInv'
<1>1. /\ job[w] = NoJob /\ queue[k] > 0 /\ queue' = [queue EXCEPT ![k] = @ - 1]
      /\ job' = [job EXCEPT ![w] = [of |-> k, state |-> "taken"]]
      /\ UNCHANGED <<redisUp, op, effect, copies, missed>>
  BY DEF Take
<1>2. [of |-> k, state |-> "taken"] \in Job /\ NoJob \notin Job
  BY AfterCommitAssumption DEF Job
<1>3. CommitTypeOK /\ Counted(k)
  BY DEF ACInv
<1>4. /\ queue[k] \in Nat /\ effect[k] \in Nat /\ Running(k) \in Nat /\ copies[k] \in Nat
      /\ Known(k) = effect[k] + queue[k] + Running(k)
  BY <1>3, KnownIsNat
<1>5. copies[k] > 0
  BY <1>1, <1>3, <1>4 DEF Counted
<1>6. CommitTypeOK'
  BY <1>1, <1>2, <1>3, <1>4 DEF CommitTypeOK
<1>7. job'[w] = [of |-> k, state |-> "taken"] /\ \A v \in Workers \ {w} : job'[v] = job[v]
  BY <1>1, <1>3 DEF CommitTypeOK
<1>8. \A m : ~ Holds(w, m)
  BY <1>1 DEF Holds
<1>9. \A m \in Messages \ {k} : ~ Holds(w, m)'
  BY <1>7 DEF Holds
<1>10. w \notin Unfinished(k) /\ w \in Unfinished(k)'
  BY <1>2, <1>7, <1>8 DEF Unfinished, Holds
<1>11. Running(k)' = Running(k) + 1
  BY <1>7, <1>10, Recount
<1>12. queue'[k] = queue[k] - 1 /\ \A m \in Messages \ {k} : queue'[m] = queue[m]
  BY <1>1, <1>3 DEF CommitTypeOK
<1>13. Known(k)' = Known(k)
  BY <1>1, <1>4, <1>11, <1>12 DEF Known
<1> QED
  BY <1>1, <1>5, <1>6, <1>7, <1>8, <1>9, <1>12, <1>13, WorkerKeepsACInv

\* A task that ends stops running and leaves its effect, or its failure is
\* noted.
LEMMA EndingKeepsACInv ==
  ASSUME IsFiniteSet(Workers), ACInv, NEW w \in Workers,
         job[w] # NoJob, job[w].state = "taken",
         NEW state \in {"done", "failed"}, NEW n \in 0 .. 1, EndTask(w, state, n),
         (n = 1 /\ UNCHANGED missed) \/ Miss({job[w].of}, "effect")
  PROVE  ACInv'
<1>1. PICK k \in Messages : k = job[w].of /\ copies[k] > 0 /\ w \in Unfinished(k)
  BY HeldMessage
<1>2. job[w] \in Job /\ \A m : m # k => ~ Holds(w, m)
  BY <1>1, HeldMessage
<1>3. /\ effect' = [effect EXCEPT ![k] = @ + n]
      /\ job' = [job EXCEPT ![w].state = state]
      /\ UNCHANGED <<redisUp, op, queue, copies>>
  BY <1>1 DEF EndTask
<1>4. CommitTypeOK
  BY DEF ACInv
<1>5. /\ missed' \in [Messages -> SUBSET {"process", "broker", "effect", "pool"}]
      /\ \A m \in Messages \ {k} : missed'[m] = missed[m]
      /\ missed[k] # {} => missed'[k] # {}
      /\ n = 1 \/ missed'[k] # {}
  <2>1. CASE n = 1 /\ UNCHANGED missed
    BY <1>4, <2>1 DEF CommitTypeOK
  <2>2. CASE Miss({job[w].of}, "effect")
    <3>1. Miss({k}, "effect")
      BY <1>1, <2>2
    <3> QED
      BY <1>4, <3>1, MissAdds
  <2> QED
    BY <2>1, <2>2
<1>6. [job[w] EXCEPT !.state = state] \in Job /\ NoJob \notin Job
  BY <1>2, AfterCommitAssumption DEF Job
<1>7. /\ job'[w] = [job[w] EXCEPT !.state = state]
      /\ \A v \in Workers \ {w} : job'[v] = job[v]
  BY <1>3, <1>4 DEF CommitTypeOK
<1>8. job'[w].of = k /\ job'[w].state = state /\ job'[w] # NoJob
  BY <1>1, <1>2, <1>6, <1>7 DEF Job
<1>9. CommitTypeOK'
  <2>1. effect' \in [Messages -> Nat]
    BY <1>3, <1>4 DEF CommitTypeOK
  <2>2. job' \in [Workers -> Job \cup {NoJob}]
    BY <1>3, <1>4, <1>6 DEF CommitTypeOK
  <2> QED
    BY <1>3, <1>4, <1>5, <2>1, <2>2 DEF CommitTypeOK
<1>10. w \notin Unfinished(k)' /\ \A m \in Messages \ {k} : ~ Holds(w, m)'
  BY <1>8 DEF Unfinished, Holds
<1>11. Running(k) = Running(k)' + 1
  BY <1>1, <1>7, <1>10, Recount
<1>12. effect'[k] = effect[k] + n /\ \A m \in Messages \ {k} : effect'[m] = effect[m]
  BY <1>3, <1>4 DEF CommitTypeOK
<1>13. /\ effect[k] \in Nat /\ queue[k] \in Nat
       /\ Running(k) \in Nat /\ Known(k) = effect[k] + queue[k] + Running(k)
  BY <1>4, KnownIsNat
<1>14. Known(k)' = effect[k] + n + queue[k] + Running(k)'
  BY <1>3, <1>12 DEF Known
<1>15. Running(k)' \in Nat
  <2>1. Unfinished(k)' \subseteq Workers
    BY DEF Unfinished
  <2> QED
    BY <2>1, FS_Subset, FS_CardinalityType DEF Running
<1>16. Known(k)' = Known(k) \/ (Known(k)' <= Known(k) /\ missed'[k] # {})
  BY <1>5, <1>11, <1>13, <1>14, <1>15
<1>17. UNCHANGED op /\ copies'[k] = copies[k]
       /\ \A m \in Messages : queue'[m] = queue[m] /\ copies'[m] = copies[m]
  BY <1>3
<1> QED
  BY <1>1, <1>2, <1>5, <1>7, <1>9, <1>10, <1>12, <1>16, <1>17, WorkerKeepsACInv

\* A task that did its work, that had nobody to tell or that was refused.
LEMMA TasksKeepACInv ==
  ASSUME IsFiniteSet(Workers), ACInv, NEW w \in Workers,
         \/ WriteAuditLog(w) \/ SendNotification(w) \/ SkipNotification(w) \/ FailTask(w)
  PROVE  ACInv'
<1>1. CASE WriteAuditLog(w) \/ SendNotification(w)
  <2>1. /\ job[w] # NoJob /\ job[w].state = "taken" /\ EndTask(w, "done", 1)
        /\ UNCHANGED missed
    BY <1>1 DEF WriteAuditLog, SendNotification, Runs
  <2>2. PICK n \in 0 .. 1 : n = 1 /\ EndTask(w, "done", n)
    BY <2>1
  <2>3. (n = 1 /\ UNCHANGED missed) \/ Miss({job[w].of}, "effect")
    BY <2>1, <2>2
  <2> QED
    BY <2>1, <2>2, <2>3, EndingKeepsACInv
<1>2. CASE SkipNotification(w)
  <2>1. /\ job[w] # NoJob /\ job[w].state = "taken" /\ EndTask(w, "failed", 0)
        /\ Miss({job[w].of}, "effect")
    BY <1>2 DEF SkipNotification, Runs
  <2> QED
    BY <2>1, EndingKeepsACInv
<1>3. CASE FailTask(w)
  <2>1. job[w] # NoJob /\ job[w].state = "taken" /\ Miss({job[w].of}, "effect")
    BY <1>3 DEF FailTask
  <2>2. PICK n \in 0 .. 1 : EndTask(w, "failed", n)
    BY <1>3 DEF FailTask
  <2> QED
    BY <2>1, <2>2, EndingKeepsACInv
<1> QED
  BY <1>1, <1>2, <1>3

\* A task that is over is acknowledged; or its pool process is killed, which
\* is noted if it had not finished.
LEMMA DroppingKeepsACInv ==
  ASSUME IsFiniteSet(Workers), ACInv, NEW w \in Workers,
         Acknowledge(w) \/ KillPoolProcess(w)
  PROVE  ACInv'
<1>0. job[w] # NoJob
  BY DEF Acknowledge, KillPoolProcess
<1>1. PICK k \in Messages :
        k = job[w].of /\ copies[k] > 0 /\ (w \in Unfinished(k) <=> job[w].state = "taken")
  BY <1>0, HeldMessage
<1>2. \A m : m # k => ~ Holds(w, m)
  BY <1>0, <1>1, HeldMessage
<1>3. /\ job' = [job EXCEPT ![w] = NoJob]
      /\ UNCHANGED <<redisUp, op, queue, effect, copies>>
  BY DEF Acknowledge, KillPoolProcess
<1>4. CommitTypeOK
  BY DEF ACInv
<1>5. /\ missed' \in [Messages -> SUBSET {"process", "broker", "effect", "pool"}]
      /\ \A m \in Messages \ {k} : missed'[m] = missed[m]
      /\ missed[k] # {} => missed'[k] # {}
      /\ job[w].state = "taken" => missed'[k] # {}
  <2>1. CASE job[w].state # "taken" /\ UNCHANGED missed
    BY <1>4, <2>1 DEF CommitTypeOK
  <2>2. CASE Miss({k}, "pool")
    BY <1>4, <2>2, MissAdds
  <2> QED
    BY <1>1, <2>1, <2>2 DEF Acknowledge, KillPoolProcess
<1>6. job'[w] = NoJob /\ \A v \in Workers \ {w} : job'[v] = job[v]
  BY <1>3, <1>4 DEF CommitTypeOK
<1>7. CommitTypeOK'
  BY <1>3, <1>4, <1>5 DEF CommitTypeOK
<1>8. w \notin Unfinished(k)' /\ \A m : ~ Holds(w, m)'
  BY <1>6 DEF Unfinished, Holds
<1>9. /\ w \notin Unfinished(k) => Running(k)' = Running(k)
      /\ w \in Unfinished(k) => Running(k) = Running(k)' + 1
  BY <1>6, <1>8, Recount
<1>10. /\ effect[k] \in Nat /\ queue[k] \in Nat
       /\ Running(k) \in Nat /\ Known(k) = effect[k] + queue[k] + Running(k)
  BY <1>4, KnownIsNat
<1>11. Known(k)' = effect[k] + queue[k] + Running(k)'
  BY <1>3 DEF Known
<1>12. Running(k)' \in Nat
  <2>1. Unfinished(k)' \subseteq Workers
    BY DEF Unfinished
  <2> QED
    BY <2>1, FS_Subset, FS_CardinalityType DEF Running
<1>13. Known(k)' = Known(k) \/ (Known(k)' <= Known(k) /\ missed'[k] # {})
  BY <1>1, <1>5, <1>9, <1>10, <1>11, <1>12
<1>14. /\ UNCHANGED op /\ copies'[k] = copies[k]
       /\ \A m \in Messages :
            effect'[m] = effect[m] /\ queue'[m] = queue[m] /\ copies'[m] = copies[m]
  BY <1>3
<1> QED
  BY <1>1, <1>2, <1>5, <1>6, <1>7, <1>8, <1>13, <1>14, WorkerKeepsACInv

\* A worker that is lost gives its message back: one copy more came into the
\* queue, and if it ran it does not any more.
LEMMA LoseWorkerKeepsACInv ==
  ASSUME IsFiniteSet(Workers), ACInv, NEW w \in Workers, LoseWorker(w)
  PROVE  ACInv'
<1>0. job[w] # NoJob
  BY DEF LoseWorker
<1>1. PICK k \in Messages : k = job[w].of /\ copies[k] > 0
  BY <1>0, HeldMessage
<1>2. \A m : m # k => ~ Holds(w, m)
  BY <1>0, <1>1, HeldMessage
<1>3. /\ Enqueue(k) /\ job' = [job EXCEPT ![w] = NoJob]
      /\ UNCHANGED <<redisUp, op, effect, missed>>
  BY <1>1 DEF LoseWorker
<1>4. CommitTypeOK
  BY DEF ACInv
<1>5. /\ queue' \in [Messages -> Nat] /\ copies' \in [Messages -> Nat]
      /\ queue'[k] = queue[k] + 1 /\ copies'[k] = copies[k] + 1
      /\ \A m \in Messages \ {k} : queue'[m] = queue[m] /\ copies'[m] = copies[m]
  BY <1>3, <1>4, EnqueueIsOne
<1>6. job'[w] = NoJob /\ \A v \in Workers \ {w} : job'[v] = job[v]
  BY <1>3, <1>4 DEF CommitTypeOK
<1>7. CommitTypeOK'
  BY <1>3, <1>4, <1>5 DEF CommitTypeOK
<1>8. w \notin Unfinished(k)' /\ \A m : ~ Holds(w, m)'
  BY <1>6 DEF Unfinished, Holds
<1>9. /\ w \notin Unfinished(k) => Running(k)' = Running(k)
      /\ w \in Unfinished(k) => Running(k) = Running(k)' + 1
  BY <1>6, <1>8, Recount
<1>10. /\ effect[k] \in Nat /\ queue[k] \in Nat
       /\ Running(k) \in Nat /\ Known(k) = effect[k] + queue[k] + Running(k)
  BY <1>4, KnownIsNat
<1>11. Known(k)' = effect[k] + (queue[k] + 1) + Running(k)'
  BY <1>3, <1>5 DEF Known
<1>12. Running(k)' \in Nat
  <2>1. Unfinished(k)' \subseteq Workers
    BY DEF Unfinished
  <2> QED
    BY <2>1, FS_Subset, FS_CardinalityType DEF Running
<1>13. Known(k)' = Known(k) \/ Known(k)' = Known(k) + 1
  BY <1>9, <1>10, <1>11, <1>12
<1>14. UNCHANGED op /\ \A m \in Messages : effect'[m] = effect[m] /\ missed'[m] = missed[m]
  BY <1>3
<1>15. missed[k] # {} => missed'[k] # {}
  BY <1>14
<1> QED
  BY <1>1, <1>2, <1>5, <1>6, <1>7, <1>8, <1>13, <1>14, <1>15, WorkerKeepsACInv

-----------------------------------------------------------------------------

\* No step of a handler, a worker or the broker loses a message without a
\* failure that is noted, and none makes more of it than came into its queue:
\* ACInv holds initially and every action keeps it.  (What is counted needs
\* what is known of the handler, and a worker's message its copies.)
THEOREM CommitsAreCounted ==
  ASSUME IsFiniteSet(Workers)
  PROVE  CommitSpec => []ACInv
<1>1. CommitInit => ACInv
  BY ACInvInit
<1>2. ACInv /\ [CommitNext]_commitVars => ACInv'
  <2> SUFFICES ASSUME ACInv, [CommitNext]_commitVars
               PROVE  ACInv'
    OBVIOUS
  <2>1. ASSUME NEW o \in Ops, Commit(o) \/ Refuse(o)
        PROVE  ACInv'
    BY <2>1, DecidingKeepsACInv
  <2>2. ASSUME NEW o \in Ops, Publish(o)
        PROVE  ACInv'
    BY <2>2, PublishKeepsACInv
  <2>3. ASSUME NEW o \in Ops, BreakPublish(o)
        PROVE  ACInv'
    BY <2>3, BreakPublishKeepsACInv
  <2>4. ASSUME NEW o \in Ops, StopHandler(o)
        PROVE  ACInv'
    BY <2>4, StopHandlerKeepsACInv
  <2>5. ASSUME NEW w \in Workers, NEW m \in Messages, Take(w, m)
        PROVE  ACInv'
    BY <2>5, TakeKeepsACInv
  <2>6. ASSUME NEW w \in Workers,
               \/ WriteAuditLog(w) \/ SendNotification(w)
               \/ SkipNotification(w) \/ FailTask(w)
        PROVE  ACInv'
    BY <2>6, TasksKeepACInv
  <2>7. ASSUME NEW w \in Workers, Acknowledge(w) \/ KillPoolProcess(w)
        PROVE  ACInv'
    BY <2>7, DroppingKeepsACInv
  <2>8. ASSUME NEW w \in Workers, LoseWorker(w)
        PROVE  ACInv'
    BY <2>8, LoseWorkerKeepsACInv
  <2>9. CASE FlipBroker
    BY <2>9 DEF FlipBroker, ACInv, CommitTypeOK, HandlersInRange, Sent, Counted,
                Known, Running, Unfinished, Holds
  <2>10. CASE UNCHANGED commitVars
    BY <2>10 DEF commitVars, ACInv, CommitTypeOK, HandlersInRange, Sent, Counted,
                 Known, Running, Unfinished, Holds
  <2> QED
    BY <2>1, <2>2, <2>3, <2>4, <2>5, <2>6, <2>7, <2>8, <2>9, <2>10
       DEF CommitNext, WorkerStep
<1> QED
  BY <1>1, <1>2, PTL DEF CommitSpec

\* The types of handlers, queues and workers.
THEOREM CommitTypeCorrect ==
  ASSUME IsFiniteSet(Workers)
  PROVE  CommitSpec => []CommitTypeOK
<1>1. ACInv => CommitTypeOK
  BY DEF ACInv
<1> QED
  BY <1>1, CommitsAreCounted, PTL

\* Nothing is sent of what was rolled back; and a task of what was committed
\* is still to be sent, waits, runs or is done - once, if it came into its
\* queue once - or one of the failures that no code repairs has hit it.
THEOREM TasksAccounted ==
  ASSUME IsFiniteSet(Workers)
  PROVE  CommitSpec => []TasksAreAccountedFor
<1>1. ACInv => TasksAreAccountedFor
  <2> SUFFICES ASSUME ACInv, NEW m \in Messages
               PROVE  LET handler == op[m[1]]
                      IN CASE handler.pc \in {"open", "refused"} -> Known(m) = 0
                           [] missed[m] # {} -> TRUE
                           [] handler.pc = "publish" /\ handler.task <= m[2] ->
                                Known(m) = 0 \/ handler.retries > 0
                           [] OTHER ->
                                Known(m) >= 1 /\ (copies[m] = 1 => Known(m) = 1)
    BY DEF TasksAreAccountedFor, Known, Running
  <2>1. CommitTypeOK /\ Sent(m) /\ Counted(m)
    BY DEF ACInv
  <2>2. m[1] \in Ops /\ m[2] \in 1 .. Len(Tasks)
    BY MessageParts
  <2>3. op[m[1]] \in OpState
    BY <2>1, <2>2 DEF CommitTypeOK
  <2>4. /\ op[m[1]].task \in Nat
        /\ op[m[1]].pc \in {"open", "refused", "publish", "answered", "failed", "stopped"}
    BY <2>3 DEF OpState
  <2>5. Known(m) \in Nat /\ copies[m] \in Nat /\ Known(m) <= copies[m]
    BY <2>1, KnownIsNat DEF Counted
  <2>6. missed[m] = {} /\ copies[m] > 0 =>
          Known(m) >= 1 /\ (copies[m] = 1 => Known(m) = 1)
    BY <2>1, <2>5 DEF Counted
  <2>7. CASE op[m[1]].pc \in {"open", "refused"}
    <3>1. copies[m] = 0
      BY <2>1, <2>7 DEF Sent
    <3>2. Known(m) = 0 /\ missed[m] = {}
      BY <2>1, <2>5, <2>7, <3>1 DEF Counted
    <3> QED
      BY <2>7, <3>2
  <2>8. CASE op[m[1]].pc = "publish" /\ op[m[1]].task <= m[2]
    <3>1. copies[m] = 0 => Known(m) = 0
      BY <2>5
    <3>2. copies[m] = 0 \/ op[m[1]].retries > 0
      BY <2>1, <2>2, <2>4, <2>5, <2>8 DEF Sent
    <3> QED
      BY <2>8, <3>1, <3>2
  <2>9. CASE /\ op[m[1]].pc \notin {"open", "refused"}
             /\ ~ (op[m[1]].pc = "publish" /\ op[m[1]].task <= m[2])
    <3>1. copies[m] > 0 \/ missed[m] # {}
      BY <2>1, <2>2, <2>4, <2>9 DEF Sent
    <3> QED
      BY <2>6, <2>9, <3>1
  <2> QED
    BY <2>7, <2>8, <2>9
<1> QED
  BY <1>1, CommitsAreCounted, PTL
=============================================================================
