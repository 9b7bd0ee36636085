----------------------------- MODULE RateLimiter -----------------------------
(***************************************************************************)
(* The rate limiter: backend/app/core/rate_limiter.py, the middleware that *)
(* asks it and the table of rules in backend/app/main.py.  With Redis a    *)
(* check is two commands, INCR and, for the request that created the key,  *)
(* EXPIRE; either may fail, applied or not, and then the request is let    *)
(* through.  The fallback keeps its hits in each worker's memory.          *)
(*                                                                         *)
(* Time is the ages of hits and the remaining life of keys, in ticks.  A   *)
(* check ends within the tick it began in: socket_timeout is a sixtieth of *)
(* the window.  A path is its sequence of segments, after the API's own.   *)
(***************************************************************************)
EXTENDS Naturals, Sequences, FiniteSets, SequencesExt

CONSTANTS
  Workers,        \* backend processes, each with one check under way
  Addresses,      \* client addresses
  Paths,          \* the paths requested
  LoginLimit, RegisterLimit, ResetLimit, TransferLimit, DefaultLimit,
  Window,         \* window_seconds of every rule
  NoAddress

ASSUME LimiterAssumption ==
  /\ IsFiniteSet(Workers)
  /\ \A path \in Paths : path \in Seq(STRING)
  /\ {LoginLimit, RegisterLimit, ResetLimit, TransferLimit, DefaultLimit}
       \subseteq Nat
  /\ Window \in Nat \ {0}

VARIABLES
  backend,        \* settings.rate_limit_backend
  redisUp,        \* Redis is reachable
  counter,        \* Redis: the count of a key and the life it has left
  hits,           \* memory of each worker: ages of the hits of a key
  check,          \* where a worker is with the check of a request
  passed,         \* ghost: requests let through by count, by age
  asked,          \* ghost: requests counted or refused, by age
  stuck           \* ghost: keys whose EXPIRE was lost

limiterVars ==
  <<backend, redisUp, counter, hits, check, passed, asked, stuck>>

Rule(path, limit) == [prefix |-> path, limit |-> limit]

\* Faulty variant: the general path comes before its sub-paths.
RegisterFirst ==
  << Rule(<<"auth", "login">>, LoginLimit),
     Rule(<<"auth", "register">>, RegisterLimit),
     Rule(<<"auth", "register", "confirm">>, LoginLimit),
     Rule(<<>>, DefaultLimit) >>

\* _build_rate_limits.
Rules ==
  << Rule(<<"auth", "login">>, LoginLimit),
     Rule(<<"auth", "register", "confirm">>, LoginLimit),
     Rule(<<"auth", "register", "resend-otp">>, ResetLimit),
     Rule(<<"auth", "register">>, RegisterLimit),
     Rule(<<"auth", "password", "reset-request">>, ResetLimit),
     Rule(<<"auth">>, LoginLimit),
     Rule(<<"transactions", "transfer">>, TransferLimit),
     Rule(<<>>, DefaultLimit) >>

\* The middleware takes the first rule whose prefix the path starts with.
Matching(path) == {i \in DOMAIN Rules : IsPrefix(Rules[i].prefix, path)}
RuleOf(path) == Min(Matching(path))

\* What the table means by a path: the rule with the longest prefix.
Intended(path) ==
  CHOOSE i \in Matching(path) :
    \A j \in Matching(path) : Len(Rules[j].prefix) <= Len(Rules[i].prefix)

Keys == (DOMAIN Rules) \X Addresses
Limit(key) == Rules[key[1]].limit
Ages == 0 .. Window
Forever == Window + 1   \* the life of a key without an expiry
TopLimit == Max({Rules[i].limit : i \in DOMAIN Rules})
NoHits == [a \in Ages |-> 0]

\* The requests recorded by age, those of some ages: each has a number.
Recorded(ages, some) == UNION {{a} \X (1 .. ages[a]) : a \in some}
Total(ages) == Cardinality(Recorded(ages, Ages))

\* Counts matter up to one more than the limit they are compared with.
UpTo(n, key) == Min({n, Limit(key) + 1})

NoCheck == [pc |-> "idle", path |-> <<>>, address |-> NoAddress]
NoCounter == [count |-> 0, life |-> Forever]

LimiterInit ==
  /\ backend \in {"redis", "memory"} /\ redisUp = TRUE
  /\ counter = [k \in Keys |-> NoCounter]
  /\ hits = [w \in Workers |-> [k \in Keys |-> << >>]]
  /\ check = [w \in Workers |-> NoCheck]
  /\ passed = [k \in Keys |-> NoHits] /\ asked = [k \in Keys |-> NoHits]
  /\ stuck = {}

-----------------------------------------------------------------------------
(* Helpers *)

In(w, pc) == check[w].pc = pc
KeyOf(w) == <<RuleOf(check[w].path), check[w].address>>
MeantFor(w) == <<Intended(check[w].path), check[w].address>>

CountPass(key) == passed' = [passed EXCEPT ![key][0] = @ + 1]
CountAsk(key) == asked' = [asked EXCEPT ![key][0] = UpTo(@ + 1, key)]

\* is_allowed has its answer: the request goes on, or 429 is sent.
Decide(w, allowed, meant) ==
  /\ check' = [check EXCEPT ![w].pc = IF allowed THEN "pass" ELSE "refuse"]
  /\ IF allowed THEN CountPass(meant) ELSE UNCHANGED passed

-----------------------------------------------------------------------------
(* RedisRateLimiter *)

Arrive(w, path, address) ==
  /\ backend = "redis" /\ In(w, "idle")
  /\ check' = [check EXCEPT
       ![w] = [pc |-> "incr", path |-> path, address |-> address]]
  /\ UNCHANGED <<backend, redisUp, counter, hits, passed, asked, stuck>>

\* What INCR does: it creates the key, without an expiry, if there is none.
IncrementKey(key) ==
  counter' = [counter EXCEPT ![key].count = UpTo(@ + 1, key)]

Incr(w) ==
  LET key == KeyOf(w) IN
  /\ In(w, "incr") /\ redisUp
  /\ IncrementKey(key) /\ CountAsk(MeantFor(w))
  /\ IF counter[key].count = 0
     THEN /\ check' = [check EXCEPT ![w].pc = "expire"]
          /\ UNCHANGED passed
     ELSE Decide(w, counter[key].count < Limit(key), MeantFor(w))
  /\ UNCHANGED <<backend, redisUp, hits, stuck>>

\* Faulty variant: EXPIRE is given the window in milliseconds.
ExpireInMilliseconds(w) ==
  /\ In(w, "expire") /\ redisUp
  /\ counter' = [counter EXCEPT ![KeyOf(w)].life = 1000 * Window]
  /\ Decide(w, 1 <= Limit(KeyOf(w)), MeantFor(w))
  /\ UNCHANGED <<backend, redisUp, hits, asked, stuck>>

Expire(w) ==
  /\ In(w, "expire") /\ redisUp
  /\ counter' = [counter EXCEPT ![KeyOf(w)].life = Window]
  /\ Decide(w, 1 <= Limit(KeyOf(w)), MeantFor(w))
  /\ UNCHANGED <<backend, redisUp, hits, asked, stuck>>

\* The command under way is cut off: Redis has applied it or not.
CutOff(w) ==
  LET key == KeyOf(w) IN
  \/ /\ UNCHANGED <<counter, asked>>
     /\ stuck' = IF In(w, "expire") THEN stuck \cup {key} ELSE stuck
  \/ /\ In(w, "incr") /\ redisUp
     /\ IncrementKey(key) /\ CountAsk(MeantFor(w))
     /\ stuck' = IF counter[key].count = 0 THEN stuck \cup {key} ELSE stuck
  \/ /\ In(w, "expire") /\ redisUp
     /\ counter' = [counter EXCEPT ![key].life = Window]
     /\ UNCHANGED <<asked, stuck>>

\* The exception handler of is_allowed lets the request through.
FailOpen(w) ==
  /\ In(w, "incr") \/ In(w, "expire")
  /\ CutOff(w)
  /\ check' = [check EXCEPT ![w].pc = "pass"]
  /\ UNCHANGED <<backend, redisUp, hits, passed>>

-----------------------------------------------------------------------------
(* InMemoryRateLimiter *)

\* What is left of hits from the first on that is in time.
From(ages, inTime) ==
  SubSeq(ages, Min(inTime \cup {Len(ages) + 1}), Len(ages))

\* Faulty variant: hits leave the window one tick early.
Recent(ages) == From(ages, {i \in DOMAIN ages : ages[i] < Window})

\* Hits leave the window, the oldest first, while they are older than it.
InWindow(ages) == From(ages, {i \in DOMAIN ages : ages[i] <= Window})

\* One step: the coroutine awaits nothing.
CheckMemory(w, path, address) ==
  LET key == <<RuleOf(path), address>>
      meant == <<Intended(path), address>>
      window == InWindow(hits[w][key])
      allowed == Len(window) < Limit(key)
  IN
  /\ backend = "memory" /\ In(w, "idle")
  /\ hits' = [hits EXCEPT
       ![w][key] = IF allowed THEN Append(window, 0) ELSE window]
  /\ check' = [check EXCEPT
       ![w] = [pc |-> IF allowed THEN "pass" ELSE "refuse",
               path |-> path, address |-> address]]
  /\ IF allowed THEN CountPass(meant) ELSE UNCHANGED passed
  /\ CountAsk(meant)
  /\ UNCHANGED <<backend, redisUp, counter, stuck>>

-----------------------------------------------------------------------------

\* The handler takes the request over, or the client has its 429.
Answer(w) ==
  /\ In(w, "pass") \/ In(w, "refuse")
  /\ check' = [check EXCEPT ![w] = NoCheck]
  /\ UNCHANGED <<backend, redisUp, counter, hits, passed, asked, stuck>>

\* A backend process is replaced, in the middle of a check or not.
RestartWorker(w) ==
  /\ IF In(w, "incr") \/ In(w, "expire") THEN CutOff(w)
     ELSE /\ \E k \in Keys : hits[w][k] # << >>
          /\ stuck = {}  \* bound: one loss of memory
          /\ stuck' = stuck \cup {k \in Keys : hits[w][k] # << >>}
          /\ UNCHANGED <<counter, asked>>
  /\ check' = [check EXCEPT ![w] = NoCheck]
  /\ hits' = [hits EXCEPT ![w] = [k \in Keys |-> << >>]]
  /\ UNCHANGED <<backend, redisUp, passed>>

\* A tick passes, when every check begun in it is over.
Older(ages) == [a \in Ages |-> IF a = 0 THEN 0 ELSE ages[a - 1]]

Tick ==
  /\ \A w \in Workers : ~\E pc \in {"incr", "expire", "refuse"} : In(w, pc)
  /\ counter' = [k \in Keys |->
       CASE counter[k].life = Forever -> counter[k]
         [] counter[k].life = 1 -> NoCounter
         [] OTHER -> [counter[k] EXCEPT !.life = @ - 1]]
  /\ hits' = [w \in Workers |-> [k \in Keys |->
       [i \in DOMAIN hits[w][k] |-> Min({hits[w][k][i], Window}) + 1]]]
  /\ passed' = [k \in Keys |-> Older(passed[k])]
  /\ asked' = [k \in Keys |-> Older(asked[k])]
  /\ UNCHANGED <<backend, redisUp, check, stuck>>

\* Redis goes away, and comes back with what it had.
RedisFails == redisUp /\ redisUp' = FALSE
RedisReturns == ~redisUp /\ redisUp' = TRUE

WorkerNext(w) ==
  \/ \E path \in Paths, address \in Addresses :
       Arrive(w, path, address) \/ CheckMemory(w, path, address)
  \/ Incr(w) \/ Expire(w) \/ FailOpen(w) \/ Answer(w) \/ RestartWorker(w)

LimiterNext ==
  \/ \E w \in Workers : WorkerNext(w)
  \/ Tick
  \/ /\ RedisFails \/ RedisReturns
     /\ UNCHANGED <<backend, counter, hits, check, passed, asked, stuck>>

LimiterSpec == LimiterInit /\ [][LimiterNext]_limiterVars

-----------------------------------------------------------------------------
(* Properties *)

\* The type invariant of the limiter.
LimiterTypeOK ==
  /\ backend \in {"redis", "memory"} /\ redisUp \in BOOLEAN
  /\ counter \in [Keys -> [count : 0 .. TopLimit + 1, life : 1 .. Forever]]
  /\ hits \in [Workers -> [Keys -> Seq(0 .. Forever)]]
  /\ check \in [Workers ->
       [pc : {"idle", "incr", "expire", "pass", "refuse"},
        path : Paths \cup {<<>>}, address : Addresses \cup {NoAddress}]]
  /\ passed \in [Keys -> [Ages -> Nat]]
  /\ asked \in [Keys -> [Ages -> Nat]]
  /\ stuck \subseteq Keys

\* In no window does a client get more requests of one rule through than
\* twice its limit, which a fixed window allows around its border; in the
\* memory of each worker the limit is kept as it is, so the workers multiply
\* it, and only a restart forgets it.  Requests let through because Redis
\* failed do not count.
AdmissionsAreBounded ==
  \A k \in Keys :
    IF backend = "redis" THEN Total(passed[k]) <= 2 * Limit(k)
    ELSE \/ Total(passed[k]) <= Cardinality(Workers) * Limit(k)
         \/ k \in stuck

\* A client is refused only after more requests than the limit of the rule
\* that was meant for its path, within one window, unless a failure took the
\* expiry of its counter away.
RefusalsAreEarned ==
  \A w \in Workers :
    In(w, "refuse") =>
      Total(asked[MeantFor(w)]) > Limit(MeantFor(w)) \/ KeyOf(w) \in stuck

=============================================================================
