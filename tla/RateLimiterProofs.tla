-------------------------- MODULE RateLimiterProofs --------------------------
(***************************************************************************)
(* Theorems about RateLimiter, for every value of its constants.  With     *)
(* Redis the passes of a window belong to at most two generations of a     *)
(* counter, each good for one limit (TwoGenerations).  In memory each pass *)
(* that still counts has a hit of its own in the memory of some worker,    *)
(* and each hit a request of its own among those recorded.                 *)
(***************************************************************************)
EXTENDS RateLimiter, FiniteSetTheorems, SequenceTheorems, TLAPS

HowMany(ages, some) == Cardinality(Recorded(ages, some))
OneMore(ages) == [ages EXCEPT ![0] = ages[0] + 1]
AskedOnce(ages, k) == [ages EXCEPT ![0] = UpTo(ages[0] + 1, k)]

\* Who has created the key and not yet given it its expiry.
Pending(k) == {w \in Workers : In(w, "expire") /\ KeyOf(w) = k}

\* How long the counter of a key has run, unless its expiry was lost.
Elapsed(k) == IF counter[k].life = Forever THEN 0 ELSE Window - counter[k].life

KnowsRequest(w) ==
  ~In(w, "idle") => check[w].path \in Paths /\ check[w].address \in Addresses

AskedIsCapped == \A k \in Keys, a \in Ages : asked[k][a] <= Limit(k) + 1

-----------------------------------------------------------------------------
(* Redis *)

\* A key without an expiry is about to get one, or never will.
KeysExpire(k) ==
  /\ \A v, w \in Pending(k) : v = w
  /\ Pending(k) # {} => counter[k].count > 0 /\ counter[k].life = Forever
  /\ counter[k].count = 0 => counter[k].life = Forever
  /\ (k \notin stuck /\ counter[k].count > 0 /\ counter[k].life = Forever) =>
       Pending(k) # {}

\* What a counter has counted was asked for since it was created.
CountedWasAsked(k) ==
  k \notin stuck => counter[k].count <= HowMany(asked[k], 0 .. Elapsed(k))

\* The passes of this generation, up to age s, and those before it.
TwoGenerations(k, s) ==
  /\ counter[k].life # Forever => s = Elapsed(k)
  /\ HowMany(passed[k], 0 .. s) <= counter[k].count
  /\ HowMany(passed[k], 0 .. s) <= Limit(k)
  /\ HowMany(passed[k], s + 1 .. Window) <= Limit(k)
  /\ Pending(k) # {} =>
       /\ s = 0
       /\ HowMany(passed[k], 0 .. s) < counter[k].count
       /\ Limit(k) > 0 => HowMany(passed[k], 0 .. s) < Limit(k)

PassesAreCounted(k) ==
  IF counter[k].count = 0
  THEN passed[k][0] = 0 /\ Total(passed[k]) <= Limit(k)
  ELSE \E s \in Ages : TwoGenerations(k, s)

KeyInv(k) == KeysExpire(k) /\ CountedWasAsked(k) /\ PassesAreCounted(k)

RedisInv == \A k \in Keys : KeyInv(k)

-----------------------------------------------------------------------------
(* Memory *)

Ordered(ages) == \A i, j \in DOMAIN ages : i <= j => ages[j] <= ages[i]

\* Each pass has a hit of its age in the memory of some worker, and no other
\* pass has this one.
IsHit(memory, k, c, at) ==
  at[2] <= Len(memory[at[1]][k]) /\ memory[at[1]][k][at[2]] = c[1]

Backed(passes, memory, k) ==
  \E f \in Injection(Recorded(passes, Ages), Workers \X (1 .. Limit(k))) :
    \A c \in Recorded(passes, Ages) : IsHit(memory, k, c, f[c])

\* Each hit in the window has a request of its age, and no other hit of the
\* worker has this one.
Fresh(ages) == {i \in DOMAIN ages : ages[i] <= Window}

WereAsked(ages, requests) ==
  \E g \in Injection(Fresh(ages), Recorded(requests, Ages)) :
    \A i \in Fresh(ages) : g[i][1] = ages[i]

PassesAreHits(k) == k \notin stuck => Backed(passed[k], hits, k)

HitsAreKept(w, k) ==
  /\ Len(hits[w][k]) <= Limit(k)
  /\ Ordered(hits[w][k])
  /\ WereAsked(hits[w][k], asked[k])

MemoryInv ==
  \A k \in Keys : PassesAreHits(k) /\ \A w \in Workers : HitsAreKept(w, k)

\* What both backends need.
StateInv ==
  /\ LimiterTypeOK
  /\ AskedIsCapped
  /\ \A w \in Workers :
       /\ KnowsRequest(w)
       /\ In(w, "incr") \/ In(w, "expire") => backend = "redis"

RateInv ==
  /\ StateInv
  /\ RefusalsAreEarned
  /\ backend = "redis" => RedisInv
  /\ backend = "memory" => MemoryInv

-----------------------------------------------------------------------------
(* Numbers *)

\* A set of numbers that has a member has a smallest one.
LEMMA SmallestMember ==
  ASSUME NEW T, T \subseteq Nat, T # {}
  PROVE  Min(T) \in T /\ \A m \in T : Min(T) <= m
<1> DEFINE Below(n) == {m \in T : m < n}
           Family == {Below(n) : n \in T}
<1>1. ASSUME NEW n \in T PROVE Below(n) \in FiniteSubsetsOf(T)
  <2>1. n \in Nat /\ \A m \in T : m \in Nat /\ (m < n => m <= n)
    OBVIOUS
  <2>8. Below(n) \in SUBSET Nat /\ \A m \in Below(n) : m <= n
    BY <2>1, Zenon
  <2>2. IsFiniteSet(Below(n))
    BY <2>1, <2>8, FS_BoundedSetOfNaturals
  <2> QED
    BY <2>2 DEF FiniteSubsetsOf
<1>2. Family \subseteq FiniteSubsetsOf(T) /\ Family # {}
  BY <1>1
<1>3. PICK x \in Family : \A y \in Family : <<y, x>> \notin StrictSubsetOrdering(T)
  <2> HIDE DEF Family
  <2> QED
    BY <1>2, FS_StrictSubsetOrderingWellFounded, WFMin
<1>4. PICK n \in T : x = Below(n)
  BY <1>3
<1>5. ASSUME NEW m \in T, m < n PROVE FALSE
  <2>1. Below(m) \in Family
    OBVIOUS
  <2>2. /\ n \in Nat /\ m \in Nat
        /\ \A k \in T : k \in Nat
    OBVIOUS
  <2>3. \A k \in T : k < m => k < n
    BY <1>5, <2>2
  <2>4. Below(m) \subseteq Below(n)
    BY <2>3, Zenon
  <2>5. ~(m < m)
    BY <2>2
  <2>6. m \in Below(n) /\ m \notin Below(m)
    BY <1>5, <2>5, Zenon
  <2>7. <<Below(m), x>> \in StrictSubsetOrdering(T)
    BY <1>1, <1>4, <2>4, <2>6 DEF StrictSubsetOrdering, FiniteSubsetsOf
  <2> QED
    BY <1>3, <2>1, <2>7
<1>6. \A m \in T : n <= m
  BY <1>5
<1> QED
  BY <1>6 DEF Min

\* A finite set of numbers that has a member has a largest one.
LEMMA LargestMember ==
  ASSUME NEW T, IsFiniteSet(T), T \subseteq Nat, T # {}
  PROVE  Max(T) \in T /\ \A m \in T : m <= Max(T)
<1> DEFINE Above(n) == {m \in T : m > n}
           Family == {Above(n) : n \in T}
<1>1. \A n \in T : Above(n) \in FiniteSubsetsOf(T)
  BY FS_Subset DEF FiniteSubsetsOf
<1>2. Family \subseteq FiniteSubsetsOf(T) /\ Family # {}
  BY <1>1
<1>3. PICK x \in Family : \A y \in Family : <<y, x>> \notin StrictSubsetOrdering(T)
  <2> HIDE DEF Family
  <2> QED
    BY <1>2, FS_StrictSubsetOrderingWellFounded, WFMin
<1>4. PICK n \in T : x = Above(n)
  BY <1>3
<1>5. ASSUME NEW m \in T, m > n PROVE FALSE
  <2>1. Above(m) \in Family
    OBVIOUS
  <2>2. /\ n \in Nat /\ m \in Nat
        /\ \A k \in T : k \in Nat
    OBVIOUS
  <2>3. \A k \in T : k > m => k > n
    BY <1>5, <2>2
  <2>4. Above(m) \subseteq Above(n)
    BY <2>3, Zenon
  <2>5. ~(m > m)
    BY <2>2
  <2>6. m \in Above(n) /\ m \notin Above(m)
    BY <1>5, <2>5, Zenon
  <2>7. <<Above(m), x>> \in StrictSubsetOrdering(T)
    BY <1>1, <1>4, <2>4, <2>6 DEF StrictSubsetOrdering, FiniteSubsetsOf
  <2> QED
    BY <1>3, <2>1, <2>7
<1>6. \A m \in T : n >= m
  BY <1>5
<1> QED
  BY <1>6 DEF Max

\* The smaller of two numbers.
LEMMA MinOfTwo ==
  ASSUME NEW m \in Nat, NEW n \in Nat
  PROVE  Min({m, n}) = IF m <= n THEN m ELSE n
<1>1. Min({m, n}) \in {m, n} /\ \A x \in {m, n} : Min({m, n}) <= x
  BY SmallestMember
<1> QED
  BY <1>1

\* The first numbers are as many as the last of them says.
LEMMA FirstNumbers ==
  ASSUME NEW m \in Nat
  PROVE  IsFiniteSet(1 .. m) /\ Cardinality(1 .. m) = m
BY FS_Interval

-----------------------------------------------------------------------------
(* The table of rules *)

\* Which rules a path matches, segment by segment.
LEMMA MatchingSegments ==
  ASSUME NEW path \in Seq(STRING)
  PROVE  /\ Matching(path) \subseteq 1 .. 8 /\ 8 \in Matching(path)
         /\ 1 \in Matching(path) => path[1] = "auth" /\ path[2] = "login"
         /\ 2 \in Matching(path) =>
              path[1] = "auth" /\ path[2] = "register" /\ path[3] = "confirm"
         /\ 3 \in Matching(path) =>
              path[1] = "auth" /\ path[2] = "register" /\ path[3] = "resend-otp"
         /\ 4 \in Matching(path) => path[1] = "auth" /\ path[2] = "register"
         /\ 5 \in Matching(path) =>
              /\ path[1] = "auth" /\ path[2] = "password"
              /\ path[3] = "reset-request"
         /\ 6 \in Matching(path) => path[1] = "auth"
         /\ 7 \in Matching(path) =>
              path[1] = "transactions" /\ path[2] = "transfer"
<1>1. /\ Len(path) \in Nat
      /\ \A n, m \in Nat \ {0} :
           n <= m /\ m <= Len(path) => SubSeq(path, 1, m)[n] = path[n]
  OBVIOUS
<1>2. ASSUME NEW a, IsPrefix(<<a>>, path)
      PROVE  path[1] = a
  <2>1. /\ Len(<<a>>) = 1 /\ 1 <= Len(path)
        /\ SubSeq(<<a>>, 1, 1) = SubSeq(path, 1, 1)
    BY <1>2 DEF IsPrefix
  <2>2. SubSeq(<<a>>, 1, 1)[1] = a
    OBVIOUS
  <2> QED
    BY <1>1, <2>1, <2>2
<1>3. ASSUME NEW a, NEW b, IsPrefix(<<a, b>>, path)
      PROVE  path[1] = a /\ path[2] = b
  <2>1. /\ Len(<<a, b>>) = 2 /\ 2 <= Len(path)
        /\ SubSeq(<<a, b>>, 1, 2) = SubSeq(path, 1, 2)
    BY <1>3 DEF IsPrefix
  <2>2. SubSeq(<<a, b>>, 1, 2)[1] = a /\ SubSeq(<<a, b>>, 1, 2)[2] = b
    OBVIOUS
  <2> QED
    BY <1>1, <2>1, <2>2
<1>4. ASSUME NEW a, NEW b, NEW c, IsPrefix(<<a, b, c>>, path)
      PROVE  path[1] = a /\ path[2] = b /\ path[3] = c
  <2>1. /\ Len(<<a, b, c>>) = 3 /\ 3 <= Len(path)
        /\ SubSeq(<<a, b, c>>, 1, 3) = SubSeq(path, 1, 3)
    BY <1>4 DEF IsPrefix
  <2>2. /\ SubSeq(<<a, b, c>>, 1, 3)[1] = a
        /\ SubSeq(<<a, b, c>>, 1, 3)[2] = b
        /\ SubSeq(<<a, b, c>>, 1, 3)[3] = c
    OBVIOUS
  <2> QED
    BY <1>1, <2>1, <2>2
<1>5. /\ DOMAIN Rules = 1 .. 8
      /\ Rules[1].prefix = <<"auth", "login">>
      /\ Rules[2].prefix = <<"auth", "register", "confirm">>
      /\ Rules[3].prefix = <<"auth", "register", "resend-otp">>
      /\ Rules[4].prefix = <<"auth", "register">>
      /\ Rules[5].prefix = <<"auth", "password", "reset-request">>
      /\ Rules[6].prefix = <<"auth">>
      /\ Rules[7].prefix = <<"transactions", "transfer">>
      /\ Rules[8].prefix = << >>
  BY DEF Rules, Rule
<1>6. Matching(path) \subseteq 1 .. 8 /\ 8 \in Matching(path)
  BY <1>5 DEF Matching, IsPrefix
<1>7. \A i : i \in Matching(path) => IsPrefix(Rules[i].prefix, path)
  BY DEF Matching
<1>8. 1 \in Matching(path) => path[1] = "auth" /\ path[2] = "login"
  <2>1. 1 \in Matching(path) => IsPrefix(<<"auth", "login">>, path)
    BY <1>5, <1>7
  <2> QED
    BY <1>3, <2>1
<1>9. 2 \in Matching(path) =>
        path[1] = "auth" /\ path[2] = "register" /\ path[3] = "confirm"
  <2>1. 2 \in Matching(path) =>
          IsPrefix(<<"auth", "register", "confirm">>, path)
    BY <1>5, <1>7
  <2> QED
    BY <1>4, <2>1
<1>10. 3 \in Matching(path) =>
         path[1] = "auth" /\ path[2] = "register" /\ path[3] = "resend-otp"
  <2>1. 3 \in Matching(path) =>
          IsPrefix(<<"auth", "register", "resend-otp">>, path)
    BY <1>5, <1>7
  <2> QED
    BY <1>4, <2>1
<1>11. 4 \in Matching(path) => path[1] = "auth" /\ path[2] = "register"
  <2>1. 4 \in Matching(path) => IsPrefix(<<"auth", "register">>, path)
    BY <1>5, <1>7
  <2> QED
    BY <1>3, <2>1
<1>12. 5 \in Matching(path) =>
         path[1] = "auth" /\ path[2] = "password" /\ path[3] = "reset-request"
  <2>1. 5 \in Matching(path) =>
          IsPrefix(<<"auth", "password", "reset-request">>, path)
    BY <1>5, <1>7
  <2> QED
    BY <1>4, <2>1
<1>13. 6 \in Matching(path) => path[1] = "auth"
  <2>1. 6 \in Matching(path) => IsPrefix(<<"auth">>, path)
    BY <1>5, <1>7
  <2> QED
    BY <1>2, <2>1
<1>14. 7 \in Matching(path) => path[1] = "transactions" /\ path[2] = "transfer"
  <2>1. 7 \in Matching(path) => IsPrefix(<<"transactions", "transfer">>, path)
    BY <1>5, <1>7
  <2> QED
    BY <1>3, <2>1
<1> QED
  BY <1>6, <1>8, <1>9, <1>10, <1>11, <1>12, <1>13, <1>14

\* Of two rules that one path matches, the later has the shorter prefix.
LEMMA LaterIsShorter ==
  ASSUME NEW path \in Seq(STRING), NEW i \in Matching(path),
         NEW j \in Matching(path), i < j
  PROVE  Len(Rules[j].prefix) < Len(Rules[i].prefix)
<1>1. i \in 1 .. 8 /\ j \in 1 .. 8
  BY MatchingSegments
<1>2. /\ Len(Rules[1].prefix) = 2 /\ Len(Rules[2].prefix) = 3
      /\ Len(Rules[3].prefix) = 3 /\ Len(Rules[4].prefix) = 2
      /\ Len(Rules[5].prefix) = 3 /\ Len(Rules[6].prefix) = 1
      /\ Len(Rules[7].prefix) = 2 /\ Len(Rules[8].prefix) = 0
  BY DEF Rules, Rule
<1> DEFINE S == Matching(path)
           length(n) == Len(Rules[n].prefix)
<1>3. /\ 1 \in S => path[1] = "auth" /\ path[2] = "login"
      /\ 2 \in S => path[1] = "auth" /\ path[2] = "register" /\ path[3] = "confirm"
      /\ 3 \in S =>
           path[1] = "auth" /\ path[2] = "register" /\ path[3] = "resend-otp"
      /\ 4 \in S => path[1] = "auth" /\ path[2] = "register"
      /\ 5 \in S => path[1] = "auth" /\ path[2] = "password"
      /\ 6 \in S => path[1] = "auth"
      /\ 7 \in S => path[1] = "transactions"
  BY MatchingSegments
<1>4. i \in S /\ j \in S
  OBVIOUS
<1>7. /\ i = 1 \/ i = 2 \/ i = 3 \/ i = 4 \/ i = 5 \/ i = 6 \/ i = 7
      /\ j = 2 \/ j = 3 \/ j = 4 \/ j = 5 \/ j = 6 \/ j = 7 \/ j = 8
  BY <1>1
<1>8. /\ length(1) = 2 /\ length(2) = 3 /\ length(3) = 3 /\ length(4) = 2
      /\ length(5) = 3 /\ length(6) = 1 /\ length(7) = 2 /\ length(8) = 0
  BY <1>2
<1> HIDE DEF S, length
<1>5. /\ ~(1 \in S /\ 2 \in S) /\ ~(1 \in S /\ 5 \in S) /\ ~(2 \in S /\ 3 \in S)
      /\ ~(1 \in S /\ 3 \in S) /\ ~(4 \in S /\ 5 \in S) /\ ~(6 \in S /\ 7 \in S)
      /\ ~(1 \in S /\ 4 \in S) /\ ~(1 \in S /\ 7 \in S) /\ ~(4 \in S /\ 7 \in S)
      /\ ~(2 \in S /\ 5 \in S) /\ ~(3 \in S /\ 5 \in S)
  BY <1>3
<1>6. length(j) < length(i)
  BY <1>7, <1>8, <1>4, <1>5
<1> QED
  BY <1>6 DEF length

\* The rules stand in an order in which the first match is the one meant: no
\* path is ever held to the limit of a more general rule.
THEOREM FirstMatchIsMeant ==
  ASSUME NEW path \in Seq(STRING)
  PROVE  RuleOf(path) = Intended(path) /\ RuleOf(path) \in DOMAIN Rules
<1>1. Matching(path) \subseteq 1 .. 8 /\ Matching(path) # {}
  BY MatchingSegments
<1>2. /\ RuleOf(path) \in Matching(path)
      /\ \A j \in Matching(path) : RuleOf(path) <= j
  BY <1>1, SmallestMember DEF RuleOf
<1>3. \A j \in Matching(path) :
        j # RuleOf(path) => Len(Rules[j].prefix) < Len(Rules[RuleOf(path)].prefix)
  BY <1>1, <1>2, LaterIsShorter
<1>4. \A j \in Matching(path) : Len(Rules[j].prefix) \in Nat
  <2>1. \A j \in 1 .. 8 : Len(Rules[j].prefix) \in Nat
    BY DEF Rules, Rule
  <2> QED
    BY <1>1, <2>1
<1>5. \A j \in Matching(path) :
        Len(Rules[j].prefix) <= Len(Rules[RuleOf(path)].prefix)
  BY <1>2, <1>3, <1>4
<1>6. /\ Intended(path) \in Matching(path)
      /\ \A j \in Matching(path) :
           Len(Rules[j].prefix) <= Len(Rules[Intended(path)].prefix)
  BY <1>2, <1>5 DEF Intended
<1>7. RuleOf(path) = Intended(path)
  BY <1>2, <1>3, <1>4, <1>6
<1> QED
  BY <1>2, <1>7 DEF Matching

-----------------------------------------------------------------------------
(* Requests recorded by age *)

\* A recorded request is its age and its number among those of that age.
LEMMA RecordedCells ==
  ASSUME NEW ages, NEW some
  PROVE  /\ \A c \in Recorded(ages, some) :
              /\ c = <<c[1], c[2]>> /\ c[1] \in some
              /\ c[2] \in 1 .. ages[c[1]]
         /\ \A a \in some : \A n \in 1 .. ages[a] : <<a, n>> \in Recorded(ages, some)
BY DEF Recorded

\* There are finitely many of them.
LEMMA SumType ==
  ASSUME NEW ages \in [Ages -> Nat], NEW some \in SUBSET Ages
  PROVE  IsFiniteSet(Recorded(ages, some)) /\ HowMany(ages, some) \in Nat
<1> DEFINE cells == [a \in some |-> {a} \X (1 .. ages[a])]
<1>1. IsFiniteSet(Ages)
  <2>1. 0 \in Int /\ Window \in Int
    BY LimiterAssumption
  <2> QED
    BY <2>1, FS_Interval DEF Ages
<1>2. IsFiniteSet(some)
  BY <1>1, FS_Subset
<1> DEFINE family == {{a} \X (1 .. ages[a]) : a \in some}
<1>3. cells \in Surjection(some, family)
  BY DEF Surjection
<1>4. IsFiniteSet(family)
  <2> HIDE DEF cells, family
  <2> QED
    BY <1>2, <1>3, FS_Surjection
<1>5. \A c \in family : IsFiniteSet(c)
  <2>1. ASSUME NEW a \in some PROVE IsFiniteSet({a} \X (1 .. ages[a]))
    <3>1. IsFiniteSet({a})
      BY FS_Singleton
    <3>2. ages[a] \in Nat
      OBVIOUS
    <3>3. IsFiniteSet(1 .. ages[a])
      BY <3>2, FS_Interval
    <3> QED
      BY <3>1, <3>3, FS_Product
  <2> QED
    BY <2>1
<1>6. IsFiniteSet(UNION family)
  <2> HIDE DEF family
  <2> QED
    BY <1>4, <1>5, FS_UNION
<1>7. Recorded(ages, some) = UNION family
  BY DEF Recorded
<1> QED
  BY <1>6, <1>7, FS_CardinalityType DEF HowMany

LEMMA TotalIsSum == \A ages : Total(ages) = HowMany(ages, Ages)
BY DEF Total, HowMany

\* More ages hold no fewer requests.
LEMMA SumGrows ==
  ASSUME NEW ages \in [Ages -> Nat], NEW some \in SUBSET Ages,
         NEW more \in SUBSET Ages, some \subseteq more
  PROVE  HowMany(ages, some) <= HowMany(ages, more)
<1>1. Recorded(ages, some) \subseteq Recorded(ages, more)
  BY DEF Recorded
<1> QED
  BY <1>1, SumType, FS_Subset DEF HowMany

\* The requests of an age are among those of any ages it belongs to.
LEMMA SumOfOne ==
  ASSUME NEW ages \in [Ages -> Nat], NEW some \in SUBSET Ages, NEW a \in some
  PROVE  ages[a] <= HowMany(ages, some)
<1> DEFINE f == [n \in 1 .. ages[a] |-> <<a, n>>]
<1>1. f \in Injection(1 .. ages[a], Recorded(ages, some))
  BY RecordedCells DEF Injection, IsInjective
<1>2. ages[a] \in Nat
  OBVIOUS
<1>3. Cardinality(1 .. ages[a]) = ages[a]
  BY <1>2, FS_Interval
<1> HIDE DEF f
<1> QED
  BY <1>1, <1>3, SumType, FS_Injection DEF HowMany

\* What two groups of ages hold together.
LEMMA SumOfBoth ==
  ASSUME NEW ages \in [Ages -> Nat], NEW one \in SUBSET Ages,
         NEW other \in SUBSET Ages
  PROVE  HowMany(ages, one \cup other) <= HowMany(ages, one) + HowMany(ages, other)
<1>1. Recorded(ages, one \cup other) =
        Recorded(ages, one) \cup Recorded(ages, other)
  BY DEF Recorded
<1>2. /\ IsFiniteSet(Recorded(ages, one)) /\ IsFiniteSet(Recorded(ages, other))
      /\ HowMany(ages, one) \in Nat /\ HowMany(ages, other) \in Nat
  BY SumType
<1>3. /\ IsFiniteSet(Recorded(ages, one) \cap Recorded(ages, other))
  BY <1>2, FS_Intersection
<1>4. Cardinality(Recorded(ages, one) \cap Recorded(ages, other)) \in Nat
  BY <1>3, FS_CardinalityType
<1>5. Cardinality(Recorded(ages, one) \cup Recorded(ages, other)) =
        HowMany(ages, one) + HowMany(ages, other)
          - Cardinality(Recorded(ages, one) \cap Recorded(ages, other))
  BY <1>2, FS_Union DEF HowMany
<1> QED
  <2>1. PICK n \in Nat :
          n = Cardinality(Recorded(ages, one) \cap Recorded(ages, other))
    BY <1>4
  <2>2. HowMany(ages, one \cup other) =
          HowMany(ages, one) + HowMany(ages, other) - n
    BY <1>1, <1>5, <2>1 DEF HowMany
  <2> QED
    BY <1>2, <2>2

\* One more request of age 0.
LEMMA RecordOne ==
  ASSUME NEW ages \in [Ages -> Nat], NEW some \in SUBSET Ages
  PROVE  /\ OneMore(ages) \in [Ages -> Nat]
         /\ Recorded(OneMore(ages), some) =
              IF 0 \in some THEN Recorded(ages, some) \cup {<<0, ages[0] + 1>>}
              ELSE Recorded(ages, some)
         /\ <<0, ages[0] + 1>> \notin Recorded(ages, some)
         /\ HowMany(OneMore(ages), some) =
              IF 0 \in some THEN HowMany(ages, some) + 1 ELSE HowMany(ages, some)
<1> DEFINE new == OneMore(ages)
<1>8. 0 \in Ages /\ ages[0] \in Nat
  BY LimiterAssumption DEF Ages
<1>1. /\ new \in [Ages -> Nat] /\ new[0] = ages[0] + 1
      /\ \A a \in Ages \ {0} : new[a] = ages[a]
  BY <1>8 DEF OneMore
<1> HIDE DEF new
<1>2. 1 .. new[0] = 1 .. ages[0] \cup {ages[0] + 1}
  BY <1>8, <1>1
<1>3. ASSUME 0 \notin some PROVE Recorded(new, some) = Recorded(ages, some)
  <2>1. \A a \in some : new[a] = ages[a]
    BY <1>1, <1>3
  <2> QED
    BY <2>1 DEF Recorded
<1>4. ASSUME 0 \in some
      PROVE  Recorded(new, some) = Recorded(ages, some) \cup {<<0, ages[0] + 1>>}
  <2>1. ASSUME NEW c \in Recorded(new, some)
        PROVE  c \in Recorded(ages, some) \cup {<<0, ages[0] + 1>>}
    <3>1. c = <<c[1], c[2]>> /\ c[1] \in some /\ c[2] \in 1 .. new[c[1]]
      BY <2>1, RecordedCells
    <3>2. CASE c[1] = 0
      BY <1>2, <1>4, <3>1, <3>2, RecordedCells
    <3>3. CASE c[1] # 0
      <4>1. c[2] \in 1 .. ages[c[1]]
        BY <1>1, <3>1, <3>3
      <4> QED
        BY <3>1, <4>1, RecordedCells
    <3> QED
      BY <3>2, <3>3
  <2>2. ASSUME NEW c \in Recorded(ages, some) PROVE c \in Recorded(new, some)
    <3>1. c = <<c[1], c[2]>> /\ c[1] \in some /\ c[2] \in 1 .. ages[c[1]]
      BY <2>2, RecordedCells
    <3>2. c[2] \in 1 .. new[c[1]]
      BY <1>1, <1>2, <3>1
    <3> QED
      BY <3>1, <3>2, RecordedCells
  <2>3. <<0, ages[0] + 1>> \in Recorded(new, some)
    <3>1. ages[0] + 1 \in 1 .. new[0]
      BY <1>8, <1>1
    <3> QED
      BY <1>4, <3>1, RecordedCells
  <2> QED
    BY <2>1, <2>2, <2>3
<1>5. <<0, ages[0] + 1>> \notin Recorded(ages, some)
  <2>1. ages[0] + 1 \notin 1 .. ages[0]
    BY <1>8
  <2>2. ASSUME <<0, ages[0] + 1>> \in Recorded(ages, some) PROVE FALSE
    <3> DEFINE c == <<0, ages[0] + 1>>
    <3>1. c[2] \in 1 .. ages[c[1]]
      BY <2>2, RecordedCells
    <3> QED
      BY <2>1, <3>1
  <2> QED
    BY <2>2
<1>6. /\ IsFiniteSet(Recorded(ages, some)) /\ HowMany(ages, some) \in Nat
  BY SumType
<1>7. HowMany(new, some) = IF 0 \in some THEN HowMany(ages, some) + 1 ELSE HowMany(ages, some)
  BY <1>3, <1>4, <1>5, <1>6, FS_AddElement DEF HowMany
<1> QED
  BY <1>1, <1>3, <1>4, <1>5, <1>7 DEF new

\* A tick makes everything older by one, and forgets what was oldest.
LEMMA OlderType ==
  ASSUME NEW ages \in [Ages -> Nat]
  PROVE  /\ Older(ages) \in [Ages -> Nat] /\ Older(ages)[0] = 0
         /\ \A a \in Ages \ {0} : a - 1 \in Ages /\ Older(ages)[a] = ages[a - 1]
<1>1. Window \in Nat \ {0}
  BY LimiterAssumption
<1>2. \A a \in Ages \ {0} : a - 1 \in Ages
  BY <1>1 DEF Ages
<1>3. 0 \in Ages
  BY <1>1 DEF Ages
<1> QED
  BY <1>2, <1>3 DEF Older

\* What was of some ages is now one older.
LEMMA OlderKeeps ==
  ASSUME NEW ages \in [Ages -> Nat], NEW old \in SUBSET Ages,
         NEW new \in SUBSET Ages, \A a \in old : a + 1 \in new
  PROVE  HowMany(ages, old) <= HowMany(Older(ages), new)
<1> DEFINE f == [c \in Recorded(ages, old) |-> <<c[1] + 1, c[2]>>]
<1>1. Window \in Nat \ {0}
  BY LimiterAssumption
<1>2. \A a \in old : /\ a \in Nat /\ a + 1 \in new /\ a + 1 # 0
                     /\ (a + 1) - 1 = a
  BY <1>1 DEF Ages
<1>3. \A a \in old : Older(ages)[a + 1] = ages[a]
  BY <1>2, OlderType
<1>4. ASSUME NEW c \in Recorded(ages, old)
      PROVE  /\ c = <<c[1], c[2]>> /\ c[1] \in Nat
             /\ <<c[1] + 1, c[2]>> \in Recorded(Older(ages), new)
  <2>1. c = <<c[1], c[2]>> /\ c[1] \in old /\ c[2] \in 1 .. ages[c[1]]
    BY <1>4, RecordedCells
  <2>2. c[1] + 1 \in new /\ c[2] \in 1 .. Older(ages)[c[1] + 1]
    BY <1>2, <1>3, <2>1
  <2> QED
    BY <1>2, <2>1, <2>2, RecordedCells
<1>5. f \in [Recorded(ages, old) -> Recorded(Older(ages), new)]
  BY <1>4
<1>6. ASSUME NEW c \in Recorded(ages, old), NEW d \in Recorded(ages, old),
             f[c] = f[d]
      PROVE  c = d
  <2>1. c[1] + 1 = d[1] + 1 /\ c[2] = d[2]
    BY <1>6
  <2>2. c[1] \in Nat /\ d[1] \in Nat
    BY <1>4
  <2>3. c[1] = d[1]
    BY <2>1, <2>2
  <2>4. c = <<c[1], c[2]>> /\ d = <<d[1], d[2]>>
    BY <1>4
  <2> QED
    BY <2>1, <2>3, <2>4
<1>7. f \in Injection(Recorded(ages, old), Recorded(Older(ages), new))
  <2> HIDE DEF f
  <2> QED
    BY <1>5, <1>6 DEF Injection, IsInjective
<1> HIDE DEF f
<1> QED
  BY <1>7, OlderType, SumType, FS_Injection DEF HowMany

\* What is now of some ages was one younger.
LEMMA OlderLoses ==
  ASSUME NEW ages \in [Ages -> Nat], NEW old \in SUBSET Ages,
         NEW new \in SUBSET Ages, \A a \in new : a # 0 => a - 1 \in old
  PROVE  HowMany(Older(ages), new) <= HowMany(ages, old)
<1> DEFINE f == [c \in Recorded(Older(ages), new) |-> <<c[1] - 1, c[2]>>]
<1>1. Window \in Nat \ {0}
  BY LimiterAssumption
<1>4. ASSUME NEW c \in Recorded(Older(ages), new)
      PROVE  /\ c = <<c[1], c[2]>> /\ c[1] \in Nat
             /\ <<c[1] - 1, c[2]>> \in Recorded(ages, old)
  <2>1. c = <<c[1], c[2]>> /\ c[1] \in new /\ c[2] \in 1 .. Older(ages)[c[1]]
    BY <1>4, RecordedCells
  <2>2. c[1] # 0
    BY <2>1, OlderType
  <2>3. c[1] - 1 \in old /\ c[1] \in Ages
    BY <2>1, <2>2
  <2>4. c[2] \in 1 .. ages[c[1] - 1]
    BY <2>1, <2>2, <2>3, OlderType
  <2>5. c[1] \in Nat
    BY <1>1, <2>3 DEF Ages
  <2> QED
    BY <2>1, <2>3, <2>4, <2>5, RecordedCells
<1>5. f \in [Recorded(Older(ages), new) -> Recorded(ages, old)]
  BY <1>4
<1>6. ASSUME NEW c \in Recorded(Older(ages), new),
             NEW d \in Recorded(Older(ages), new), f[c] = f[d]
      PROVE  c = d
  <2>1. c[1] - 1 = d[1] - 1 /\ c[2] = d[2]
    BY <1>6
  <2>2. c[1] \in Nat /\ d[1] \in Nat
    BY <1>4
  <2>3. c[1] = d[1]
    BY <2>1, <2>2
  <2>4. c = <<c[1], c[2]>> /\ d = <<d[1], d[2]>>
    BY <1>4
  <2> QED
    BY <2>1, <2>3, <2>4
<1>7. f \in Injection(Recorded(Older(ages), new), Recorded(ages, old))
  <2> HIDE DEF f
  <2> QED
    BY <1>5, <1>6 DEF Injection, IsInjective
<1> HIDE DEF f
<1> QED
  BY <1>7, SumType, FS_Injection DEF HowMany

-----------------------------------------------------------------------------
(* Limits *)

LEMMA LimitType ==
  ASSUME NEW k \in Keys
  PROVE  Limit(k) \in Nat /\ TopLimit \in Nat /\ Limit(k) <= TopLimit
<1> DEFINE T == {Rules[i].limit : i \in DOMAIN Rules}
           L == {LoginLimit, RegisterLimit, ResetLimit, TransferLimit, DefaultLimit}
<1>1. \A i \in DOMAIN Rules : Rules[i].limit \in L
  BY DEF Rules, Rule
<1>2. IsFiniteSet(L)
  <2>1. IsFiniteSet({LoginLimit})
    BY FS_Singleton
  <2>2. IsFiniteSet({LoginLimit} \cup {RegisterLimit})
    BY <2>1, FS_AddElement
  <2>3. IsFiniteSet({LoginLimit} \cup {RegisterLimit} \cup {ResetLimit})
    BY <2>2, FS_AddElement
  <2>4. IsFiniteSet({LoginLimit} \cup {RegisterLimit} \cup {ResetLimit}
                      \cup {TransferLimit})
    BY <2>3, FS_AddElement
  <2>5. IsFiniteSet({LoginLimit} \cup {RegisterLimit} \cup {ResetLimit}
                      \cup {TransferLimit} \cup {DefaultLimit})
    BY <2>4, FS_AddElement
  <2>6. L = {LoginLimit} \cup {RegisterLimit} \cup {ResetLimit}
              \cup {TransferLimit} \cup {DefaultLimit}
    OBVIOUS
  <2> QED
    BY <2>5, <2>6
<1>3. L \subseteq Nat
  BY LimiterAssumption
<1>4. k[1] \in DOMAIN Rules
  BY DEF Keys
<1> HIDE DEF L
<1>5. T \subseteq L /\ Limit(k) \in T
  BY <1>1, <1>4 DEF Limit
<1>6. IsFiniteSet(T) /\ T \subseteq Nat /\ T # {}
  BY <1>2, <1>3, <1>5, FS_Subset
<1>7. Max(T) \in T /\ \A m \in T : m <= Max(T)
  <2> HIDE DEF T
  <2> QED
    BY <1>6, LargestMember
<1>8. TopLimit = Max(T)
  BY DEF TopLimit
<1> HIDE DEF T
<1> QED
  BY <1>5, <1>6, <1>7, <1>8

\* A count goes up to one more than the limit.
LEMMA UpToLimit ==
  ASSUME NEW k \in Keys, NEW n \in Nat
  PROVE  UpTo(n, k) = IF n <= Limit(k) + 1 THEN n ELSE Limit(k) + 1
<1>1. Limit(k) + 1 \in Nat
  BY LimitType
<1> QED
  BY <1>1, MinOfTwo DEF UpTo

\* One more request is asked for: what is recorded grows by it, or the limit
\* is already exceeded.
LEMMA AskOne ==
  ASSUME NEW k \in Keys, NEW ages \in [Ages -> Nat],
         \A a \in Ages : ages[a] <= Limit(k) + 1,
         NEW some \in SUBSET Ages, 0 \in some
  PROVE  /\ AskedOnce(ages, k) \in [Ages -> Nat]
         /\ \A a \in Ages : AskedOnce(ages, k)[a] <= Limit(k) + 1
         /\ Recorded(ages, some) \subseteq Recorded(AskedOnce(ages, k), some)
         /\ HowMany(ages, some) <= HowMany(AskedOnce(ages, k), some)
         /\ \A n \in Nat : n <= HowMany(ages, some) =>
              UpTo(n + 1, k) <= HowMany(AskedOnce(ages, k), some)
<1>4. /\ 0 \in Ages /\ ages[0] \in Nat /\ Limit(k) \in Nat
      /\ ages[0] <= Limit(k) + 1
  BY LimiterAssumption, LimitType DEF Ages
<1>1. PICK h \in Nat : h = HowMany(ages, some)
  BY SumType
<1>2. CASE ages[0] <= Limit(k)
  <2>1. UpTo(ages[0] + 1, k) = ages[0] + 1
    <3>1. ages[0] + 1 \in Nat /\ ages[0] + 1 <= Limit(k) + 1
      BY <1>4, <1>2
    <3> QED
      BY <3>1, UpToLimit
  <2>2. AskedOnce(ages, k) = OneMore(ages)
    BY <2>1 DEF AskedOnce, OneMore
  <2>3. /\ OneMore(ages) \in [Ages -> Nat]
        /\ Recorded(OneMore(ages), some) =
             Recorded(ages, some) \cup {<<0, ages[0] + 1>>}
        /\ HowMany(OneMore(ages), some) = h + 1
    BY <1>1, RecordOne
  <2>4. \A a \in Ages : OneMore(ages)[a] <= Limit(k) + 1
    BY <1>4, <1>2 DEF OneMore
  <2>5. ASSUME NEW n \in Nat, n <= h
        PROVE  UpTo(n + 1, k) <= h + 1
    <3>1. UpTo(n + 1, k) <= n + 1 /\ UpTo(n + 1, k) \in Nat
      BY <1>4, UpToLimit
    <3> QED
      BY <2>5, <3>1
  <2>6. h <= h + 1
    OBVIOUS
  <2> QED
    BY <1>1, <2>2, <2>3, <2>4, <2>5, <2>6
<1>3. CASE ages[0] = Limit(k) + 1
  <2>1. UpTo(ages[0] + 1, k) = ages[0]
    <3>1. ages[0] + 1 \in Nat /\ ~(ages[0] + 1 <= Limit(k) + 1)
      BY <1>4, <1>3
    <3> QED
      BY <1>3, <3>1, UpToLimit
  <2>2. AskedOnce(ages, k) = ages
    BY <2>1 DEF AskedOnce
  <2>3. Limit(k) + 1 <= h
    BY <1>1, <1>3, SumOfOne
  <2>4. ASSUME NEW n \in Nat PROVE UpTo(n + 1, k) <= h
    <3>1. UpTo(n + 1, k) <= Limit(k) + 1 /\ UpTo(n + 1, k) \in Nat
      BY <1>4, UpToLimit
    <3> QED
      BY <1>4, <2>3, <3>1
  <2>5. h <= h
    OBVIOUS
  <2> QED
    BY <1>1, <2>2, <2>4, <2>5
<1> QED
  BY <1>4, <1>2, <1>3

-----------------------------------------------------------------------------
(* The operations the actions are made of *)

\* A request is counted and judged under the rule that was meant for it.
LEMMA RequestKey ==
  ASSUME NEW path \in Paths, NEW address \in Addresses
  PROVE  /\ <<RuleOf(path), address>> \in Keys
         /\ <<Intended(path), address>> = <<RuleOf(path), address>>
<1>1. path \in Seq(STRING)
  BY LimiterAssumption
<1> QED
  BY <1>1, FirstMatchIsMeant DEF Keys

LEMMA CheckedKey ==
  ASSUME StateInv, NEW w \in Workers, ~In(w, "idle")
  PROVE  KeyOf(w) \in Keys /\ MeantFor(w) = KeyOf(w)
<1>1. check[w].path \in Paths /\ check[w].address \in Addresses
  BY DEF StateInv, KnowsRequest
<1> QED
  BY <1>1, RequestKey DEF KeyOf, MeantFor

LEMMA CountingAsk ==
  ASSUME StateInv, NEW m \in Keys, CountAsk(m)
  PROVE  /\ asked' \in [Keys -> [Ages -> Nat]] /\ AskedIsCapped'
         /\ asked'[m] = AskedOnce(asked[m], m)
         /\ \A k \in Keys \ {m} : asked'[k] = asked[k]
<1>1. /\ asked \in [Keys -> [Ages -> Nat]] /\ asked[m] \in [Ages -> Nat]
      /\ \A k \in Keys, a \in Ages : asked[k][a] <= Limit(k) + 1
  BY DEF StateInv, LimiterTypeOK, AskedIsCapped
<1>2. asked' = [asked EXCEPT ![m] = AskedOnce(asked[m], m)]
  BY <1>1 DEF CountAsk, AskedOnce
<1>3. 0 \in Ages
  BY LimiterAssumption DEF Ages
<1>4. /\ AskedOnce(asked[m], m) \in [Ages -> Nat]
      /\ \A a \in Ages : AskedOnce(asked[m], m)[a] <= Limit(m) + 1
  BY <1>1, <1>3, AskOne
<1>5. /\ asked' \in [Keys -> [Ages -> Nat]]
      /\ asked'[m] = AskedOnce(asked[m], m)
      /\ \A k \in Keys \ {m} : asked'[k] = asked[k]
  BY <1>1, <1>2, <1>4
<1>6. \A k \in Keys, a \in Ages : asked'[k][a] <= Limit(k) + 1
  BY <1>1, <1>4, <1>5
<1> QED
  BY <1>5, <1>6 DEF AskedIsCapped, Limit, Rules, Rule, Keys, Ages

LEMMA CountingPass ==
  ASSUME StateInv, NEW m \in Keys, CountPass(m)
  PROVE  /\ passed' \in [Keys -> [Ages -> Nat]]
         /\ passed'[m] = OneMore(passed[m])
         /\ \A k \in Keys \ {m} : passed'[k] = passed[k]
<1>1. passed \in [Keys -> [Ages -> Nat]] /\ passed[m] \in [Ages -> Nat]
  BY DEF StateInv, LimiterTypeOK
<1>2. passed' = [passed EXCEPT ![m] = OneMore(passed[m])]
  BY <1>1 DEF CountPass, OneMore
<1>3. OneMore(passed[m]) \in [Ages -> Nat]
  BY <1>1, RecordOne
<1> QED
  BY <1>1, <1>2, <1>3

LEMMA Incrementing ==
  ASSUME StateInv, NEW k \in Keys, IncrementKey(k)
  PROVE  /\ counter' \in [Keys -> [count : 0 .. TopLimit + 1, life : 1 .. Forever]]
         /\ counter'[k].count = UpTo(counter[k].count + 1, k)
         /\ counter'[k].life = counter[k].life
         /\ \A j \in Keys \ {k} : counter'[j] = counter[j]
<1>1. counter \in [Keys -> [count : 0 .. TopLimit + 1, life : 1 .. Forever]]
  BY DEF StateInv, LimiterTypeOK
<1>2. counter' = [counter EXCEPT ![k].count = UpTo(counter[k].count + 1, k)]
  BY <1>1 DEF IncrementKey
<1>3. counter[k].count \in 0 .. TopLimit + 1
  BY <1>1
<1>4. Limit(k) \in Nat /\ TopLimit \in Nat /\ Limit(k) <= TopLimit
  BY LimitType
<1>5. UpTo(counter[k].count + 1, k) \in 0 .. TopLimit + 1
  <2>1. counter[k].count + 1 \in Nat
    BY <1>3
  <2> HIDE DEF TopLimit
  <2> QED
    BY <1>4, <2>1, UpToLimit
<1> QED
  BY <1>1, <1>2, <1>5

\* What memory keeps of a key: its hits from the first on that is in time.
LEMMA WindowOf ==
  ASSUME NEW ages \in Seq(0 .. Forever)
  PROVE  /\ InWindow(ages) \in Seq(0 .. Forever)
         /\ \E first \in 1 .. Len(ages) + 1 :
              /\ Len(InWindow(ages)) = Len(ages) + 1 - first
              /\ \A i \in 1 .. Len(ages) + 1 - first :
                   InWindow(ages)[i] = ages[i + first - 1]
              /\ \A i \in 1 .. first - 1 : ages[i] > Window
              /\ first <= Len(ages) => ages[first] <= Window
<1> DEFINE T == {i \in DOMAIN ages : ages[i] <= Window} \cup {Len(ages) + 1}
           first == Min(T)
<1>1. Len(ages) \in Nat /\ DOMAIN ages = 1 .. Len(ages) /\ Window \in Nat
  BY LimiterAssumption
<1>10. \A i \in 1 .. Len(ages) : ages[i] \in Nat
  BY <1>1 DEF Forever
<1>2. T \subseteq 1 .. Len(ages) + 1 /\ T \subseteq Nat /\ T # {}
  BY <1>1
<1>3. first \in T /\ \A m \in T : first <= m
  <2> HIDE DEF T
  <2> QED
    BY <1>2, SmallestMember
<1>4. InWindow(ages) = SubSeq(ages, first, Len(ages))
  BY DEF InWindow, From
<1>5. first \in 1 .. Len(ages) + 1
  BY <1>2, <1>3
<1>6. \A i \in 1 .. first - 1 : ages[i] > Window
  <2>1. ASSUME NEW i \in 1 .. first - 1, ages[i] <= Window PROVE FALSE
    <3>1. i \in 1 .. Len(ages) /\ ~(first <= i)
      BY <1>1, <1>5, <2>1
    <3>2. i \in T
      BY <1>1, <2>1, <3>1
    <3> QED
      BY <1>3, <3>1, <3>2
  <2>2. \A i \in 1 .. first - 1 : i \in 1 .. Len(ages)
    BY <1>1, <1>5
  <2> QED
    BY <1>1, <1>10, <2>1, <2>2
<1>7. first <= Len(ages) => ages[first] <= Window
  BY <1>1, <1>3, <1>5
<1> HIDE DEF first
<1>8. PICK f \in 1 .. Len(ages) + 1 : f = first
  BY <1>5
<1>9. /\ SubSeq(ages, f, Len(ages)) \in Seq(0 .. Forever)
      /\ Len(SubSeq(ages, f, Len(ages))) = Len(ages) + 1 - f
      /\ \A i \in 1 .. Len(ages) + 1 - f :
           SubSeq(ages, f, Len(ages))[i] = ages[i + f - 1]
  <2>1. PICK n \in Nat : n = Len(ages)
    BY <1>1
  <2>2. ASSUME NEW S, ages \in Seq(S) PROVE \A i \in 1 .. Len(ages) : ages[i] \in S
    BY <2>2
  <2>3. \A i \in 1 .. n : ages[i] \in 0 .. Forever
    BY <2>1, <2>2
  <2>4. f \in 1 .. n + 1
    BY <2>1
  <2>5. f \in Int /\ n \in Int /\ \A i \in f .. n : ages[i] \in 0 .. Forever
    BY <2>3, <2>4
  <2>6. /\ SubSeq(ages, f, n) \in Seq(0 .. Forever)
        /\ Len(SubSeq(ages, f, n)) = IF f <= n THEN n - f + 1 ELSE 0
        /\ \A i \in 1 .. n - f + 1 : SubSeq(ages, f, n)[i] = ages[f + i - 1]
    BY <2>5, SubSeqProperties
  <2>7. (IF f <= n THEN n - f + 1 ELSE 0) = n + 1 - f
    BY <2>4
  <2>8. \A i \in 1 .. n + 1 - f : i \in 1 .. n - f + 1 /\ f + i - 1 = i + f - 1
    BY <2>4
  <2> QED
    BY <2>1, <2>6, <2>7, <2>8
<1> QED
  BY <1>4, <1>6, <1>7, <1>8, <1>9

-----------------------------------------------------------------------------
(* The types, the caps and the requests known *)

LEMMA StateInit == LimiterInit => StateInv
<1> SUFFICES ASSUME LimiterInit PROVE StateInv
  OBVIOUS
<1>1. Window \in Nat \ {0} /\ 0 \in Ages
  BY LimiterAssumption DEF Ages
<1>2. /\ NoHits \in [Ages -> Nat]
      /\ \A k \in Keys, a \in Ages : NoHits[a] <= Limit(k) + 1
  BY LimitType DEF NoHits
<1>3. \A k \in Keys :
        NoCounter \in [count : 0 .. TopLimit + 1, life : 1 .. Forever]
  <2>1. \A k \in Keys : TopLimit \in Nat
    BY LimitType
  <2>2. \A k \in Keys : 0 \in 0 .. TopLimit + 1
    <3> HIDE DEF TopLimit
    <3> QED
      BY <2>1
  <2>3. Forever \in 1 .. Forever
    BY <1>1 DEF Forever
  <2> QED
    BY <2>2, <2>3 DEF NoCounter
<1>4. LimiterTypeOK
  <2>1. backend \in {"redis", "memory"} /\ redisUp \in BOOLEAN /\ stuck \subseteq Keys
    BY DEF LimiterInit
  <2>2. counter \in [Keys -> [count : 0 .. TopLimit + 1, life : 1 .. Forever]]
    BY <1>3 DEF LimiterInit
  <2>3. hits \in [Workers -> [Keys -> Seq(0 .. Forever)]]
    <3>1. << >> \in Seq(0 .. Forever)
      OBVIOUS
    <3> QED
      BY <3>1 DEF LimiterInit
  <2>4. check \in [Workers ->
          [pc : {"idle", "incr", "expire", "pass", "refuse"},
           path : Paths \cup {<<>>}, address : Addresses \cup {NoAddress}]]
    BY DEF LimiterInit, NoCheck
  <2>5. passed \in [Keys -> [Ages -> Nat]] /\ asked \in [Keys -> [Ages -> Nat]]
    BY <1>2 DEF LimiterInit
  <2> QED
    BY <2>1, <2>2, <2>3, <2>4, <2>5 DEF LimiterTypeOK
<1>5. AskedIsCapped
  BY <1>2 DEF AskedIsCapped, LimiterInit
<1>6. \A w \in Workers : check[w].pc = "idle"
  BY DEF LimiterInit, NoCheck
<1> QED
  BY <1>4, <1>5, <1>6 DEF StateInv, KnowsRequest, In

\* What a worker's next step leaves of the checks of the others.
LEMMA StateChange ==
  ASSUME StateInv, NEW w \in Workers,
         LimiterTypeOK', AskedIsCapped', backend' = backend,
         \A v \in Workers \ {w} : check'[v] = check[v],
         KnowsRequest(w)',
         In(w, "incr")' \/ In(w, "expire")' => backend = "redis"
  PROVE  StateInv'
BY DEF StateInv, KnowsRequest, In

LEMMA StateArrive ==
  ASSUME StateInv, NEW w \in Workers, NEW path \in Paths,
         NEW address \in Addresses, Arrive(w, path, address)
  PROVE  StateInv'
<1>1. /\ UNCHANGED <<backend, redisUp, counter, hits, passed, asked, stuck>>
      /\ backend = "redis"
      /\ check' = [check EXCEPT
           ![w] = [pc |-> "incr", path |-> path, address |-> address]]
  BY DEF Arrive
<1>2. LimiterTypeOK'
  BY <1>1 DEF StateInv, LimiterTypeOK, Keys, Forever, TopLimit, Ages
<1>3. AskedIsCapped'
  BY <1>1 DEF StateInv, AskedIsCapped, Limit, Keys, Ages
<1>4. /\ \A v \in Workers \ {w} : check'[v] = check[v]
      /\ check'[w] = [pc |-> "incr", path |-> path, address |-> address]
  BY <1>1 DEF StateInv, LimiterTypeOK
<1> QED
  BY <1>1, <1>2, <1>3, <1>4, StateChange DEF KnowsRequest

\* The state in parts: what an action must show of what it changes.
LEMMA TypeParts ==
  ASSUME StateInv, UNCHANGED <<backend, hits>>,
         redisUp' \in BOOLEAN,
         counter' \in [Keys -> [count : 0 .. TopLimit + 1, life : 1 .. Forever]],
         NEW w \in Workers, NEW new, check' = [check EXCEPT ![w] = new],
         new \in [pc : {"idle", "incr", "expire", "pass", "refuse"},
                  path : Paths \cup {<<>>}, address : Addresses \cup {NoAddress}],
         passed' \in [Keys -> [Ages -> Nat]],
         asked' \in [Keys -> [Ages -> Nat]],
         stuck' \subseteq Keys
  PROVE  LimiterTypeOK'
<1>1. check' \in [Workers ->
        [pc : {"idle", "incr", "expire", "pass", "refuse"},
         path : Paths \cup {<<>>}, address : Addresses \cup {NoAddress}]]
  BY DEF StateInv, LimiterTypeOK
<1>2. hits' \in [Workers -> [Keys -> Seq(0 .. Forever)]]
  BY DEF StateInv, LimiterTypeOK
<1> QED
  BY <1>1, <1>2
  DEF StateInv, LimiterTypeOK, Keys, Ages, Forever, TopLimit, Rules, Rule

\* A worker's check moves on to another step, with the same request.
LEMMA CheckMoves ==
  ASSUME StateInv, NEW w \in Workers, ~In(w, "idle"),
         NEW pc \in {"expire", "pass", "refuse"},
         check' = [check EXCEPT ![w].pc = pc]
  PROVE  /\ check' = [check EXCEPT ![w] = [check[w] EXCEPT !.pc = pc]]
         /\ [check[w] EXCEPT !.pc = pc]
              \in [pc : {"idle", "incr", "expire", "pass", "refuse"},
                   path : Paths \cup {<<>>}, address : Addresses \cup {NoAddress}]
         /\ \A v \in Workers \ {w} : check'[v] = check[v]
         /\ check'[w].pc = pc
         /\ check'[w].path = check[w].path /\ check'[w].address = check[w].address
         /\ KnowsRequest(w)'
<1>1. check \in [Workers ->
        [pc : {"idle", "incr", "expire", "pass", "refuse"},
         path : Paths \cup {<<>>}, address : Addresses \cup {NoAddress}]]
  BY DEF StateInv, LimiterTypeOK
<1>2. check' = [check EXCEPT ![w] = [check[w] EXCEPT !.pc = pc]]
  BY <1>1
<1>3. check[w] \in [pc : {"idle", "incr", "expire", "pass", "refuse"},
         path : Paths \cup {<<>>}, address : Addresses \cup {NoAddress}]
  BY <1>1
<1>4. /\ [check[w] EXCEPT !.pc = pc]
           \in [pc : {"idle", "incr", "expire", "pass", "refuse"},
                path : Paths \cup {<<>>}, address : Addresses \cup {NoAddress}]
      /\ [check[w] EXCEPT !.pc = pc].pc = pc
      /\ [check[w] EXCEPT !.pc = pc].path = check[w].path
      /\ [check[w] EXCEPT !.pc = pc].address = check[w].address
  BY <1>3
<1>5. /\ \A v \in Workers \ {w} : check'[v] = check[v]
      /\ check'[w] = [check[w] EXCEPT !.pc = pc]
  BY <1>1, <1>2
<1>6. check[w].path \in Paths /\ check[w].address \in Addresses
  BY DEF StateInv, KnowsRequest
<1> QED
  BY <1>2, <1>4, <1>5, <1>6 DEF KnowsRequest

\* The answer of is_allowed, and the pass if it is one.
LEMMA Deciding ==
  ASSUME StateInv, NEW w \in Workers, ~In(w, "idle"), NEW allowed \in BOOLEAN,
         Decide(w, allowed, MeantFor(w))
  PROVE  /\ check' = [check EXCEPT ![w].pc = IF allowed THEN "pass" ELSE "refuse"]
         /\ passed' \in [Keys -> [Ages -> Nat]]
         /\ allowed => CountPass(KeyOf(w))
         /\ ~allowed => passed' = passed
<1>1. KeyOf(w) \in Keys /\ MeantFor(w) = KeyOf(w)
  BY CheckedKey
<1>2. allowed => CountPass(KeyOf(w))
  BY <1>1 DEF Decide
<1>3. ~allowed => passed' = passed
  BY DEF Decide
<1>4. passed' \in [Keys -> [Ages -> Nat]]
  BY <1>1, <1>2, <1>3, CountingPass DEF StateInv, LimiterTypeOK
<1> QED
  BY <1>2, <1>3, <1>4 DEF Decide

LEMMA StateIncr ==
  ASSUME StateInv, NEW w \in Workers, Incr(w)
  PROVE  StateInv'
<1> DEFINE k == KeyOf(w)
<1>1. /\ In(w, "incr") /\ ~In(w, "idle") /\ backend = "redis"
      /\ IncrementKey(k) /\ CountAsk(MeantFor(w))
      /\ UNCHANGED <<backend, redisUp, hits, stuck>>
  BY DEF Incr, In, StateInv
<1>2. k \in Keys /\ MeantFor(w) = k
  BY <1>1, CheckedKey
<1>3. /\ asked' \in [Keys -> [Ages -> Nat]] /\ AskedIsCapped'
      /\ counter' \in [Keys -> [count : 0 .. TopLimit + 1, life : 1 .. Forever]]
  BY <1>1, <1>2, CountingAsk, Incrementing
<1>4. /\ passed' \in [Keys -> [Ages -> Nat]]
      /\ \E pc \in {"expire", "pass", "refuse"} : check' = [check EXCEPT ![w].pc = pc]
  <2>1. CASE counter[k].count = 0
    BY <1>1, <2>1 DEF Incr, StateInv, LimiterTypeOK
  <2>2. CASE counter[k].count # 0
    <3>1. Decide(w, TRUE, MeantFor(w)) \/ Decide(w, FALSE, MeantFor(w))
      BY <2>2 DEF Incr, Decide
    <3> QED
      BY <1>1, <3>1, Deciding
  <2> QED
    BY <2>1, <2>2
<1>5. PICK pc \in {"expire", "pass", "refuse"} : check' = [check EXCEPT ![w].pc = pc]
  BY <1>4
<1>6. redisUp' \in BOOLEAN /\ stuck' \subseteq Keys
  BY <1>1 DEF StateInv, LimiterTypeOK
<1>7. LimiterTypeOK'
  BY <1>1, <1>3, <1>4, <1>5, <1>6, CheckMoves, TypeParts
<1>8. /\ KnowsRequest(w)'
      /\ \A v \in Workers \ {w} : check'[v] = check[v]
  BY <1>1, <1>5, CheckMoves
<1> QED
  BY <1>1, <1>3, <1>7, <1>8, StateChange

LEMMA StateExpire ==
  ASSUME StateInv, NEW w \in Workers, Expire(w)
  PROVE  StateInv'
<1> DEFINE k == KeyOf(w)
<1>1. /\ In(w, "expire") /\ ~In(w, "idle") /\ backend = "redis"
      /\ counter' = [counter EXCEPT ![k].life = Window]
      /\ Decide(w, 1 <= Limit(k), MeantFor(w))
      /\ UNCHANGED <<backend, redisUp, hits, asked, stuck>>
  BY DEF Expire, In, StateInv
<1>2. k \in Keys /\ MeantFor(w) = k
  BY <1>1, CheckedKey
<1>3. Window \in 1 .. Forever
  BY LimiterAssumption DEF Forever
<1>4. /\ counter' \in [Keys -> [count : 0 .. TopLimit + 1, life : 1 .. Forever]]
      /\ redisUp' \in BOOLEAN /\ stuck' \subseteq Keys
      /\ asked' \in [Keys -> [Ages -> Nat]] /\ AskedIsCapped'
  BY <1>1, <1>2, <1>3
  DEF StateInv, LimiterTypeOK, AskedIsCapped, Limit, Keys, Ages
<1>5. /\ passed' \in [Keys -> [Ages -> Nat]]
      /\ \E pc \in {"expire", "pass", "refuse"} : check' = [check EXCEPT ![w].pc = pc]
  <2>1. Decide(w, TRUE, MeantFor(w)) \/ Decide(w, FALSE, MeantFor(w))
    BY <1>1 DEF Decide
  <2> QED
    BY <1>1, <2>1, Deciding
<1>6. PICK pc \in {"expire", "pass", "refuse"} : check' = [check EXCEPT ![w].pc = pc]
  BY <1>5
<1>7. LimiterTypeOK'
  BY <1>1, <1>4, <1>5, <1>6, CheckMoves, TypeParts
<1>8. /\ KnowsRequest(w)'
      /\ \A v \in Workers \ {w} : check'[v] = check[v]
  BY <1>1, <1>6, CheckMoves
<1> QED
  BY <1>1, <1>4, <1>7, <1>8, StateChange

\* A command cut off leaves the counters and the requests as they may be.
LEMMA CutOffState ==
  ASSUME StateInv, NEW w \in Workers, In(w, "incr") \/ In(w, "expire"),
         CutOff(w)
  PROVE  /\ asked' \in [Keys -> [Ages -> Nat]] /\ AskedIsCapped'
         /\ counter' \in [Keys -> [count : 0 .. TopLimit + 1, life : 1 .. Forever]]
         /\ stuck' \subseteq Keys /\ stuck \subseteq stuck'
<1> DEFINE k == KeyOf(w)
<1>1. k \in Keys /\ MeantFor(w) = k
  BY CheckedKey DEF In
<1>2. /\ counter \in [Keys -> [count : 0 .. TopLimit + 1, life : 1 .. Forever]]
      /\ asked \in [Keys -> [Ages -> Nat]] /\ stuck \subseteq Keys
      /\ \A j \in Keys, a \in Ages : asked[j][a] <= Limit(j) + 1
  BY DEF StateInv, LimiterTypeOK, AskedIsCapped
<1>3. CASE UNCHANGED <<counter, asked>>
           /\ stuck' = IF In(w, "expire") THEN stuck \cup {k} ELSE stuck
  <2>1. AskedIsCapped'
    BY <1>2, <1>3 DEF AskedIsCapped, Limit, Keys, Ages
  <2> QED
    BY <1>1, <1>2, <1>3, <2>1
<1>4. CASE IncrementKey(k) /\ CountAsk(MeantFor(w))
           /\ stuck' = IF counter[k].count = 0 THEN stuck \cup {k} ELSE stuck
  <2>1. /\ asked' \in [Keys -> [Ages -> Nat]] /\ AskedIsCapped'
    BY <1>1, <1>4, CountingAsk
  <2>2. counter' \in [Keys -> [count : 0 .. TopLimit + 1, life : 1 .. Forever]]
    BY <1>1, <1>4, Incrementing
  <2>3. stuck' \subseteq Keys /\ stuck \subseteq stuck'
    BY <1>1, <1>2, <1>4
  <2> QED
    BY <2>1, <2>2, <2>3
<1>5. CASE counter' = [counter EXCEPT ![k].life = Window]
           /\ UNCHANGED <<asked, stuck>>
  <2>1. Window \in 1 .. Forever
    BY LimiterAssumption DEF Forever
  <2>2. AskedIsCapped'
    BY <1>2, <1>5 DEF AskedIsCapped, Limit, Keys, Ages
  <2> QED
    BY <1>1, <1>2, <1>5, <2>1, <2>2
<1> QED
  BY <1>3, <1>4, <1>5 DEF CutOff

LEMMA StateFailOpen ==
  ASSUME StateInv, NEW w \in Workers, FailOpen(w)
  PROVE  StateInv'
<1>1. /\ In(w, "incr") \/ In(w, "expire")
      /\ ~In(w, "idle") /\ backend = "redis" /\ CutOff(w)
      /\ check' = [check EXCEPT ![w].pc = "pass"]
      /\ UNCHANGED <<backend, redisUp, hits, passed>>
  BY DEF FailOpen, In, StateInv
<1>2. /\ asked' \in [Keys -> [Ages -> Nat]] /\ AskedIsCapped'
      /\ counter' \in [Keys -> [count : 0 .. TopLimit + 1, life : 1 .. Forever]]
      /\ stuck' \subseteq Keys
  BY <1>1, CutOffState
<1>3. /\ redisUp' \in BOOLEAN /\ passed' \in [Keys -> [Ages -> Nat]]
  BY <1>1 DEF StateInv, LimiterTypeOK
<1>4. LimiterTypeOK'
  BY <1>1, <1>2, <1>3, CheckMoves, TypeParts
<1>5. /\ KnowsRequest(w)'
      /\ \A v \in Workers \ {w} : check'[v] = check[v]
  BY <1>1, CheckMoves
<1> QED
  BY <1>1, <1>2, <1>4, <1>5, StateChange

LEMMA StateAnswer ==
  ASSUME StateInv, NEW w \in Workers, Answer(w)
  PROVE  StateInv'
<1>1. /\ check' = [check EXCEPT ![w] = NoCheck]
      /\ UNCHANGED <<backend, redisUp, counter, hits, passed, asked, stuck>>
  BY DEF Answer
<1>2. NoCheck \in [pc : {"idle", "incr", "expire", "pass", "refuse"},
                   path : Paths \cup {<<>>}, address : Addresses \cup {NoAddress}]
  BY DEF NoCheck
<1>3. /\ redisUp' \in BOOLEAN /\ stuck' \subseteq Keys
      /\ passed' \in [Keys -> [Ages -> Nat]] /\ asked' \in [Keys -> [Ages -> Nat]]
      /\ counter' \in [Keys -> [count : 0 .. TopLimit + 1, life : 1 .. Forever]]
  BY <1>1 DEF StateInv, LimiterTypeOK
<1>4. LimiterTypeOK'
  BY <1>1, <1>2, <1>3, TypeParts
<1>5. AskedIsCapped'
  BY <1>1 DEF StateInv, AskedIsCapped, Limit, Keys, Ages
<1>6. /\ \A v \in Workers \ {w} : check'[v] = check[v]
      /\ check'[w].pc = "idle"
  BY <1>1 DEF StateInv, LimiterTypeOK, NoCheck
<1> QED
  BY <1>1, <1>4, <1>5, <1>6, StateChange DEF KnowsRequest, In

LEMMA StateRestart ==
  ASSUME StateInv, NEW w \in Workers, RestartWorker(w)
  PROVE  StateInv'
<1>1. /\ check' = [check EXCEPT ![w] = NoCheck]
      /\ hits' = [hits EXCEPT ![w] = [k \in Keys |-> << >>]]
      /\ UNCHANGED <<backend, redisUp, passed>>
  BY DEF RestartWorker
<1>2. NoCheck \in [pc : {"idle", "incr", "expire", "pass", "refuse"},
                   path : Paths \cup {<<>>}, address : Addresses \cup {NoAddress}]
  BY DEF NoCheck
<1>3. /\ asked' \in [Keys -> [Ages -> Nat]] /\ AskedIsCapped'
      /\ counter' \in [Keys -> [count : 0 .. TopLimit + 1, life : 1 .. Forever]]
      /\ stuck' \subseteq Keys
  <2>1. CASE In(w, "incr") \/ In(w, "expire")
    BY <2>1, CutOffState DEF RestartWorker
  <2>2. CASE ~(In(w, "incr") \/ In(w, "expire"))
    <3>1. UNCHANGED <<counter, asked>>
          /\ stuck' = stuck \cup {k \in Keys : hits[w][k] # << >>}
      BY <2>2 DEF RestartWorker
    <3> QED
      BY <3>1 DEF StateInv, LimiterTypeOK, AskedIsCapped, Limit, Keys, Ages
  <2> QED
    BY <2>1, <2>2
<1>4. hits' \in [Workers -> [Keys -> Seq(0 .. Forever)]]
  <2>1. [k \in Keys |-> << >>] \in [Keys -> Seq(0 .. Forever)]
    OBVIOUS
  <2> QED
    BY <1>1, <2>1 DEF StateInv, LimiterTypeOK
<1>5. /\ backend' \in {"redis", "memory"} /\ redisUp' \in BOOLEAN
      /\ passed' \in [Keys -> [Ages -> Nat]]
      /\ check' \in [Workers ->
           [pc : {"idle", "incr", "expire", "pass", "refuse"},
            path : Paths \cup {<<>>}, address : Addresses \cup {NoAddress}]]
  BY <1>1, <1>2 DEF StateInv, LimiterTypeOK
<1>6. LimiterTypeOK'
  BY <1>3, <1>4, <1>5
  DEF LimiterTypeOK, Keys, Ages, Forever, TopLimit, Rules, Rule
<1>7. /\ \A v \in Workers \ {w} : check'[v] = check[v]
      /\ check'[w].pc = "idle"
  BY <1>1 DEF StateInv, LimiterTypeOK, NoCheck
<1> QED
  BY <1>1, <1>3, <1>6, <1>7, StateChange DEF KnowsRequest, In

\* What a check in memory does to the hits of its key, and to nobody else's.
Checked(w, path, address, key, window) ==
  /\ key \in Keys /\ <<Intended(path), address>> = key
  /\ UNCHANGED <<backend, redisUp, counter, stuck>>
  /\ CountAsk(key)
  /\ hits' \in [Workers -> [Keys -> Seq(0 .. Forever)]]
  /\ \A v \in Workers, k \in Keys :
       v # w \/ k # key => hits'[v][k] = hits[v][k]
  /\ \A v \in Workers \ {w} : check'[v] = check[v]
  /\ \/ /\ Len(window) < Limit(key) /\ CountPass(key)
        /\ hits'[w][key] = Append(window, 0)
        /\ check'[w] = [pc |-> "pass", path |-> path, address |-> address]
     \/ /\ ~(Len(window) < Limit(key)) /\ UNCHANGED passed
        /\ hits'[w][key] = window
        /\ check'[w] = [pc |-> "refuse", path |-> path, address |-> address]

LEMMA CheckedHits ==
  ASSUME StateInv, NEW w \in Workers, NEW path \in Paths,
         NEW address \in Addresses, CheckMemory(w, path, address),
         NEW key, key = <<RuleOf(path), address>>,
         NEW window, window = InWindow(hits[w][key])
  PROVE  Checked(w, path, address, key, window)
<1>1. key \in Keys /\ <<Intended(path), address>> = key
  BY RequestKey
<1>2. /\ hits \in [Workers -> [Keys -> Seq(0 .. Forever)]]
      /\ hits[w][key] \in Seq(0 .. Forever)
      /\ check \in [Workers ->
           [pc : {"idle", "incr", "expire", "pass", "refuse"},
            path : Paths \cup {<<>>}, address : Addresses \cup {NoAddress}]]
  BY <1>1 DEF StateInv, LimiterTypeOK
<1>3. window \in Seq(0 .. Forever)
  BY <1>2, WindowOf
<1>4. Append(window, 0) \in Seq(0 .. Forever)
  <2>1. 0 \in 0 .. Forever
    BY LimiterAssumption DEF Forever
  <2> QED
    BY <1>3, <2>1
<1>5. /\ UNCHANGED <<backend, redisUp, counter, stuck>> /\ CountAsk(key)
      /\ hits' = [hits EXCEPT ![w][key] =
           IF Len(window) < Limit(key) THEN Append(window, 0) ELSE window]
      /\ check' = [check EXCEPT ![w] =
           [pc |-> IF Len(window) < Limit(key) THEN "pass" ELSE "refuse",
            path |-> path, address |-> address]]
      /\ IF Len(window) < Limit(key) THEN CountPass(key) ELSE UNCHANGED passed
  BY <1>1 DEF CheckMemory
<1>6. \A v \in Workers \ {w} : check'[v] = check[v]
  BY <1>2, <1>5
<1>7. CASE Len(window) < Limit(key)
  <2>1. hits' = [hits EXCEPT ![w][key] = Append(window, 0)]
    BY <1>5, <1>7
  <2>2. check'[w] = [pc |-> "pass", path |-> path, address |-> address]
    BY <1>2, <1>5, <1>7
  <2>3. /\ hits' \in [Workers -> [Keys -> Seq(0 .. Forever)]]
        /\ hits'[w][key] = Append(window, 0)
        /\ \A v \in Workers, k \in Keys :
             v # w \/ k # key => hits'[v][k] = hits[v][k]
    BY <1>1, <1>2, <1>4, <2>1
  <2> QED
    BY <1>1, <1>5, <1>6, <1>7, <2>2, <2>3 DEF Checked
<1>8. CASE ~(Len(window) < Limit(key))
  <2>1. hits' = [hits EXCEPT ![w][key] = window]
    BY <1>5, <1>8
  <2>2. check'[w] = [pc |-> "refuse", path |-> path, address |-> address]
    BY <1>2, <1>5, <1>8
  <2>3. /\ hits' \in [Workers -> [Keys -> Seq(0 .. Forever)]]
        /\ hits'[w][key] = window
        /\ \A v \in Workers, k \in Keys :
             v # w \/ k # key => hits'[v][k] = hits[v][k]
    BY <1>1, <1>2, <1>3, <2>1
  <2> QED
    BY <1>1, <1>5, <1>6, <1>8, <2>2, <2>3 DEF Checked
<1> QED
  BY <1>7, <1>8

LEMMA StateCheckMemory ==
  ASSUME StateInv, NEW w \in Workers, NEW path \in Paths,
         NEW address \in Addresses, CheckMemory(w, path, address)
  PROVE  StateInv'
<1>1. PICK key, window :
        key = <<RuleOf(path), address>> /\ window = InWindow(hits[w][key])
  OBVIOUS
<1>2. /\ key \in Keys
      /\ UNCHANGED <<backend, redisUp, counter, stuck>> /\ CountAsk(key)
      /\ hits' \in [Workers -> [Keys -> Seq(0 .. Forever)]]
      /\ \A v \in Workers \ {w} : check'[v] = check[v]
      /\ \/ /\ CountPass(key)
            /\ check'[w] = [pc |-> "pass", path |-> path, address |-> address]
         \/ /\ UNCHANGED passed
            /\ check'[w] = [pc |-> "refuse", path |-> path, address |-> address]
  <2>1. Checked(w, path, address, key, window)
    BY <1>1, CheckedHits
  <2> QED
    BY ONLY <2>1 DEF Checked
<1>3. /\ asked' \in [Keys -> [Ages -> Nat]] /\ AskedIsCapped'
      /\ passed' \in [Keys -> [Ages -> Nat]]
  BY <1>2, CountingAsk, CountingPass DEF StateInv, LimiterTypeOK
<1>4. check' \in [Workers ->
        [pc : {"idle", "incr", "expire", "pass", "refuse"},
         path : Paths \cup {<<>>}, address : Addresses \cup {NoAddress}]]
  <2>1. check' = [check EXCEPT ![w] = check'[w]]
    BY DEF CheckMemory, StateInv, LimiterTypeOK
  <2>2. check'[w] \in [pc : {"idle", "incr", "expire", "pass", "refuse"},
          path : Paths \cup {<<>>}, address : Addresses \cup {NoAddress}]
    BY <1>2
  <2> QED
    BY <2>1, <2>2 DEF StateInv, LimiterTypeOK
<1>5. LimiterTypeOK'
  BY <1>2, <1>3, <1>4
  DEF StateInv, LimiterTypeOK, Keys, Ages, Forever, TopLimit, Rules, Rule
<1>6. backend' = backend /\ \A v \in Workers \ {w} : check'[v] = check[v]
  BY <1>2
<1>7. /\ check'[w].pc # "incr" /\ check'[w].pc # "expire"
      /\ check'[w].path = path /\ check'[w].address = address
  BY <1>2
<1>8. KnowsRequest(w)' /\ ~In(w, "incr")' /\ ~In(w, "expire")'
  BY <1>7 DEF KnowsRequest, In
<1> QED
  BY <1>3, <1>5, <1>6, <1>8, StateChange

\* The life of a key goes down, and a key at the end of it is gone.
LEMMA TickCounter ==
  ASSUME Tick, NEW k \in Keys
  PROVE  /\ counter[k].life = Forever => counter'[k] = counter[k]
         /\ counter[k].life # Forever /\ counter[k].life = 1 =>
              counter'[k] = NoCounter
         /\ counter[k].life # Forever /\ counter[k].life # 1 =>
              counter'[k] = [counter[k] EXCEPT !.life = counter[k].life - 1]
<1>1. counter'[k] =
        CASE counter[k].life = Forever -> counter[k]
          [] counter[k].life = 1 -> NoCounter
          [] OTHER -> [counter[k] EXCEPT !.life = counter[k].life - 1]
  BY DEF Tick
<1>2. Forever # 1
  BY LimiterAssumption DEF Forever
<1> HIDE DEF Forever
<1> QED
  BY <1>1, <1>2

LEMMA StateTick ==
  ASSUME StateInv, Tick
  PROVE  StateInv'
<1>1. Window \in Nat \ {0}
  BY LimiterAssumption
<1>2. /\ counter \in [Keys -> [count : 0 .. TopLimit + 1, life : 1 .. Forever]]
      /\ hits \in [Workers -> [Keys -> Seq(0 .. Forever)]]
      /\ passed \in [Keys -> [Ages -> Nat]] /\ asked \in [Keys -> [Ages -> Nat]]
  BY DEF StateInv, LimiterTypeOK
<1>3. counter' \in [Keys -> [count : 0 .. TopLimit + 1, life : 1 .. Forever]]
  <2>1. ASSUME NEW k \in Keys
        PROVE  counter'[k] \in [count : 0 .. TopLimit + 1, life : 1 .. Forever]
    <3>1. counter[k] \in [count : 0 .. TopLimit + 1, life : 1 .. Forever]
      BY <1>2
    <3>2. CASE counter[k].life = Forever
      BY <3>1, <3>2, TickCounter
    <3>3. CASE counter[k].life # Forever /\ counter[k].life = 1
      <4>1. counter'[k] = NoCounter
        BY <3>3, TickCounter
      <4>2. 0 \in 0 .. TopLimit + 1
        <5>1. TopLimit \in Nat
          BY LimitType
        <5> HIDE DEF TopLimit
        <5> QED
          BY <5>1
      <4>3. Forever \in 1 .. Forever
        BY <1>1 DEF Forever
      <4> QED
        BY <4>1, <4>2, <4>3 DEF NoCounter
    <3>4. CASE counter[k].life # Forever /\ counter[k].life # 1
      <4>1. counter'[k] = [counter[k] EXCEPT !.life = counter[k].life - 1]
        BY <3>4, TickCounter
      <4>2. counter[k].life - 1 \in 1 .. Forever
        BY <1>1, <3>1, <3>4 DEF Forever
      <4> QED
        BY <3>1, <4>1, <4>2
    <3> QED
      BY <3>2, <3>3, <3>4
  <2>2. counter' = [k \in Keys |-> counter'[k]]
    BY DEF Tick
  <2> QED
    BY <2>1, <2>2
<1>4. hits' \in [Workers -> [Keys -> Seq(0 .. Forever)]]
  <2>1. ASSUME NEW w \in Workers, NEW k \in Keys,
               NEW ages \in Seq(0 .. Forever)
        PROVE  [i \in DOMAIN ages |-> Min({ages[i], Window}) + 1]
                 \in Seq(0 .. Forever)
    <3>1. Len(ages) \in Nat /\ DOMAIN ages = 1 .. Len(ages)
      OBVIOUS
    <3>2. ASSUME NEW i \in 1 .. Len(ages)
          PROVE  Min({ages[i], Window}) + 1 \in 0 .. Forever
      <4>1. ages[i] \in Nat
        BY <1>1 DEF Forever
      <4>2. Min({ages[i], Window}) = IF ages[i] <= Window THEN ages[i] ELSE Window
        BY <1>1, <4>1, MinOfTwo
      <4> QED
        BY <1>1, <4>1, <4>2 DEF Forever
    <3> QED
      BY <3>1, <3>2
  <2>2. \A w \in Workers, k \in Keys : hits[w][k] \in Seq(0 .. Forever)
    BY <1>2
  <2>3. hits' = [w \in Workers |-> [k \in Keys |->
          [i \in DOMAIN hits[w][k] |-> Min({hits[w][k][i], Window}) + 1]]]
    BY DEF Tick
  <2> QED
    BY <2>1, <2>2, <2>3
<1>5. /\ passed' \in [Keys -> [Ages -> Nat]] /\ asked' \in [Keys -> [Ages -> Nat]]
      /\ \A k \in Keys : passed'[k] = Older(passed[k]) /\ asked'[k] = Older(asked[k])
  BY <1>2, OlderType DEF Tick
<1>6. LimiterTypeOK'
  BY <1>3, <1>4, <1>5
  DEF Tick, StateInv, LimiterTypeOK, Keys, Ages, Forever, TopLimit, Rules, Rule
<1>7. AskedIsCapped'
  <2>1. ASSUME NEW k \in Keys, NEW a \in Ages PROVE asked'[k][a] <= Limit(k) + 1
    <3>1. asked'[k][0] = 0 /\ (a # 0 => a - 1 \in Ages /\ asked'[k][a] = asked[k][a - 1])
      BY <1>2, <1>5, OlderType
    <3>2. Limit(k) \in Nat
      BY LimitType
    <3>3. \A b \in Ages : asked[k][b] <= Limit(k) + 1
      BY DEF StateInv, AskedIsCapped
    <3> QED
      BY <3>1, <3>2, <3>3
  <2> QED
    BY <2>1 DEF AskedIsCapped, Limit, Keys, Ages
<1> QED
  BY <1>6, <1>7 DEF Tick, StateInv, KnowsRequest, In

-----------------------------------------------------------------------------
(* Redis: what each command does to the key it is about *)

LEMMA ElapsedType ==
  ASSUME StateInv, NEW k \in Keys
  PROVE  /\ Elapsed(k) \in Ages /\ (0 .. Elapsed(k)) \in SUBSET Ages
         /\ 0 \in 0 .. Elapsed(k)
<1>1. Window \in Nat \ {0}
  BY LimiterAssumption
<1>2. counter[k].life \in 1 .. Forever
  BY DEF StateInv, LimiterTypeOK
<1>3. Elapsed(k) \in 0 .. Window
  BY <1>1, <1>2 DEF Elapsed, Forever
<1> QED
  BY <1>1, <1>3 DEF Ages

\* The two generations of passes, and one more pass in the younger.
LEMMA PassCounts ==
  ASSUME NEW ages \in [Ages -> Nat], NEW s \in Ages
  PROVE  /\ HowMany(ages, 0 .. s) \in Nat /\ HowMany(ages, s + 1 .. Window) \in Nat
         /\ HowMany(OneMore(ages), 0 .. s) = HowMany(ages, 0 .. s) + 1
         /\ HowMany(OneMore(ages), s + 1 .. Window) = HowMany(ages, s + 1 .. Window)
         /\ HowMany(ages, s + 1 .. Window) <= Total(ages)
         /\ Total(ages) <= HowMany(ages, 0 .. s) + HowMany(ages, s + 1 .. Window)
         /\ Total(ages) \in Nat
<1>1. Window \in Nat /\ s \in 0 .. Window
  BY LimiterAssumption DEF Ages
<1>2. /\ (0 .. s) \in SUBSET Ages /\ (s + 1 .. Window) \in SUBSET Ages
      /\ 0 \in 0 .. s /\ 0 \notin s + 1 .. Window
      /\ (0 .. s) \cup (s + 1 .. Window) = Ages /\ Ages \in SUBSET Ages
  BY <1>1 DEF Ages
<1>3. /\ HowMany(ages, 0 .. s) \in Nat /\ HowMany(ages, s + 1 .. Window) \in Nat
      /\ Total(ages) \in Nat
  BY <1>2, SumType, TotalIsSum
<1>4. /\ HowMany(OneMore(ages), 0 .. s) = HowMany(ages, 0 .. s) + 1
      /\ HowMany(OneMore(ages), s + 1 .. Window) = HowMany(ages, s + 1 .. Window)
  BY <1>2, RecordOne
<1>5. HowMany(ages, s + 1 .. Window) <= Total(ages)
  BY <1>2, SumGrows, TotalIsSum
<1>6. Total(ages) <= HowMany(ages, 0 .. s) + HowMany(ages, s + 1 .. Window)
  BY <1>2, SumOfBoth, TotalIsSum
<1> QED
  BY <1>3, <1>4, <1>5, <1>6

\* Where nothing is counted nothing is recorded.
LEMMA NothingRecorded ==
  ASSUME NEW ages, NEW some, \A a \in some : ages[a] = 0
  PROVE  Recorded(ages, some) = {} /\ HowMany(ages, some) = 0
<1>1. ASSUME NEW c \in Recorded(ages, some) PROVE FALSE
  <2>1. c[1] \in some /\ c[2] \in 1 .. ages[c[1]]
    BY <1>1, RecordedCells
  <2>2. c[2] \in 1 .. 0
    BY <2>1
  <2> QED
    BY <2>2
<1>2. Recorded(ages, some) = {}
  BY <1>1
<1> QED
  BY <1>2, FS_EmptySet DEF HowMany

\* Nothing of a key changes.
LEMMA KeyStays ==
  ASSUME NEW k \in Keys, KeyInv(k),
         counter'[k] = counter[k], passed'[k] = passed[k], asked'[k] = asked[k],
         k \in stuck => k \in stuck',
         Pending(k)' = Pending(k)
  PROVE  KeyInv(k)'
<1>1. KeysExpire(k)'
  BY DEF KeyInv, KeysExpire
<1>2. CountedWasAsked(k)'
  BY DEF KeyInv, CountedWasAsked, Elapsed
<1>3. PassesAreCounted(k)'
  <2>1. CASE counter[k].count = 0
    BY <2>1 DEF KeyInv, PassesAreCounted
  <2>2. CASE counter[k].count # 0
    <3>1. PICK s \in Ages : TwoGenerations(k, s)
      BY <2>2 DEF KeyInv, PassesAreCounted
    <3>2. TwoGenerations(k, s)'
      BY <3>1 DEF TwoGenerations, Elapsed
    <3> QED
      BY <2>2, <3>2 DEF PassesAreCounted
  <2> QED
    BY <2>1, <2>2
<1> QED
  BY <1>1, <1>2, <1>3 DEF KeyInv

\* INCR creates the key, and the request is to give it its expiry or never will.
LEMMA KeyCreated ==
  ASSUME StateInv, NEW k \in Keys, KeyInv(k), NEW w \in Workers,
         counter[k].count = 0, IncrementKey(k), CountAsk(k), UNCHANGED passed,
         \/ Pending(k)' = Pending(k) \cup {w}
         \/ Pending(k)' = Pending(k) /\ k \in stuck'
  PROVE  KeyInv(k)'
<1>1. counter[k].life = Forever /\ Pending(k) = {}
  BY DEF KeyInv, KeysExpire
<1>2. /\ counter'[k].count = UpTo(0 + 1, k) /\ counter'[k].life = Forever
      /\ asked'[k] = AskedOnce(asked[k], k) /\ passed'[k] = passed[k]
  BY <1>1, Incrementing, CountingAsk
<1>3. counter'[k].count = 1
  <2>1. Limit(k) \in Nat /\ 1 \in Nat /\ 1 <= Limit(k) + 1 /\ 0 + 1 = 1
    BY LimitType
  <2> QED
    BY <1>2, <2>1, UpToLimit
<1>4. /\ passed[k] \in [Ages -> Nat] /\ asked[k] \in [Ages -> Nat]
      /\ \A a \in Ages : asked[k][a] <= Limit(k) + 1
      /\ 0 \in Ages
  BY LimiterAssumption DEF StateInv, LimiterTypeOK, AskedIsCapped, Ages
<1>5. KeysExpire(k)'
  BY <1>1, <1>2, <1>3 DEF KeysExpire
<1>6. CountedWasAsked(k)'
  <2>1. (0 .. 0) \in SUBSET Ages /\ 0 \in 0 .. 0 /\ 0 \in Nat
    BY <1>4
  <2>2. HowMany(asked[k], 0 .. 0) \in Nat
    BY <1>4, <2>1, SumType
  <2>3. 0 <= HowMany(asked[k], 0 .. 0)
    BY <2>2
  <2>4. UpTo(0 + 1, k) <= HowMany(asked'[k], 0 .. 0)
    BY <1>2, <1>4, <2>1, <2>3, AskOne
  <2>5. Elapsed(k)' = 0
    BY <1>2 DEF Elapsed
  <2> QED
    BY <1>2, <2>4, <2>5 DEF CountedWasAsked
<1>7. PassesAreCounted(k)'
  <2>1. passed[k][0] = 0 /\ Total(passed[k]) <= Limit(k)
    BY DEF KeyInv, PassesAreCounted
  <2>2. HowMany(passed[k], 0 .. 0) = 0
    <3>1. \A a \in 0 .. 0 : passed[k][a] = 0
      BY <2>1
    <3> QED
      BY <3>1, NothingRecorded
  <2>3. /\ HowMany(passed[k], 0 + 1 .. Window) \in Nat /\ Total(passed[k]) \in Nat
        /\ HowMany(passed[k], 0 + 1 .. Window) <= Total(passed[k])
    BY <1>4, PassCounts
  <2>4. HowMany(passed[k], 0 + 1 .. Window) <= Limit(k) /\ Limit(k) \in Nat
    BY <2>1, <2>3, LimitType
  <2>5. TwoGenerations(k, 0)'
    BY <1>2, <1>3, <2>2, <2>4 DEF TwoGenerations
  <2> QED
    BY <1>3, <1>4, <2>5 DEF PassesAreCounted
<1> QED
  BY <1>5, <1>6, <1>7 DEF KeyInv

\* INCR counts one more, and the request may pass if the limit allows it.
LEMMA KeyCounted ==
  ASSUME StateInv, NEW k \in Keys, KeyInv(k),
         counter[k].count # 0, IncrementKey(k), CountAsk(k),
         \/ UNCHANGED passed
         \/ CountPass(k) /\ counter[k].count < Limit(k),
         Pending(k)' = Pending(k), stuck' = stuck
  PROVE  KeyInv(k)'
<1>1. /\ counter'[k].count = UpTo(counter[k].count + 1, k)
      /\ counter'[k].life = counter[k].life
      /\ asked'[k] = AskedOnce(asked[k], k)
  BY Incrementing, CountingAsk
<1>2. /\ passed[k] \in [Ages -> Nat] /\ asked[k] \in [Ages -> Nat]
      /\ \A a \in Ages : asked[k][a] <= Limit(k) + 1
  BY DEF StateInv, LimiterTypeOK, AskedIsCapped
<1>3. PICK c \in Nat : c = counter[k].count
  BY DEF StateInv, LimiterTypeOK
<1>4. PICK d : d = counter'[k].count
  OBVIOUS
<1>5. PICK limit \in Nat : limit = Limit(k)
  BY LimitType
<1>6. c > 0 /\ d = IF c + 1 <= limit + 1 THEN c + 1 ELSE limit + 1
  <2>1. c + 1 \in Nat /\ c > 0
    BY <1>3
  <2> QED
    BY <1>1, <1>3, <1>4, <1>5, <2>1, UpToLimit
<1>7. d \in Nat /\ d > 0
  BY <1>6
<1>8. KeysExpire(k)'
  BY <1>1, <1>3, <1>4, <1>6, <1>7 DEF KeyInv, KeysExpire
<1>9. CountedWasAsked(k)'
  <2>1. ASSUME k \notin stuck
        PROVE  UpTo(c + 1, k) <= HowMany(asked'[k], 0 .. Elapsed(k))
    <3>1. c <= HowMany(asked[k], 0 .. Elapsed(k))
      BY <1>3, <2>1 DEF KeyInv, CountedWasAsked
    <3> QED
      BY <1>1, <1>2, <3>1, ElapsedType, AskOne
  <2>2. Elapsed(k)' = Elapsed(k)
    BY <1>1 DEF Elapsed
  <2> QED
    BY <1>1, <1>3, <2>1, <2>2 DEF CountedWasAsked
<1>10. PassesAreCounted(k)'
  <2>1. PICK s \in Ages : TwoGenerations(k, s)
    BY <1>3, <1>6 DEF KeyInv, PassesAreCounted
  <2>2. PICK h \in Nat, old \in Nat :
          h = HowMany(passed[k], 0 .. s) /\ old = HowMany(passed[k], s + 1 .. Window)
    BY <1>2, PassCounts
  <2>3. /\ counter[k].life # Forever => s = Elapsed(k)
        /\ h <= c /\ h <= limit /\ old <= limit
        /\ Pending(k) # {} => s = 0 /\ h < c /\ (limit > 0 => h < limit)
    BY <1>3, <1>5, <2>1, <2>2 DEF TwoGenerations
  <2>4. PICK p : p = Pending(k)
    OBVIOUS
  <2>5. PICK new \in Nat :
          /\ new = HowMany(passed'[k], 0 .. s) /\ new <= d /\ new <= limit
          /\ p # {} => new < d /\ (limit > 0 => new < limit)
          /\ old = HowMany(passed'[k], s + 1 .. Window)
    <3>1. CASE UNCHANGED passed
      <4>1. /\ h <= d /\ h <= limit
            /\ p # {} => h < d /\ (limit > 0 => h < limit)
        BY <1>6, <2>3, <2>4
      <4> QED
        BY <2>2, <3>1, <4>1
    <3>2. CASE CountPass(k) /\ c < limit
      <4>1. passed'[k] = OneMore(passed[k])
        BY <3>2, CountingPass
      <4>2. /\ h + 1 = HowMany(passed'[k], 0 .. s)
            /\ old = HowMany(passed'[k], s + 1 .. Window)
        <5>1. /\ HowMany(OneMore(passed[k]), 0 .. s) = HowMany(passed[k], 0 .. s) + 1
              /\ HowMany(OneMore(passed[k]), s + 1 .. Window)
                   = HowMany(passed[k], s + 1 .. Window)
          BY <1>2, PassCounts, Zenon
        <5> QED
          BY ONLY <2>2, <4>1, <5>1
      <4>3. /\ h + 1 \in Nat /\ h + 1 <= d /\ h + 1 <= limit
            /\ p # {} => h + 1 < d /\ (limit > 0 => h + 1 < limit)
        BY <1>6, <2>3, <2>4, <3>2
      <4> QED
        BY <4>2, <4>3
    <3> QED
      BY <1>3, <1>5, <3>1, <3>2
  <2>6. counter'[k].life # Forever => s = Elapsed(k)'
    BY <1>1, <2>3 DEF Elapsed
  <2>7. Pending(k)' = p
    BY <2>4
  <2>8. TwoGenerations(k, s)'
    BY <1>4, <1>5, <2>3, <2>4, <2>5, <2>6, <2>7 DEF TwoGenerations
  <2> QED
    BY <1>4, <1>7, <2>8 DEF PassesAreCounted
<1> QED
  BY <1>8, <1>9, <1>10 DEF KeyInv

\* EXPIRE gives the key its window, and its creator may pass.
LEMMA KeyExpires ==
  ASSUME StateInv, NEW k \in Keys, KeyInv(k), NEW w \in Workers, w \in Pending(k),
         counter' = [counter EXCEPT ![k].life = Window],
         \/ UNCHANGED passed
         \/ CountPass(k) /\ 1 <= Limit(k),
         Pending(k)' = Pending(k) \ {w}, UNCHANGED <<asked, stuck>>
  PROVE  KeyInv(k)'
<1>1. /\ counter[k].count > 0 /\ counter[k].life = Forever
      /\ Pending(k) = {w}
  BY DEF KeyInv, KeysExpire
<1>2. /\ counter'[k].count = counter[k].count /\ counter'[k].life = Window
      /\ Window \in Nat /\ Window # Forever /\ counter[k].count \in Nat
  BY LimiterAssumption DEF StateInv, LimiterTypeOK, Forever
<1>3. Pending(k)' = {}
  BY <1>1
<1>4. Elapsed(k) = 0 /\ Elapsed(k)' = 0
  BY <1>1, <1>2 DEF Elapsed
<1>5. KeysExpire(k)'
  BY <1>1, <1>2, <1>3 DEF KeysExpire
<1>6. CountedWasAsked(k)'
  BY <1>2, <1>4 DEF KeyInv, CountedWasAsked
<1>7. PassesAreCounted(k)'
  <2>1. counter[k].count # 0
    BY <1>1, <1>2
  <2>2. PICK s \in Ages : TwoGenerations(k, s)
    BY <2>1 DEF KeyInv, PassesAreCounted
  <2>3. passed[k] \in [Ages -> Nat]
    BY DEF StateInv, LimiterTypeOK
  <2>4. PICK h \in Nat, old \in Nat :
          h = HowMany(passed[k], 0 .. s) /\ old = HowMany(passed[k], s + 1 .. Window)
    BY <2>3, PassCounts
  <2>5. PICK limit \in Nat : limit = Limit(k)
    BY LimitType
  <2>6. PICK c \in Nat : c = counter[k].count
    BY <1>2
  <2>7. /\ s = 0 /\ h < c /\ old <= limit /\ h <= limit
        /\ limit > 0 => h < limit
    BY <1>1, <2>2, <2>4, <2>5, <2>6 DEF TwoGenerations
  <2>8. PICK new \in Nat :
          /\ new = HowMany(passed'[k], 0 .. s) /\ new <= c /\ new <= limit
          /\ old = HowMany(passed'[k], s + 1 .. Window)
    <3>1. CASE UNCHANGED passed
      BY <2>4, <2>7, <3>1
    <3>2. CASE CountPass(k) /\ 1 <= limit
      <4>1. passed'[k] = OneMore(passed[k])
        BY <3>2, CountingPass
      <4>2. /\ h + 1 = HowMany(passed'[k], 0 .. s)
            /\ old = HowMany(passed'[k], s + 1 .. Window)
        BY <2>3, <2>4, <4>1, PassCounts
      <4>3. h + 1 \in Nat /\ h + 1 <= c /\ h + 1 <= limit
        BY <2>7, <3>2
      <4> QED
        BY <4>2, <4>3
    <3> QED
      BY <2>5, <3>1, <3>2
  <2>9. TwoGenerations(k, s)'
    BY <1>2, <1>3, <1>4, <2>5, <2>6, <2>7, <2>8 DEF TwoGenerations
  <2> QED
    BY <1>2, <2>1, <2>9 DEF PassesAreCounted
<1> QED
  BY <1>5, <1>6, <1>7 DEF KeyInv

\* EXPIRE is lost: the key stays for good.
LEMMA KeyLost ==
  ASSUME StateInv, NEW k \in Keys, KeyInv(k), NEW w \in Workers, w \in Pending(k),
         UNCHANGED <<counter, passed, asked>>, k \in stuck',
         Pending(k)' = Pending(k) \ {w}
  PROVE  KeyInv(k)'
<1>1. Pending(k) = {w} /\ Pending(k)' = {}
  BY DEF KeyInv, KeysExpire
<1>2. KeysExpire(k)' /\ CountedWasAsked(k)'
  BY <1>1 DEF KeyInv, KeysExpire, CountedWasAsked
<1>3. PassesAreCounted(k)'
  <2>1. CASE counter[k].count = 0
    BY <2>1 DEF KeyInv, PassesAreCounted
  <2>2. CASE counter[k].count # 0
    <3>1. PICK s \in Ages : TwoGenerations(k, s)
      BY <2>2 DEF KeyInv, PassesAreCounted
    <3>2. TwoGenerations(k, s)'
      BY <1>1, <3>1 DEF TwoGenerations, Elapsed
    <3> QED
      BY <2>2, <3>2 DEF PassesAreCounted
  <2> QED
    BY <2>1, <2>2
<1> QED
  BY <1>2, <1>3 DEF KeyInv

\* A tick ages the passes with the counter that counted them; when the key is
\* gone, only its own generation is left in the window.
LEMMA KeyAges ==
  ASSUME StateInv, Tick, NEW k \in Keys, KeyInv(k)
  PROVE  KeyInv(k)'
<1>1. Pending(k) = {} /\ Pending(k)' = {} /\ stuck' = stuck
  BY DEF Tick, Pending, In
<1>2. /\ passed'[k] = Older(passed[k]) /\ asked'[k] = Older(asked[k])
      /\ passed[k] \in [Ages -> Nat] /\ asked[k] \in [Ages -> Nat]
      /\ passed'[k] \in [Ages -> Nat] /\ passed'[k][0] = 0
      /\ asked'[k] \in [Ages -> Nat]
  BY OlderType DEF Tick, StateInv, LimiterTypeOK
<1>10. HowMany(asked'[k], 0 .. 0) \in Nat
  <2>1. (0 .. 0) \in SUBSET Ages
    BY LimiterAssumption DEF Ages
  <2> QED
    BY <1>2, <2>1, SumType
<1>3. /\ counter[k] \in [count : 0 .. TopLimit + 1, life : 1 .. Forever]
      /\ Window \in Nat \ {0} /\ Forever = Window + 1
  BY LimiterAssumption DEF StateInv, LimiterTypeOK, Forever
<1>4. PICK c \in Nat, life \in Nat : c = counter[k].count /\ life = counter[k].life
  BY <1>3
<1>5. life \in 1 .. Window + 1
  BY <1>3, <1>4
<1>6. PICK limit \in Nat : limit = Limit(k)
  BY LimitType
<1>7. CASE life = Forever
  <2>1. counter'[k] = counter[k]
    BY <1>4, <1>7, TickCounter
  <2>2. KeysExpire(k)'
    BY <1>1, <2>1 DEF KeyInv, KeysExpire
  <2>3. CountedWasAsked(k)'
    <3>1. CASE c = 0
      <4>1. Elapsed(k)' = 0
        BY <1>4, <1>7, <2>1 DEF Elapsed
      <4>2. 0 <= HowMany(asked'[k], 0 .. 0)
        BY <1>10
      <4> QED
        BY <1>4, <2>1, <3>1, <4>1, <4>2 DEF CountedWasAsked
    <3>2. CASE c # 0
      <4>1. k \in stuck
        BY <1>1, <1>4, <1>7, <3>2 DEF KeyInv, KeysExpire
      <4> QED
        BY <1>1, <4>1 DEF CountedWasAsked
    <3> QED
      BY <3>1, <3>2
  <2>4. PassesAreCounted(k)'
    <3>1. CASE c = 0
      <4>1. Total(passed[k]) <= limit /\ Total(passed[k]) \in Nat
        <5>1. Total(passed[k]) <= limit
          BY <1>4, <1>6, <3>1 DEF KeyInv, PassesAreCounted
        <5> QED
          BY <1>2, <5>1, SumType, TotalIsSum
      <4>2. Total(passed'[k]) <= Total(passed[k]) /\ Total(passed'[k]) \in Nat
        <5>1. \A a \in Ages : a # 0 => a - 1 \in Ages
          BY <1>3 DEF Ages
        <5> QED
          BY <1>2, <5>1, OlderLoses, SumType, TotalIsSum
      <4>3. Total(passed'[k]) <= limit
        BY <4>1, <4>2
      <4> QED
        BY <1>2, <1>4, <1>6, <2>1, <3>1, <4>3 DEF PassesAreCounted
    <3>2. CASE c # 0
      <4>1. PICK s \in Ages : TwoGenerations(k, s)
        BY <1>4, <3>2 DEF KeyInv, PassesAreCounted
      <4>2. PICK t \in Ages : t = IF s = Window THEN s ELSE s + 1
        BY <1>3 DEF Ages
      <4>3. /\ \A a \in 0 .. t : a # 0 => a - 1 \in 0 .. s
            /\ \A a \in t + 1 .. Window : a # 0 => a - 1 \in s + 1 .. Window
            /\ (0 .. s) \in SUBSET Ages /\ (0 .. t) \in SUBSET Ages
            /\ (s + 1 .. Window) \in SUBSET Ages /\ (t + 1 .. Window) \in SUBSET Ages
        BY <1>3, <4>2 DEF Ages
      <4>4. /\ HowMany(passed'[k], 0 .. t) <= HowMany(passed[k], 0 .. s)
            /\ HowMany(passed'[k], t + 1 .. Window) <= HowMany(passed[k], s + 1 .. Window)
        BY <1>2, <4>3, OlderLoses
      <4>5. /\ HowMany(passed'[k], 0 .. t) \in Nat /\ HowMany(passed[k], 0 .. s) \in Nat
            /\ HowMany(passed'[k], t + 1 .. Window) \in Nat
            /\ HowMany(passed[k], s + 1 .. Window) \in Nat
        BY <1>2, <4>3, SumType
      <4>6. /\ HowMany(passed[k], 0 .. s) <= c /\ HowMany(passed[k], 0 .. s) <= limit
            /\ HowMany(passed[k], s + 1 .. Window) <= limit
        BY <1>4, <1>6, <4>1 DEF TwoGenerations
      <4>7. /\ HowMany(passed'[k], 0 .. t) <= c /\ HowMany(passed'[k], 0 .. t) <= limit
            /\ HowMany(passed'[k], t + 1 .. Window) <= limit
        BY <4>4, <4>5, <4>6
      <4>8. TwoGenerations(k, t)'
        BY <1>1, <1>4, <1>6, <1>7, <2>1, <4>7 DEF TwoGenerations
      <4> QED
        BY <1>4, <2>1, <3>2, <4>8 DEF PassesAreCounted
    <3> QED
      BY <3>1, <3>2
  <2> QED
    BY <2>2, <2>3, <2>4 DEF KeyInv
<1>8. CASE life # Forever /\ life = 1
  <2>1. counter'[k] = NoCounter /\ counter'[k].count = 0 /\ counter'[k].life = Forever
    <3>1. counter'[k] = NoCounter
      BY <1>4, <1>8, TickCounter
    <3> QED
      BY <3>1 DEF NoCounter
  <2>2. KeysExpire(k)'
    BY <1>1, <2>1 DEF KeysExpire
  <2>3. CountedWasAsked(k)'
    <3>1. Elapsed(k)' = 0
      BY <2>1 DEF Elapsed
    <3>2. 0 <= HowMany(asked'[k], 0 .. 0)
      BY <1>10
    <3> QED
      BY <2>1, <3>1, <3>2 DEF CountedWasAsked
  <2>4. PassesAreCounted(k)'
    <3>1. counter[k].count # 0
      BY <1>4, <1>8 DEF KeyInv, KeysExpire
    <3>2. PICK s \in Ages : TwoGenerations(k, s)
      BY <3>1 DEF KeyInv, PassesAreCounted
    <3>3. s = Window - 1
      BY <1>4, <1>8, <3>2 DEF TwoGenerations, Elapsed
    <3>4. /\ \A a \in Ages : a # 0 => a - 1 \in 0 .. s
          /\ (0 .. s) \in SUBSET Ages /\ Ages \in SUBSET Ages
      BY <1>3, <3>3 DEF Ages
    <3>5. /\ HowMany(passed'[k], Ages) <= HowMany(passed[k], 0 .. s)
          /\ HowMany(passed'[k], Ages) \in Nat /\ HowMany(passed[k], 0 .. s) \in Nat
      BY <1>2, <3>4, OlderLoses, SumType
    <3>6. HowMany(passed[k], 0 .. s) <= limit
      BY <1>6, <3>2 DEF TwoGenerations
    <3>7. HowMany(passed'[k], Ages) <= limit
      BY <3>5, <3>6
    <3>8. Total(passed'[k]) <= limit
      BY <3>7, TotalIsSum
    <3> QED
      BY <1>2, <1>6, <2>1, <3>8 DEF PassesAreCounted
  <2> QED
    BY <2>2, <2>3, <2>4 DEF KeyInv
<1>9. CASE life # Forever /\ life # 1
  <2>1. counter'[k].count = c /\ counter'[k].life = life - 1
    <3>1. counter'[k] = [counter[k] EXCEPT !.life = life - 1]
      BY <1>4, <1>9, TickCounter
    <3> QED
      BY <1>3, <1>4, <3>1
  <2>2. life \in 2 .. Window /\ life - 1 # Forever /\ c # 0
    BY <1>3, <1>4, <1>5, <1>9 DEF KeyInv, KeysExpire
  <2>3. Elapsed(k) = Window - life /\ Elapsed(k)' = Window - life + 1
    BY <1>3, <1>4, <1>9, <2>1, <2>2 DEF Elapsed
  <2>4. PICK s \in Nat : s = Window - life
    BY <1>3, <2>2
  <2>5. Elapsed(k) = s /\ Elapsed(k)' = s + 1 /\ s + 1 \in 1 .. Window
    BY <1>3, <2>2, <2>3, <2>4
  <2>6. /\ (0 .. s) \in SUBSET Ages /\ (0 .. s + 1) \in SUBSET Ages
        /\ (s + 1 .. Window) \in SUBSET Ages
        /\ (s + 1 + 1 .. Window) \in SUBSET Ages
        /\ \A a \in 0 .. s : a + 1 \in 0 .. s + 1
        /\ \A a \in 0 .. s + 1 : a # 0 => a - 1 \in 0 .. s
        /\ \A a \in s + 1 + 1 .. Window : a # 0 => a - 1 \in s + 1 .. Window
    BY <1>3, <2>5 DEF Ages
  <2>7. KeysExpire(k)'
    BY <1>1, <2>1, <2>2 DEF KeysExpire
  <2>8. CountedWasAsked(k)'
    <3>1. /\ HowMany(asked[k], 0 .. s) <= HowMany(asked'[k], 0 .. s + 1)
          /\ HowMany(asked[k], 0 .. s) \in Nat /\ HowMany(asked'[k], 0 .. s + 1) \in Nat
      BY <1>2, <2>6, OlderKeeps, OlderType, SumType
    <3>2. k \notin stuck => c <= HowMany(asked[k], 0 .. s)
      BY <1>4, <2>5 DEF KeyInv, CountedWasAsked
    <3>3. k \notin stuck => c <= HowMany(asked'[k], 0 .. s + 1)
      BY <3>1, <3>2
    <3> QED
      BY <1>1, <2>1, <2>5, <3>3 DEF CountedWasAsked
  <2>9. PassesAreCounted(k)'
    <3>1. PICK r \in Ages : TwoGenerations(k, r)
      BY <1>4, <2>2 DEF KeyInv, PassesAreCounted
    <3>2. r = s
      BY <1>4, <1>9, <2>5, <3>1 DEF TwoGenerations
    <3>3. /\ HowMany(passed'[k], 0 .. s + 1) <= HowMany(passed[k], 0 .. s)
          /\ HowMany(passed'[k], s + 1 + 1 .. Window) <=
               HowMany(passed[k], s + 1 .. Window)
      BY <1>2, <2>6, OlderLoses
    <3>4. /\ HowMany(passed'[k], 0 .. s + 1) \in Nat
          /\ HowMany(passed'[k], s + 1 + 1 .. Window) \in Nat
          /\ HowMany(passed[k], 0 .. s) \in Nat
          /\ HowMany(passed[k], s + 1 .. Window) \in Nat
      BY <1>2, <2>6, SumType
    <3>5. /\ HowMany(passed[k], 0 .. s) <= c /\ HowMany(passed[k], 0 .. s) <= limit
          /\ HowMany(passed[k], s + 1 .. Window) <= limit
      BY <1>4, <1>6, <3>1, <3>2 DEF TwoGenerations
    <3>6. /\ HowMany(passed'[k], 0 .. s + 1) <= c
          /\ HowMany(passed'[k], 0 .. s + 1) <= limit
          /\ HowMany(passed'[k], s + 1 + 1 .. Window) <= limit
      BY <3>3, <3>4, <3>5
    <3>7. TwoGenerations(k, s + 1)'
      BY <1>1, <1>6, <2>1, <2>5, <3>6 DEF TwoGenerations
    <3>8. s + 1 \in Ages
      BY <1>3, <2>5 DEF Ages
    <3> QED
      BY <2>1, <2>2, <3>7, <3>8 DEF PassesAreCounted
  <2> QED
    BY <2>7, <2>8, <2>9 DEF KeyInv
<1> QED
  BY <1>7, <1>8, <1>9

-----------------------------------------------------------------------------
(* Redis: the steps *)

\* Who is to give a key its expiry, after a step of one worker.
LEMMA PendingMoves ==
  ASSUME NEW w \in Workers, \A v \in Workers \ {w} : check'[v] = check[v],
         \/ check'[w].pc # "expire"
         \/ check'[w].path = check[w].path /\ check'[w].address = check[w].address,
         NEW k, k = KeyOf(w)
  PROVE  /\ \A j \in Keys : j # k => Pending(j)' = Pending(j)
         /\ check'[w].pc = "expire" => Pending(k)' = Pending(k) \cup {w}
         /\ check'[w].pc # "expire" => Pending(k)' = Pending(k) \ {w}
         /\ In(w, "expire") <=> w \in Pending(k)
<1>1. \A v \in Workers \ {w} : (In(v, "expire")' <=> In(v, "expire")) /\ KeyOf(v)' = KeyOf(v)
  BY DEF In, KeyOf
<1>2. In(w, "expire")' <=> check'[w].pc = "expire"
  BY DEF In
<1>3. check'[w].pc = "expire" => KeyOf(w)' = k
  BY DEF KeyOf
<1>4. ASSUME NEW j \in Keys, j # k PROVE Pending(j)' = Pending(j)
  <2>1. ~(In(w, "expire") /\ KeyOf(w) = j) /\ ~(In(w, "expire")' /\ KeyOf(w)' = j)
    BY <1>2, <1>3, <1>4
  <2> QED
    BY <1>1, <2>1 DEF Pending
<1>5. check'[w].pc = "expire" => Pending(k)' = Pending(k) \cup {w}
  BY <1>1, <1>2, <1>3 DEF Pending
<1>6. check'[w].pc # "expire" => Pending(k)' = Pending(k) \ {w}
  BY <1>1, <1>2 DEF Pending
<1>7. In(w, "expire") <=> w \in Pending(k)
  BY DEF Pending
<1> QED
  BY <1>4, <1>5, <1>6, <1>7

\* The refusals of the other workers stay earned.
LEMMA RefusalsStay ==
  ASSUME StateInv, RefusalsAreEarned, NEW w \in Workers,
         \A v \in Workers \ {w} : check'[v] = check[v],
         \A k \in Keys : Total(asked[k]) > Limit(k) => Total(asked'[k]) > Limit(k),
         stuck \subseteq stuck',
         check'[w].pc # "refuse" \/
           \E k \in Keys :
             /\ KeyOf(w)' = k /\ MeantFor(w)' = k
             /\ Total(asked'[k]) > Limit(k) \/ k \in stuck'
  PROVE  RefusalsAreEarned'
<1>1. ASSUME NEW v \in Workers, v # w, In(v, "refuse")'
      PROVE  Total(asked'[MeantFor(v)']) > Limit(MeantFor(v)') \/ KeyOf(v)' \in stuck'
  <2>1. In(v, "refuse") /\ ~In(v, "idle")
    BY <1>1 DEF In
  <2>2. KeyOf(v)' = KeyOf(v) /\ MeantFor(v)' = MeantFor(v)
    BY <1>1 DEF KeyOf, MeantFor
  <2>3. KeyOf(v) \in Keys /\ MeantFor(v) = KeyOf(v)
    BY <2>1, CheckedKey
  <2>4. Total(asked[MeantFor(v)]) > Limit(MeantFor(v)) \/ KeyOf(v) \in stuck
    BY <2>1 DEF RefusalsAreEarned
  <2> QED
    BY <2>2, <2>3, <2>4
<1>2. ASSUME In(w, "refuse")'
      PROVE  Total(asked'[MeantFor(w)']) > Limit(MeantFor(w)') \/ KeyOf(w)' \in stuck'
  BY <1>2 DEF In
<1> QED
  BY <1>1, <1>2 DEF RefusalsAreEarned

LEMMA AsksGrow ==
  ASSUME StateInv, NEW m \in Keys, CountAsk(m), NEW k \in Keys,
         Total(asked[k]) > Limit(k)
  PROVE  Total(asked'[k]) > Limit(k)
<1>1. CASE k # m
  BY <1>1, CountingAsk
<1>2. CASE k = m
  <2>1. asked'[m] = AskedOnce(asked[m], m)
    BY CountingAsk
  <2>2. /\ asked[m] \in [Ages -> Nat] /\ asked'[m] \in [Ages -> Nat]
        /\ \A a \in Ages : asked[m][a] <= Limit(m) + 1
        /\ 0 \in Ages /\ Ages \in SUBSET Ages
    <3>1. 0 \in Ages /\ Ages \in SUBSET Ages
      BY LimiterAssumption DEF Ages
    <3>2. asked'[m] \in [Ages -> Nat]
      BY CountingAsk
    <3> QED
      BY <3>1, <3>2 DEF StateInv, LimiterTypeOK, AskedIsCapped
  <2>3. /\ HowMany(asked[m], Ages) <= HowMany(asked'[m], Ages)
    BY <2>1, <2>2, AskOne
  <2>4. /\ HowMany(asked[m], Ages) \in Nat /\ HowMany(asked'[m], Ages) \in Nat
        /\ Limit(m) \in Nat
    BY <2>2, SumType, LimitType
  <2>5. HowMany(asked[m], Ages) > Limit(m)
    BY <1>2, TotalIsSum
  <2>6. HowMany(asked'[m], Ages) > Limit(m)
    BY <2>3, <2>4, <2>5
  <2> QED
    BY <1>2, <2>6, TotalIsSum
<1> QED
  BY <1>1, <1>2

\* A counter over the limit was asked for over the limit.
LEMMA OverTheLimit ==
  ASSUME NEW ages \in [Ages -> Nat], NEW some \in SUBSET Ages, NEW n \in Nat,
         NEW limit \in Nat, n > limit, n <= HowMany(ages, some)
  PROVE  Total(ages) > limit
<1>1. /\ HowMany(ages, some) <= HowMany(ages, Ages)
      /\ HowMany(ages, some) \in Nat /\ HowMany(ages, Ages) \in Nat
  BY SumGrows, SumType
<1>2. HowMany(ages, Ages) > limit
  BY <1>1
<1> QED
  BY <1>2, TotalIsSum

LEMMA RedisIncr ==
  ASSUME StateInv, RefusalsAreEarned, RedisInv, NEW w \in Workers, Incr(w)
  PROVE  RefusalsAreEarned' /\ RedisInv'
<1>1. PICK k : k = KeyOf(w)
  OBVIOUS
<1>2. In(w, "incr") /\ ~In(w, "idle") /\ ~In(w, "expire")
  BY DEF Incr, In
<1>3. k \in Keys /\ MeantFor(w) = k
  BY <1>1, <1>2, CheckedKey
<1>4. /\ IncrementKey(k) /\ CountAsk(k) /\ UNCHANGED stuck
  BY <1>1, <1>3 DEF Incr
<1>5. PICK pc \in {"expire", "pass", "refuse"} :
        /\ check' = [check EXCEPT ![w].pc = pc]
        /\ counter[k].count = 0 <=> pc = "expire"
        /\ counter[k].count = 0 => UNCHANGED passed
        /\ counter[k].count # 0 =>
             \/ pc = "pass" /\ counter[k].count < Limit(k) /\ CountPass(k)
             \/ pc = "refuse" /\ ~(counter[k].count < Limit(k)) /\ UNCHANGED passed
  <2>1. CASE counter[k].count = 0
    BY <1>1, <2>1 DEF Incr
  <2>2. CASE counter[k].count # 0
    <3>1. \/ counter[k].count < Limit(k) /\ Decide(w, TRUE, k)
          \/ ~(counter[k].count < Limit(k)) /\ Decide(w, FALSE, k)
      BY <1>1, <1>3, <2>2 DEF Incr, Decide
    <3> QED
      BY <1>3, <2>2, <3>1 DEF Decide
  <2> QED
    BY <2>1, <2>2
<1>6. /\ \A v \in Workers \ {w} : check'[v] = check[v]
      /\ check'[w].pc = pc
      /\ check'[w].path = check[w].path /\ check'[w].address = check[w].address
  BY <1>2, <1>5, CheckMoves
<1>7. /\ \A j \in Keys : j # k => Pending(j)' = Pending(j)
      /\ pc = "expire" => Pending(k)' = Pending(k) \cup {w}
      /\ pc # "expire" => Pending(k)' = Pending(k)
  <2>1. /\ \A j \in Keys : j # k => Pending(j)' = Pending(j)
        /\ check'[w].pc = "expire" => Pending(k)' = Pending(k) \cup {w}
        /\ check'[w].pc # "expire" => Pending(k)' = Pending(k) \ {w}
        /\ In(w, "expire") <=> w \in Pending(k)
    BY <1>1, <1>6, PendingMoves
  <2>2. Pending(k) \ {w} = Pending(k)
    BY <1>2, <2>1
  <2> QED
    BY <1>6, <2>1, <2>2
<1>8. KeyInv(k)'
  <2>1. KeyInv(k)
    BY <1>3 DEF RedisInv
  <2>2. CASE counter[k].count = 0
    BY <1>3, <1>4, <1>5, <1>7, <2>1, <2>2, KeyCreated
  <2>3. CASE counter[k].count # 0
    BY <1>3, <1>4, <1>5, <1>7, <2>1, <2>3, KeyCounted
  <2> QED
    BY <2>2, <2>3
<1>9. ASSUME NEW j \in Keys, j # k PROVE KeyInv(j)'
  <2>1. counter'[j] = counter[j] /\ asked'[j] = asked[j]
    BY <1>3, <1>4, <1>9, Incrementing, CountingAsk
  <2>2. passed'[j] = passed[j]
    BY <1>3, <1>5, <1>9, CountingPass
  <2>3. KeyInv(j)
    BY DEF RedisInv
  <2> QED
    BY <1>4, <1>7, <1>9, <2>1, <2>2, <2>3, KeyStays
<1>10. RefusalsAreEarned'
  <2>1. ASSUME pc = "refuse", k \notin stuck' PROVE Total(asked'[k]) > Limit(k)
    <3>1. PICK limit \in Nat, c \in Nat : limit = Limit(k) /\ c = counter[k].count
      BY <1>3, LimitType DEF StateInv, LimiterTypeOK
    <3>2. ~(c < limit)
      BY <1>5, <2>1, <3>1
    <3>3. counter'[k].count = UpTo(c + 1, k) /\ counter'[k].life = counter[k].life
      BY <1>3, <1>4, <3>1, Incrementing
    <3>4. counter'[k].count = limit + 1
      BY <1>3, <3>1, <3>2, <3>3, UpToLimit
    <3>5. Elapsed(k)' = Elapsed(k)
      BY <3>3 DEF Elapsed
    <3>6. limit + 1 <= HowMany(asked'[k], 0 .. Elapsed(k))
      BY <1>8, <2>1, <3>4, <3>5 DEF KeyInv, CountedWasAsked
    <3>7. asked'[k] \in [Ages -> Nat] /\ (0 .. Elapsed(k)) \in SUBSET Ages
      BY <1>3, <1>4, CountingAsk, ElapsedType
    <3>8. limit + 1 \in Nat /\ limit + 1 > limit
      OBVIOUS
    <3> QED
      BY <3>1, <3>6, <3>7, <3>8, OverTheLimit
  <2>2. KeyOf(w)' = k /\ MeantFor(w)' = k
    BY <1>1, <1>3, <1>6 DEF KeyOf, MeantFor
  <2>3. \A j \in Keys : Total(asked[j]) > Limit(j) => Total(asked'[j]) > Limit(j)
    BY <1>3, <1>4, AsksGrow
  <2> QED
    BY <1>3, <1>4, <1>6, <2>1, <2>2, <2>3, RefusalsStay
<1> QED
  BY <1>8, <1>9, <1>10 DEF RedisInv

LEMMA RedisExpire ==
  ASSUME StateInv, RefusalsAreEarned, RedisInv, NEW w \in Workers, Expire(w)
  PROVE  RefusalsAreEarned' /\ RedisInv'
<1>1. PICK k : k = KeyOf(w)
  OBVIOUS
<1>2. In(w, "expire") /\ ~In(w, "idle")
  BY DEF Expire, In
<1>3. k \in Keys /\ MeantFor(w) = k
  BY <1>1, <1>2, CheckedKey
<1>4. /\ counter' = [counter EXCEPT ![k].life = Window]
      /\ UNCHANGED <<asked, stuck>>
  BY <1>1 DEF Expire
<1>5. PICK pc \in {"pass", "refuse"} :
        /\ check' = [check EXCEPT ![w].pc = pc]
        /\ \/ pc = "pass" /\ 1 <= Limit(k) /\ CountPass(k)
           \/ pc = "refuse" /\ ~(1 <= Limit(k)) /\ UNCHANGED passed
  <2>1. \/ 1 <= Limit(k) /\ Decide(w, TRUE, k)
        \/ ~(1 <= Limit(k)) /\ Decide(w, FALSE, k)
    BY <1>1, <1>3 DEF Expire, Decide
  <2> QED
    BY <1>3, <2>1 DEF Decide
<1>6. /\ \A v \in Workers \ {w} : check'[v] = check[v]
      /\ check'[w].pc = pc /\ pc # "expire"
      /\ check'[w].path = check[w].path /\ check'[w].address = check[w].address
  BY <1>2, <1>5, CheckMoves
<1>7. /\ \A j \in Keys : j # k => Pending(j)' = Pending(j)
      /\ Pending(k)' = Pending(k) \ {w}
      /\ w \in Pending(k)
  BY <1>1, <1>2, <1>6, PendingMoves
<1>8. KeyInv(k) /\ KeyInv(k)'
  <2>1. KeyInv(k)
    BY <1>3 DEF RedisInv
  <2> QED
    BY <1>3, <1>4, <1>5, <1>7, <2>1, KeyExpires
<1>9. ASSUME NEW j \in Keys, j # k PROVE KeyInv(j)'
  <2>1. counter'[j] = counter[j] /\ asked'[j] = asked[j] /\ stuck' = stuck
    BY <1>3, <1>4, <1>9 DEF StateInv, LimiterTypeOK
  <2>2. passed'[j] = passed[j]
    BY <1>3, <1>5, <1>9, CountingPass
  <2>3. KeyInv(j)
    BY DEF RedisInv
  <2> QED
    BY <1>7, <1>9, <2>1, <2>2, <2>3, KeyStays
<1>10. RefusalsAreEarned'
  <2>1. ASSUME pc = "refuse", k \notin stuck PROVE Total(asked[k]) > Limit(k)
    <3>1. PICK limit \in Nat, c \in Nat : limit = Limit(k) /\ c = counter[k].count
      BY <1>3, LimitType DEF StateInv, LimiterTypeOK
    <3>2. limit = 0
      BY <1>5, <2>1, <3>1
    <3>3. c > 0
      BY <1>7, <1>8, <3>1 DEF KeyInv, KeysExpire
    <3>4. c <= HowMany(asked[k], 0 .. Elapsed(k))
      BY <1>8, <2>1, <3>1 DEF KeyInv, CountedWasAsked
    <3>5. asked[k] \in [Ages -> Nat] /\ (0 .. Elapsed(k)) \in SUBSET Ages
      BY <1>3, ElapsedType DEF StateInv, LimiterTypeOK
    <3> QED
      BY <3>1, <3>2, <3>3, <3>4, <3>5, OverTheLimit
  <2>2. KeyOf(w)' = k /\ MeantFor(w)' = k
    BY <1>1, <1>3, <1>6 DEF KeyOf, MeantFor
  <2> QED
    BY <1>3, <1>4, <1>6, <2>1, <2>2, RefusalsStay
<1> QED
  BY <1>8, <1>9, <1>10 DEF RedisInv

\* A command cut off, by a failure or a restart.
LEMMA RedisCutOff ==
  ASSUME StateInv, RefusalsAreEarned, RedisInv, NEW w \in Workers,
         In(w, "incr") \/ In(w, "expire"), CutOff(w), UNCHANGED passed,
         \A v \in Workers \ {w} : check'[v] = check[v],
         check'[w].pc \in {"pass", "idle"}
  PROVE  RefusalsAreEarned' /\ RedisInv'
<1>1. PICK k : k = KeyOf(w)
  OBVIOUS
<1>2. ~In(w, "idle") /\ (In(w, "incr") <=> ~In(w, "expire"))
  BY DEF In
<1>3. k \in Keys /\ MeantFor(w) = k
  BY <1>1, <1>2, CheckedKey
<1>4. check'[w].pc # "expire" /\ check'[w].pc # "refuse"
  OBVIOUS
<1>5. /\ \A j \in Keys : j # k => Pending(j)' = Pending(j)
      /\ Pending(k)' = Pending(k) \ {w}
      /\ In(w, "expire") <=> w \in Pending(k)
  BY <1>1, <1>4, PendingMoves
<1>6. In(w, "incr") => Pending(k)' = Pending(k)
  BY <1>2, <1>5
<1>7. KeyInv(k)
  BY <1>3 DEF RedisInv
<1>8. \/ /\ UNCHANGED <<counter, asked>>
         /\ stuck' = IF In(w, "expire") THEN stuck \cup {k} ELSE stuck
      \/ /\ In(w, "incr")
         /\ IncrementKey(k) /\ CountAsk(k)
         /\ stuck' = IF counter[k].count = 0 THEN stuck \cup {k} ELSE stuck
      \/ /\ In(w, "expire")
         /\ counter' = [counter EXCEPT ![k].life = Window]
         /\ UNCHANGED <<asked, stuck>>
  BY <1>1, <1>3 DEF CutOff
<1>9. KeyInv(k)'
  <2>1. CASE UNCHANGED <<counter, asked>> /\ In(w, "expire")
             /\ stuck' = stuck \cup {k}
    BY <1>3, <1>5, <1>7, <2>1, KeyLost
  <2>2. CASE UNCHANGED <<counter, asked>> /\ In(w, "incr") /\ stuck' = stuck
    BY <1>3, <1>6, <1>7, <2>2, KeyStays
  <2>3. CASE /\ In(w, "incr") /\ counter[k].count = 0
             /\ IncrementKey(k) /\ CountAsk(k) /\ stuck' = stuck \cup {k}
    <3>1. k \in stuck' /\ Pending(k)' = Pending(k)
      BY <1>6, <2>3
    <3> QED
      BY <1>3, <1>7, <2>3, <3>1, KeyCreated
  <2>4. CASE /\ In(w, "incr") /\ counter[k].count # 0
             /\ IncrementKey(k) /\ CountAsk(k) /\ stuck' = stuck
    BY <1>3, <1>6, <1>7, <2>4, KeyCounted
  <2>5. CASE /\ In(w, "expire") /\ counter' = [counter EXCEPT ![k].life = Window]
             /\ UNCHANGED <<asked, stuck>>
    BY <1>3, <1>5, <1>7, <2>5, KeyExpires
  <2> QED
    BY <1>2, <1>8, <2>1, <2>2, <2>3, <2>4, <2>5
<1>10. ASSUME NEW j \in Keys, j # k PROVE KeyInv(j)'
  <2>1. counter'[j] = counter[j] /\ asked'[j] = asked[j]
    <3>1. CASE UNCHANGED <<counter, asked>>
      BY <3>1
    <3>2. CASE IncrementKey(k) /\ CountAsk(k)
      BY <1>3, <1>10, <3>2, Incrementing, CountingAsk
    <3>3. CASE counter' = [counter EXCEPT ![k].life = Window] /\ UNCHANGED asked
      BY <1>3, <1>10, <3>3 DEF StateInv, LimiterTypeOK
    <3> QED
      BY <1>8, <3>1, <3>2, <3>3
  <2>2. j \in stuck => j \in stuck'
    BY <1>8
  <2>3. KeyInv(j) /\ passed'[j] = passed[j]
    BY DEF RedisInv
  <2> QED
    BY <1>5, <1>10, <2>1, <2>2, <2>3, KeyStays
<1>11. RefusalsAreEarned'
  <2>1. stuck \subseteq stuck'
    BY <1>8
  <2>2. \A j \in Keys : Total(asked[j]) > Limit(j) => Total(asked'[j]) > Limit(j)
    <3>1. CASE UNCHANGED asked
      BY <3>1
    <3>2. CASE CountAsk(k)
      BY <1>3, <3>2, AsksGrow
    <3> QED
      BY <1>8, <3>1, <3>2
  <2> QED
    BY <1>4, <2>1, <2>2, RefusalsStay
<1> QED
  BY <1>9, <1>10, <1>11 DEF RedisInv

\* A step that is about no key of Redis: a request arrives or is answered, or a
\* worker is replaced between two checks.
LEMMA RedisQuiet ==
  ASSUME StateInv, RefusalsAreEarned, RedisInv, NEW w \in Workers,
         ~In(w, "expire"), UNCHANGED <<counter, passed, asked>>,
         stuck \subseteq stuck',
         \A v \in Workers \ {w} : check'[v] = check[v],
         check'[w].pc # "expire", check'[w].pc # "refuse"
  PROVE  RefusalsAreEarned' /\ RedisInv'
<1>1. PICK k : k = KeyOf(w)
  OBVIOUS
<1>2. /\ \A j \in Keys : j # k => Pending(j)' = Pending(j)
      /\ Pending(k)' = Pending(k) \ {w} /\ w \notin Pending(k)
  BY <1>1, PendingMoves
<1>3. \A j \in Keys : Pending(j)' = Pending(j)
  BY <1>2
<1>4. ASSUME NEW j \in Keys PROVE KeyInv(j)'
  <2>1. KeyInv(j) /\ (j \in stuck => j \in stuck')
    BY DEF RedisInv
  <2> QED
    BY <1>3, <2>1, KeyStays
<1>5. RefusalsAreEarned'
  BY RefusalsStay
<1> QED
  BY <1>4, <1>5 DEF RedisInv

LEMMA RedisTick ==
  ASSUME StateInv, RedisInv, Tick
  PROVE  RefusalsAreEarned' /\ RedisInv'
<1>1. RedisInv'
  BY KeyAges DEF RedisInv
<1>2. \A w \in Workers : ~In(w, "refuse")'
  BY DEF Tick, In
<1> QED
  BY <1>1, <1>2 DEF RefusalsAreEarned

LEMMA RedisWorker ==
  ASSUME StateInv, RefusalsAreEarned, RedisInv, backend = "redis",
         NEW w \in Workers, WorkerNext(w)
  PROVE  RefusalsAreEarned' /\ RedisInv'
<1>1. ASSUME NEW path \in Paths, NEW address \in Addresses, Arrive(w, path, address)
      PROVE  RefusalsAreEarned' /\ RedisInv'
  <2>1. /\ UNCHANGED <<counter, passed, asked>> /\ stuck \subseteq stuck'
        /\ ~In(w, "expire")
    BY <1>1 DEF Arrive, In
  <2>2. /\ \A v \in Workers \ {w} : check'[v] = check[v]
        /\ check'[w].pc = "incr"
    BY <1>1 DEF Arrive, StateInv, LimiterTypeOK
  <2> QED
    BY <2>1, <2>2, RedisQuiet
<1>2. ASSUME NEW path \in Paths, NEW address \in Addresses,
             CheckMemory(w, path, address)
      PROVE  FALSE
  BY <1>2 DEF CheckMemory
<1>3. CASE Incr(w)
  BY <1>3, RedisIncr
<1>4. CASE Expire(w)
  BY <1>4, RedisExpire
<1>5. CASE FailOpen(w)
  <2>1. /\ In(w, "incr") \/ In(w, "expire")
        /\ CutOff(w) /\ UNCHANGED passed
        /\ check' = [check EXCEPT ![w].pc = "pass"]
    BY <1>5 DEF FailOpen
  <2>2. ~In(w, "idle")
    BY <2>1 DEF In
  <2>3. /\ \A v \in Workers \ {w} : check'[v] = check[v]
        /\ check'[w].pc = "pass"
    BY <2>1, <2>2, CheckMoves
  <2> QED
    BY <2>1, <2>3, RedisCutOff
<1>6. CASE Answer(w)
  <2>1. /\ UNCHANGED <<counter, passed, asked>> /\ stuck \subseteq stuck'
        /\ ~In(w, "expire")
    BY <1>6 DEF Answer, In
  <2>2. /\ \A v \in Workers \ {w} : check'[v] = check[v]
        /\ check'[w].pc = "idle"
    BY <1>6 DEF Answer, NoCheck, StateInv, LimiterTypeOK
  <2> QED
    BY <2>1, <2>2, RedisQuiet
<1>7. CASE RestartWorker(w)
  <2>1. /\ \A v \in Workers \ {w} : check'[v] = check[v]
        /\ check'[w].pc = "idle" /\ UNCHANGED passed
    BY <1>7 DEF RestartWorker, NoCheck, StateInv, LimiterTypeOK
  <2>2. CASE In(w, "incr") \/ In(w, "expire")
    BY <1>7, <2>1, <2>2, RedisCutOff DEF RestartWorker
  <2>3. CASE ~(In(w, "incr") \/ In(w, "expire"))
    <3>1. UNCHANGED <<counter, asked>> /\ stuck \subseteq stuck'
      BY <1>7, <2>3 DEF RestartWorker
    <3> QED
      BY <2>1, <2>3, <3>1, RedisQuiet
  <2> QED
    BY <2>2, <2>3
<1> QED
  BY <1>1, <1>2, <1>3, <1>4, <1>5, <1>6, <1>7 DEF WorkerNext

\* Two generations of passes, each good for one limit.
LEMMA RedisBound ==
  ASSUME StateInv, NEW k \in Keys, KeyInv(k)
  PROVE  Total(passed[k]) <= 2 * Limit(k)
<1>1. PICK limit \in Nat : limit = Limit(k)
  BY LimitType
<1>2. passed[k] \in [Ages -> Nat]
  BY DEF StateInv, LimiterTypeOK
<1>3. Total(passed[k]) \in Nat
  BY <1>2, SumType, TotalIsSum
<1>4. CASE counter[k].count = 0
  <2>1. Total(passed[k]) <= limit
    BY <1>1, <1>4 DEF KeyInv, PassesAreCounted
  <2>2. Total(passed[k]) <= 2 * limit
    BY <1>3, <2>1
  <2> QED
    BY <1>1, <2>2
<1>5. CASE counter[k].count # 0
  <2>1. PICK s \in Ages : TwoGenerations(k, s)
    BY <1>5 DEF KeyInv, PassesAreCounted
  <2>2. PICK h \in Nat, old \in Nat :
          h = HowMany(passed[k], 0 .. s) /\ old = HowMany(passed[k], s + 1 .. Window)
    BY <1>2, PassCounts
  <2>3. h <= limit /\ old <= limit
    BY <1>1, <2>1, <2>2 DEF TwoGenerations
  <2>4. Total(passed[k]) <= h + old
    BY <1>2, <2>2, PassCounts
  <2>5. Total(passed[k]) <= 2 * limit
    BY <1>3, <2>3, <2>4
  <2> QED
    BY <1>1, <2>5
<1> QED
  BY <1>4, <1>5

LEMMA RedisInit ==
  ASSUME StateInv, LimiterInit
  PROVE  RefusalsAreEarned /\ RedisInv
<1>1. \A w \in Workers : ~In(w, "expire") /\ ~In(w, "refuse")
  BY DEF LimiterInit, NoCheck, In
<1>2. ASSUME NEW k \in Keys PROVE KeyInv(k)
  <2>1. /\ Pending(k) = {}
        /\ counter[k] = NoCounter /\ passed[k] = NoHits /\ asked[k] = NoHits
    BY <1>1 DEF LimiterInit, Pending
  <2>2. counter[k].count = 0 /\ counter[k].life = Forever
    BY <2>1 DEF NoCounter
  <2>3. \A a \in Ages : NoHits[a] = 0
    BY DEF NoHits
  <2>4. passed[k][0] = 0 /\ Total(passed[k]) = 0
    <3>1. 0 \in Ages
      BY LimiterAssumption DEF Ages
    <3> QED
      BY <2>1, <2>3, <3>1, NothingRecorded, TotalIsSum
  <2>5. 0 <= Limit(k)
    <3>1. Limit(k) \in Nat
      BY LimitType
    <3> QED
      BY <3>1
  <2>6. 0 <= HowMany(asked[k], 0 .. Elapsed(k))
    <3>1. HowMany(asked[k], 0 .. Elapsed(k)) \in Nat
      BY ElapsedType, SumType DEF StateInv, LimiterTypeOK
    <3> QED
      BY <3>1
  <2> QED
    BY <2>1, <2>2, <2>4, <2>5, <2>6
    DEF KeyInv, KeysExpire, CountedWasAsked, PassesAreCounted
<1> QED
  BY <1>1, <1>2 DEF RedisInv, RefusalsAreEarned

-----------------------------------------------------------------------------
(* Memory: the hits of one worker *)

LEMMA SeqParts ==
  ASSUME NEW S, NEW s \in Seq(S)
  PROVE  /\ Len(s) \in Nat /\ DOMAIN s = 1 .. Len(s)
         /\ \A i \in 1 .. Len(s) : s[i] \in S
OBVIOUS

LEMMA AppendParts ==
  ASSUME NEW S, NEW s \in Seq(S), NEW x \in S
  PROVE  /\ Append(s, x) \in Seq(S) /\ Len(Append(s, x)) = Len(s) + 1
         /\ \A i \in 1 .. Len(s) : Append(s, x)[i] = s[i]
         /\ Append(s, x)[Len(s) + 1] = x
OBVIOUS

LEMMA HitsParts ==
  ASSUME NEW ages \in Seq(0 .. Forever)
  PROVE  /\ Len(ages) \in Nat /\ DOMAIN ages = 1 .. Len(ages)
         /\ \A i \in 1 .. Len(ages) : ages[i] \in Nat
<1>1. /\ Len(ages) \in Nat /\ DOMAIN ages = 1 .. Len(ages)
      /\ \A i \in 1 .. Len(ages) : ages[i] \in 0 .. Forever
  BY SeqParts
<1>2. \A x \in 0 .. Forever : x \in Nat
  BY LimiterAssumption DEF Forever
<1> QED
  BY <1>1, <1>2

LEMMA WindowParts ==
  ASSUME NEW ages \in Seq(0 .. Forever)
  PROVE  \E n \in Nat, m \in Nat, first \in Nat :
           /\ n = Len(ages) /\ m = Len(InWindow(ages))
           /\ DOMAIN ages = 1 .. n /\ DOMAIN InWindow(ages) = 1 .. m
           /\ first \in 1 .. n + 1 /\ m = n + 1 - first
           /\ \A i \in 1 .. m : /\ i + first - 1 \in 1 .. n
                               /\ InWindow(ages)[i] = ages[i + first - 1]
           /\ \A i \in 1 .. first - 1 : ages[i] > Window
           /\ first <= n => ages[first] <= Window
<1>1. PICK first \in 1 .. Len(ages) + 1 :
        /\ Len(InWindow(ages)) = Len(ages) + 1 - first
        /\ \A i \in 1 .. Len(ages) + 1 - first :
             InWindow(ages)[i] = ages[i + first - 1]
        /\ \A i \in 1 .. first - 1 : ages[i] > Window
        /\ first <= Len(ages) => ages[first] <= Window
  BY WindowOf
<1>2. PICK n \in Nat : n = Len(ages) /\ DOMAIN ages = 1 .. n
  BY HitsParts
<1>3. PICK m \in Nat : m = Len(InWindow(ages)) /\ DOMAIN InWindow(ages) = 1 .. m
  BY WindowOf, HitsParts
<1>4. first \in 1 .. n + 1 /\ first \in Nat /\ m = n + 1 - first
  BY <1>1, <1>2, <1>3
<1>5. \A i \in 1 .. m : i + first - 1 \in 1 .. n
  BY <1>4
<1>6. \A i \in 1 .. m : InWindow(ages)[i] = ages[i + first - 1]
  BY <1>1, <1>2, <1>4
<1> QED
  BY <1>1, <1>2, <1>3, <1>4, <1>5, <1>6

\* What is left of ordered hits is ordered, and all of it is in time.
LEMMA WindowIsFresh ==
  ASSUME NEW ages \in Seq(0 .. Forever), Ordered(ages)
  PROVE  /\ Ordered(InWindow(ages)) /\ Len(InWindow(ages)) <= Len(ages)
         /\ Fresh(InWindow(ages)) = 1 .. Len(InWindow(ages))
<1>1. PICK window : window = InWindow(ages)
  OBVIOUS
<1>2. PICK n \in Nat, m \in Nat, first \in Nat :
        /\ n = Len(ages) /\ m = Len(window)
        /\ DOMAIN ages = 1 .. n /\ DOMAIN window = 1 .. m
        /\ first \in 1 .. n + 1 /\ m = n + 1 - first
        /\ \A i \in 1 .. m : /\ i + first - 1 \in 1 .. n
                            /\ window[i] = ages[i + first - 1]
        /\ first <= n => ages[first] <= Window
  BY <1>1, WindowParts
<1>5. Window \in Nat /\ \A i \in 1 .. n : ages[i] \in Nat
  BY <1>2, HitsParts, LimiterAssumption
<1>6. \A i \in 1 .. m : i + first - 1 \in first .. n
  BY <1>2
<1>7. \A i \in first .. n : ages[i] <= Window
  <2>1. ASSUME NEW i \in first .. n PROVE ages[i] <= Window
    <3>1. first \in 1 .. n /\ i \in 1 .. n /\ first <= i /\ first <= n
      BY <1>2
    <3>2. ages[i] <= ages[first] /\ ages[first] <= Window
      BY <1>2, <3>1 DEF Ordered
    <3> QED
      BY <1>5, <3>1, <3>2
  <2> QED
    BY <2>1
<1>8. Ordered(window)
  <2>1. ASSUME NEW i \in 1 .. m, NEW j \in 1 .. m, i <= j
        PROVE  window[j] <= window[i]
    <3>1. /\ i + first - 1 \in 1 .. n /\ j + first - 1 \in 1 .. n
          /\ i + first - 1 <= j + first - 1
      BY <1>2, <2>1
    <3>2. ages[j + first - 1] <= ages[i + first - 1]
      BY <1>2, <3>1 DEF Ordered
    <3> QED
      BY <1>2, <3>2
  <2> QED
    BY <1>2, <2>1 DEF Ordered
<1>9. Fresh(window) = 1 .. m
  BY <1>2, <1>6, <1>7 DEF Fresh
<1>10. m <= n
  BY <1>2
<1> QED
  BY <1>1, <1>2, <1>8, <1>9, <1>10

\* A hit of age 0 goes to the end.
LEMMA AppendNow ==
  ASSUME NEW ages \in Seq(0 .. Forever), Ordered(ages)
  PROVE  /\ Append(ages, 0) \in Seq(0 .. Forever) /\ Ordered(Append(ages, 0))
         /\ Len(Append(ages, 0)) = Len(ages) + 1
         /\ \A i \in 1 .. Len(ages) : Append(ages, 0)[i] = ages[i]
         /\ Append(ages, 0)[Len(ages) + 1] = 0
         /\ Fresh(Append(ages, 0)) = Fresh(ages) \cup {Len(ages) + 1}
         /\ Len(ages) + 1 \notin Fresh(ages)
<1>1. PICK n \in Nat : n = Len(ages)
  BY HitsParts
<1>2. 0 \in 0 .. Forever /\ Window \in Nat
  BY LimiterAssumption DEF Forever
<1>3. PICK new : new = Append(ages, 0)
  OBVIOUS
<1>4. /\ new \in Seq(0 .. Forever)
      /\ Len(new) = n + 1 /\ DOMAIN new = 1 .. n + 1 /\ DOMAIN ages = 1 .. n
      /\ \A i \in 1 .. n : new[i] = ages[i]
      /\ new[n + 1] = 0
  <2>1. /\ new \in Seq(0 .. Forever) /\ Len(new) = n + 1
        /\ \A i \in 1 .. n : new[i] = ages[i]
        /\ new[n + 1] = 0
    BY <1>1, <1>2, <1>3, AppendParts
  <2>2. DOMAIN new = 1 .. n + 1 /\ DOMAIN ages = 1 .. n
    BY <1>1, <2>1, HitsParts
  <2> QED
    BY <2>1, <2>2
<1>5. \A i \in 1 .. n + 1 : new[i] \in Nat
  BY <1>4, HitsParts
<1>6. Ordered(new)
  <2>1. ASSUME NEW i \in 1 .. n + 1, NEW j \in 1 .. n + 1, i <= j
        PROVE  new[j] <= new[i]
    <3>1. CASE j = n + 1
      BY <1>4, <1>5, <3>1
    <3>2. CASE j \in 1 .. n
      <4>1. i \in 1 .. n
        BY <2>1, <3>2
      <4> QED
        BY <1>4, <2>1, <3>2, <4>1 DEF Ordered
    <3> QED
      BY <3>1, <3>2
  <2> QED
    BY <1>4, <2>1 DEF Ordered
<1>7. Fresh(new) = Fresh(ages) \cup {n + 1} /\ n + 1 \notin Fresh(ages)
  BY <1>2, <1>4 DEF Fresh
<1> QED
  BY <1>1, <1>3, <1>4, <1>6, <1>7

\* Hits that leave the window take nothing from those that stay.
LEMMA WindowWasAsked ==
  ASSUME NEW ages \in Seq(0 .. Forever), Ordered(ages), NEW requests,
         WereAsked(ages, requests)
  PROVE  WereAsked(InWindow(ages), requests)
<1>1. PICK window : window = InWindow(ages)
  OBVIOUS
<1>2. PICK n \in Nat, m \in Nat, first \in Nat :
        /\ DOMAIN ages = 1 .. n /\ DOMAIN window = 1 .. m
        /\ first \in 1 .. n + 1 /\ m = n + 1 - first
        /\ \A i \in 1 .. m : /\ i + first - 1 \in 1 .. n
                            /\ window[i] = ages[i + first - 1]
  BY <1>1, WindowParts
<1>5. PICK g \in Injection(Fresh(ages), Recorded(requests, Ages)) :
        \A i \in Fresh(ages) : g[i][1] = ages[i]
  BY DEF WereAsked
<1>7. \A i \in Fresh(window) : i \in 1 .. m /\ i + first - 1 \in Fresh(ages)
  BY <1>2 DEF Fresh
<1> DEFINE new == [i \in Fresh(window) |-> g[i + first - 1]]
<1>8. /\ g \in [Fresh(ages) -> Recorded(requests, Ages)]
      /\ \A i, j \in Fresh(ages) : g[i] = g[j] => i = j
  BY <1>5 DEF Injection, IsInjective
<1>9. new \in [Fresh(window) -> Recorded(requests, Ages)]
  BY <1>7, <1>8
<1>10. ASSUME NEW i \in Fresh(window), NEW j \in Fresh(window), new[i] = new[j]
       PROVE  i = j
  <2>1. i + first - 1 = j + first - 1
    BY <1>7, <1>8, <1>10
  <2>2. i \in 1 .. m /\ j \in 1 .. m
    BY <1>7
  <2> QED
    BY <1>2, <2>1, <2>2
<1>11. \A i \in Fresh(window) : new[i][1] = window[i]
  BY <1>2, <1>5, <1>7
<1> HIDE DEF new
<1>12. new \in Injection(Fresh(window), Recorded(requests, Ages))
  BY <1>9, <1>10 DEF Injection, IsInjective
<1> QED
  BY <1>1, <1>11, <1>12 DEF WereAsked

\* More requests leave each hit its own.
LEMMA MoreWereAsked ==
  ASSUME NEW ages, NEW requests, WereAsked(ages, requests), NEW more,
         Recorded(requests, Ages) \subseteq Recorded(more, Ages)
  PROVE  WereAsked(ages, more)
<1>1. PICK g \in Injection(Fresh(ages), Recorded(requests, Ages)) :
        \A i \in Fresh(ages) : g[i][1] = ages[i]
  BY DEF WereAsked
<1>2. g \in Injection(Fresh(ages), Recorded(more, Ages))
  BY <1>1 DEF Injection, IsInjective
<1> QED
  BY <1>1, <1>2 DEF WereAsked

\* No hits, no requests needed.
LEMMA NoHitsWereAsked ==
  ASSUME NEW requests
  PROVE  WereAsked(<< >>, requests)
<1>1. Fresh(<< >>) = {}
  BY DEF Fresh
<1>2. [i \in {} |-> << >>] \in Injection({}, Recorded(requests, Ages))
  BY DEF Injection, IsInjective
<1> QED
  BY <1>1, <1>2 DEF WereAsked

\* The request that is admitted has a number that no hit has, even when the
\* count has stopped at its cap.
LEMMA AdmittedWasAsked ==
  ASSUME NEW k \in Keys, NEW ages \in Seq(0 .. Forever), Ordered(ages),
         Len(ages) < Limit(k),
         NEW requests \in [Ages -> Nat],
         \A a \in Ages : requests[a] <= Limit(k) + 1,
         WereAsked(ages, requests)
  PROVE  WereAsked(Append(ages, 0), AskedOnce(requests, k))
<1>1. PICK g \in Injection(Fresh(ages), Recorded(requests, Ages)) :
        \A i \in Fresh(ages) : g[i][1] = ages[i]
  BY DEF WereAsked
<1>2. PICK n \in Nat, limit \in Nat : n = Len(ages) /\ limit = Limit(k)
  BY HitsParts, LimitType
<1>3. PICK more : more = AskedOnce(requests, k)
  OBVIOUS
<1>4. PICK r \in Nat : r = requests[0] /\ r <= limit + 1
  BY <1>2, LimiterAssumption DEF Ages
<1>5. 0 \in Ages /\ Ages \in SUBSET Ages
  BY LimiterAssumption DEF Ages
<1>6. more \in [Ages -> Nat] /\ Recorded(requests, Ages) \subseteq Recorded(more, Ages)
  BY <1>3, <1>5, AskOne
<1>7. more[0] = UpTo(r + 1, k)
  BY <1>3, <1>4, <1>5 DEF AskedOnce
<1>8. PICK x \in Nat :
        <<0, x>> \in Recorded(more, Ages) /\ \A i \in Fresh(ages) : g[i] # <<0, x>>
  <2>1. CASE r <= limit
    <3>1. r + 1 \in Nat /\ more[0] = r + 1
      BY <1>2, <1>7, <2>1, UpToLimit
    <3>2. <<0, r + 1>> \in Recorded(more, Ages)
      <4>1. r + 1 \in 1 .. more[0]
        BY <3>1
      <4> QED
        BY <1>5, <4>1, RecordedCells
    <3>3. <<0, r + 1>> \notin Recorded(requests, Ages)
      BY <1>4, <1>5, RecordOne
    <3>4. \A i \in Fresh(ages) : g[i] \in Recorded(requests, Ages)
      BY <1>1 DEF Injection
    <3> QED
      BY <3>1, <3>2, <3>3, <3>4
  <2>2. CASE r = limit + 1
    <3>1. more[0] = limit + 1
      <4>1. r + 1 \in Nat /\ ~(r + 1 <= limit + 1)
        BY <2>2
      <4> QED
        BY <1>2, <1>7, <4>1, UpToLimit
    <3>2. \A x \in 1 .. limit + 1 : <<0, x>> \in Recorded(more, Ages) /\ x \in Nat
      BY <1>5, <3>1, RecordedCells
    <3>3. ASSUME \A x \in 1 .. limit + 1 : \E i \in Fresh(ages) : g[i] = <<0, x>>
          PROVE  FALSE
      <4> DEFINE f == [x \in 1 .. limit + 1 |->
                        CHOOSE i \in Fresh(ages) : g[i] = <<0, x>>]
      <4>1. \A x \in 1 .. limit + 1 : f[x] \in Fresh(ages) /\ g[f[x]] = <<0, x>>
        BY <3>3
      <4>2. Fresh(ages) \subseteq 1 .. n
        BY <1>2, HitsParts DEF Fresh
      <4>3. f \in [1 .. limit + 1 -> 1 .. n]
        BY <4>1, <4>2
      <4> HIDE DEF f
      <4>4. f \in Injection(1 .. limit + 1, 1 .. n)
        BY <4>1, <4>3 DEF Injection, IsInjective
      <4>5. \A m \in Nat : IsFiniteSet(1 .. m) /\ Cardinality(1 .. m) = m
        BY ONLY FirstNumbers
      <4>6. limit + 1 <= n
        <5>1. Cardinality(1 .. limit + 1) <= Cardinality(1 .. n)
          BY <4>4, <4>5, FS_Injection
        <5>2. limit + 1 \in Nat
          OBVIOUS
        <5> QED
          BY <4>5, <5>1, <5>2
      <4> QED
        BY <1>2, <4>6
    <3> QED
      BY <3>2, <3>3
  <2>3. r <= limit \/ r = limit + 1
    BY <1>4
  <2> QED
    BY <2>1, <2>2, <2>3
<1>9. PICK new : new = Append(ages, 0)
  OBVIOUS
<1>10. /\ Fresh(new) = Fresh(ages) \cup {n + 1} /\ n + 1 \notin Fresh(ages)
       /\ new[n + 1] = 0
       /\ \A i \in 1 .. n : new[i] = ages[i]
  BY <1>2, <1>9, AppendNow
<1>11. \A i \in Fresh(ages) : new[i] = ages[i]
  BY <1>2, <1>10, HitsParts DEF Fresh
<1> DEFINE h == [i \in Fresh(new) |-> IF i = n + 1 THEN <<0, x>> ELSE g[i]]
<1>12. /\ g \in [Fresh(ages) -> Recorded(requests, Ages)]
       /\ \A i, j \in Fresh(ages) : g[i] = g[j] => i = j
  BY <1>1 DEF Injection, IsInjective
<1>13. h \in [Fresh(new) -> Recorded(more, Ages)]
  BY <1>6, <1>8, <1>10, <1>12
<1>14. \A i, j \in Fresh(new) : h[i] = h[j] => i = j
  BY <1>8, <1>10, <1>12
<1>15. \A i \in Fresh(new) : h[i][1] = new[i]
  BY <1>1, <1>8, <1>10, <1>11
<1> HIDE DEF h
<1>16. h \in Injection(Fresh(new), Recorded(more, Ages))
  BY <1>13, <1>14 DEF Injection, IsInjective
<1> QED
  BY <1>3, <1>9, <1>15, <1>16 DEF WereAsked

\* A full window was asked for in full: one more request exceeds the limit.
LEMMA FullWindowWasAsked ==
  ASSUME NEW k \in Keys, NEW ages, NEW n \in Nat, Fresh(ages) = 1 .. n,
         Limit(k) <= n,
         NEW requests \in [Ages -> Nat],
         \A a \in Ages : requests[a] <= Limit(k) + 1,
         WereAsked(ages, requests)
  PROVE  Total(AskedOnce(requests, k)) > Limit(k)
<1>1. PICK g \in Injection(1 .. n, Recorded(requests, Ages)) : TRUE
  BY DEF WereAsked
<1>2. /\ IsFiniteSet(Recorded(requests, Ages)) /\ HowMany(requests, Ages) \in Nat
      /\ 0 \in Ages /\ Ages \in SUBSET Ages
  BY SumType, LimiterAssumption DEF Ages
<1>3. n <= HowMany(requests, Ages)
  <2>1. Cardinality(1 .. n) = n
    BY FS_Interval
  <2> QED
    BY <1>1, <1>2, <2>1, FS_Injection DEF HowMany
<1>4. PICK limit \in Nat : limit = Limit(k)
  BY LimitType
<1>5. limit <= HowMany(requests, Ages)
  BY <1>2, <1>3, <1>4
<1>6. UpTo(limit + 1, k) <= HowMany(AskedOnce(requests, k), Ages)
  BY <1>2, <1>4, <1>5, AskOne
<1>7. UpTo(limit + 1, k) = limit + 1
  <2>1. limit + 1 \in Nat
    OBVIOUS
  <2> QED
    BY <1>4, <2>1, UpToLimit
<1>8. HowMany(AskedOnce(requests, k), Ages) \in Nat
  BY <1>2, AskOne, SumType
<1>9. HowMany(AskedOnce(requests, k), Ages) > limit
  BY <1>6, <1>7, <1>8
<1> QED
  BY <1>4, <1>9, TotalIsSum

\* The ages of the hits of a worker after a tick.
Later(ages) == [i \in DOMAIN ages |-> Min({ages[i], Window}) + 1]

LEMMA LaterParts ==
  ASSUME NEW ages \in Seq(0 .. Forever), Ordered(ages)
  PROVE  /\ Len(Later(ages)) = Len(ages) /\ Ordered(Later(ages))
         /\ \A i \in 1 .. Len(ages) : ages[i] < Window => Later(ages)[i] = ages[i] + 1
         /\ \A i \in Fresh(Later(ages)) :
              i \in Fresh(ages) /\ ages[i] < Window /\ Later(ages)[i] = ages[i] + 1
<1>1. PICK n \in Nat : n = Len(ages) /\ DOMAIN ages = 1 .. n
  BY HitsParts
<1>2. Window \in Nat /\ \A i \in 1 .. n : ages[i] \in Nat
  BY <1>1, HitsParts, LimiterAssumption
<1>3. PICK new : new = Later(ages)
  OBVIOUS
<1>4. DOMAIN new = 1 .. n /\ \A i \in 1 .. n : new[i] = Min({ages[i], Window}) + 1
  BY <1>1, <1>3 DEF Later
<1>5. \A i \in 1 .. n :
        new[i] = IF ages[i] <= Window THEN ages[i] + 1 ELSE Window + 1
  <2>1. ASSUME NEW i \in 1 .. n
        PROVE  Min({ages[i], Window}) = IF ages[i] <= Window THEN ages[i] ELSE Window
    BY <1>2, MinOfTwo
  <2> QED
    BY <1>4, <2>1
<1>6. Len(new) = n
  <2>1. new = [i \in 1 .. n |-> Min({ages[i], Window}) + 1]
    BY <1>1, <1>3 DEF Later
  <2> QED
    BY <2>1
<1>7. Ordered(new)
  <2>1. ASSUME NEW i \in 1 .. n, NEW j \in 1 .. n, i <= j PROVE new[j] <= new[i]
    <3>1. ages[j] <= ages[i]
      BY <1>1, <2>1 DEF Ordered
    <3>2. /\ ages[i] \in Nat /\ ages[j] \in Nat
          /\ new[i] = IF ages[i] <= Window THEN ages[i] + 1 ELSE Window + 1
          /\ new[j] = IF ages[j] <= Window THEN ages[j] + 1 ELSE Window + 1
      BY <1>2, <1>5
    <3> QED
      BY <1>2, <3>1, <3>2
  <2> QED
    BY <1>4, <2>1 DEF Ordered
<1>8. \A i \in 1 .. n : ages[i] < Window => new[i] = ages[i] + 1
  BY <1>2, <1>5
<1>9. ASSUME NEW i \in Fresh(new)
      PROVE  i \in Fresh(ages) /\ ages[i] < Window /\ new[i] = ages[i] + 1
  <2>1. i \in 1 .. n /\ new[i] <= Window
    BY <1>4 DEF Fresh
  <2>2. /\ ages[i] \in Nat
        /\ new[i] = IF ages[i] <= Window THEN ages[i] + 1 ELSE Window + 1
    BY <1>2, <1>5, <2>1
  <2>3. ages[i] < Window /\ ages[i] <= Window /\ new[i] = ages[i] + 1
    BY <1>2, <2>1, <2>2
  <2> QED
    BY <1>1, <2>1, <2>3 DEF Fresh
<1> QED
  BY <1>1, <1>3, <1>6, <1>7, <1>8, <1>9

\* The hits and the requests they were age together.
LEMMA LaterWereAsked ==
  ASSUME NEW ages \in Seq(0 .. Forever), Ordered(ages),
         NEW requests \in [Ages -> Nat], WereAsked(ages, requests)
  PROVE  WereAsked(Later(ages), Older(requests))
<1>1. PICK g \in Injection(Fresh(ages), Recorded(requests, Ages)) :
        \A i \in Fresh(ages) : g[i][1] = ages[i]
  BY DEF WereAsked
<1>2. PICK new : new = Later(ages)
  OBVIOUS
<1>3. Window \in Nat /\ \A i \in Fresh(ages) : ages[i] \in Nat
  BY HitsParts, LimiterAssumption DEF Fresh
<1>4. \A i \in Fresh(new) :
        i \in Fresh(ages) /\ ages[i] < Window /\ new[i] = ages[i] + 1
  BY <1>2, LaterParts
<1>5. /\ g \in [Fresh(ages) -> Recorded(requests, Ages)]
      /\ \A i, j \in Fresh(ages) : g[i] = g[j] => i = j
  BY <1>1 DEF Injection, IsInjective
<1>6. ASSUME NEW i \in Fresh(new)
      PROVE  <<ages[i] + 1, g[i][2]>> \in Recorded(Older(requests), Ages)
  <2>1. i \in Fresh(ages) /\ ages[i] < Window /\ ages[i] \in Nat
    BY <1>3, <1>4
  <2>2. g[i] \in Recorded(requests, Ages) /\ g[i][1] = ages[i]
    BY <1>1, <1>5, <2>1
  <2>3. g[i][2] \in 1 .. requests[ages[i]]
    BY <2>2, RecordedCells
  <2>4. ages[i] + 1 \in Ages \ {0} /\ (ages[i] + 1) - 1 = ages[i]
    <3>1. PICK x \in Nat : x = ages[i]
      BY <2>1
    <3>2. x < Window
      BY <2>1, <3>1
    <3>3. x + 1 \in Ages \ {0} /\ (x + 1) - 1 = x
      BY <1>3, <3>2 DEF Ages
    <3> QED
      BY <3>1, <3>3
  <2>5. Older(requests)[ages[i] + 1] = requests[ages[i]]
    BY <2>4, OlderType
  <2> QED
    BY <2>3, <2>4, <2>5, RecordedCells
<1> DEFINE h == [i \in Fresh(new) |-> <<ages[i] + 1, g[i][2]>>]
<1>7. h \in [Fresh(new) -> Recorded(Older(requests), Ages)]
  BY <1>6
<1>8. ASSUME NEW i \in Fresh(new), NEW j \in Fresh(new), h[i] = h[j]
      PROVE  i = j
  <2>1. /\ i \in Fresh(ages) /\ j \in Fresh(ages)
        /\ ages[i] \in Nat /\ ages[j] \in Nat
    BY <1>3, <1>4
  <2>2. ages[i] + 1 = ages[j] + 1 /\ g[i][2] = g[j][2]
    BY <1>8
  <2>3. ages[i] = ages[j]
    BY <2>1, <2>2
  <2>4. g[i] = <<ages[i], g[i][2]>> /\ g[j] = <<ages[j], g[j][2]>>
    BY <1>1, <1>5, <2>1, RecordedCells
  <2>5. g[i] = g[j]
    BY <2>2, <2>3, <2>4
  <2> QED
    BY <1>5, <2>1, <2>5
<1>9. \A i \in Fresh(new) : h[i][1] = new[i]
  BY <1>4
<1> HIDE DEF h
<1>10. h \in Injection(Fresh(new), Recorded(Older(requests), Ages))
  BY <1>7, <1>8 DEF Injection, IsInjective
<1> QED
  BY <1>2, <1>9, <1>10 DEF WereAsked

-----------------------------------------------------------------------------
(* Memory: the passes and the hits of all workers *)

LEMMA NothingBacked ==
  ASSUME NEW passes, Recorded(passes, Ages) = {}, NEW memory, NEW k
  PROVE  Backed(passes, memory, k)
<1>1. [i \in {} |-> << >>] \in Injection({}, Workers \X (1 .. Limit(k)))
  BY DEF Injection, IsInjective
<1> QED
  BY <1>1 DEF Backed

\* A position in the hits of a worker moves down when its oldest hits leave.
MovedDown(at, w, first) ==
  IF at[1] = w THEN <<w, at[2] - (first - 1)>> ELSE at

\* A check keeps the hits that passes have, and gives a new pass a new hit.
LEMMA CheckKeepsBacking ==
  ASSUME NEW k \in Keys, NEW passes \in [Ages -> Nat],
         NEW old, NEW new, NEW w \in Workers, Backed(passes, old, k),
         NEW ages \in Seq(0 .. Forever), ages = old[w][k], Ordered(ages),
         Len(ages) <= Limit(k),
         \A v \in Workers \ {w} : new[v][k] = old[v][k],
         NEW window, window = InWindow(ages),
         NEW more,
         \/ more = passes /\ new[w][k] = window
         \/ /\ more = OneMore(passes) /\ new[w][k] = Append(window, 0)
            /\ Len(window) < Limit(k)
  PROVE  Backed(more, new, k)
<1> DEFINE Cells == Recorded(passes, Ages)
           Places == Workers \X (1 .. Limit(k))
<1>1. PICK f \in Injection(Cells, Places) : \A c \in Cells : IsHit(old, k, c, f[c])
  BY DEF Backed
<1>14. PICK n \in Nat, m \in Nat, first \in Nat :
        /\ n = Len(ages) /\ m = Len(InWindow(ages))
        /\ DOMAIN ages = 1 .. n /\ DOMAIN InWindow(ages) = 1 .. m
        /\ first \in 1 .. n + 1 /\ m = n + 1 - first
        /\ \A i \in 1 .. m : /\ i + first - 1 \in 1 .. n
                            /\ InWindow(ages)[i] = ages[i + first - 1]
        /\ \A i \in 1 .. first - 1 : ages[i] > Window
        /\ first <= n => ages[first] <= Window
  BY WindowParts, Zenon
<1>2. /\ n = Len(ages) /\ m = Len(window)
      /\ first \in 1 .. n + 1 /\ m = n + 1 - first
      /\ \A i \in 1 .. m : /\ i + first - 1 \in 1 .. n
                          /\ window[i] = ages[i + first - 1]
      /\ \A i \in 1 .. first - 1 : ages[i] > Window
  BY <1>14
<1>3. PICK limit \in Nat : limit = Limit(k)
  BY LimitType
<1>4. n <= limit
  BY <1>2, <1>3
<1>5. /\ window \in Seq(0 .. Forever) /\ Ordered(window)
  BY WindowOf, WindowIsFresh
<1>6. PICK next : next = new[w][k]
  OBVIOUS
<1>7. /\ \A i \in 1 .. m : next[i] = window[i]
      /\ \/ more = passes /\ Len(next) = m
         \/ /\ more = OneMore(passes) /\ Len(next) = m + 1 /\ next[m + 1] = 0
            /\ m + 1 <= limit
  <2>1. CASE more = passes /\ next = window
    BY <1>2, <2>1
  <2>2. CASE more = OneMore(passes) /\ next = Append(window, 0) /\ Len(window) < Limit(k)
    <3>1. m + 1 <= limit
      BY <1>2, <1>3, <2>2
    <3>2. /\ Len(next) = Len(window) + 1 /\ next[Len(window) + 1] = 0
          /\ \A i \in 1 .. Len(window) : next[i] = window[i]
      BY <1>5, <2>2, AppendNow
    <3> QED
      BY <1>2, <2>2, <3>1, <3>2
  <2> QED
    BY <1>6, <2>1, <2>2
<1>8. /\ f \in [Cells -> Places]
      /\ \A c, d \in Cells : f[c] = f[d] => c = d
  BY <1>1 DEF Injection, IsInjective
<1>9. ASSUME NEW c \in Cells
      PROVE  /\ f[c] = <<f[c][1], f[c][2]>> /\ f[c][1] \in Workers
             /\ f[c][2] \in 1 .. limit /\ c[1] \in 0 .. Window
             /\ f[c][1] = w => /\ f[c][2] \in first .. n
                               /\ f[c][2] - (first - 1) \in 1 .. m
                               /\ next[f[c][2] - (first - 1)] = c[1]
  <2>1. /\ f[c] = <<f[c][1], f[c][2]>> /\ f[c][1] \in Workers
        /\ f[c][2] \in 1 .. limit
    BY <1>3, <1>8
  <2>2. c[1] \in 0 .. Window
    BY RecordedCells DEF Ages
  <2>3. ASSUME f[c][1] = w
        PROVE  /\ f[c][2] \in first .. n
               /\ f[c][2] - (first - 1) \in 1 .. m
               /\ next[f[c][2] - (first - 1)] = c[1]
    <3>1. f[c][2] <= n /\ ages[f[c][2]] = c[1]
      BY <1>1, <1>2, <2>3 DEF IsHit
    <3>2. PICK i \in 1 .. limit : i = f[c][2]
      BY <2>1
    <3>3. ~(c[1] > Window)
      BY <2>2, LimiterAssumption
    <3>4. i \notin 1 .. first - 1
      BY <1>2, <3>1, <3>2, <3>3
    <3>5. i \in first .. n /\ i - (first - 1) \in 1 .. m
          /\ (i - (first - 1)) + first - 1 = i
      <4>1. first \in 1 .. n + 1 /\ m = n + 1 - first
        BY <1>2
      <4>2. i <= n
        BY <3>1, <3>2
      <4> QED
        BY <3>4, <4>1, <4>2
    <3>6. window[i - (first - 1)] = ages[i]
      BY <1>2, <3>5
    <3> QED
      BY <1>7, <3>1, <3>2, <3>5, <3>6
  <2> QED
    BY <2>1, <2>2, <2>3
<1> DEFINE place(c) == MovedDown(f[c], w, first)
<1>10. ASSUME NEW c \in Cells
       PROVE  /\ place(c) \in Places /\ IsHit(new, k, c, place(c))
              /\ place(c)[1] = w => place(c)[2] <= m
  <2>1. CASE f[c][1] = w
    <3>1. place(c) = <<w, f[c][2] - (first - 1)>>
      BY <2>1 DEF MovedDown
    <3>2. PICK i : i = f[c][2] - (first - 1)
      OBVIOUS
    <3>3. i \in 1 .. m /\ next[i] = c[1]
      BY <1>9, <2>1, <3>2
    <3>4. i \in 1 .. limit /\ i <= m /\ i <= Len(next)
      BY <1>2, <1>4, <1>7, <3>3
    <3>5. place(c) = <<w, i>> /\ place(c)[1] = w /\ place(c)[2] = i
      BY <3>1, <3>2
    <3> HIDE DEF place
    <3> QED
      BY <1>3, <1>6, <3>3, <3>4, <3>5 DEF IsHit
  <2>2. CASE f[c][1] # w
    <3>1. place(c) = f[c] /\ f[c][1] \in Workers \ {w}
      BY <1>9, <2>2 DEF MovedDown
    <3>2. new[f[c][1]][k] = old[f[c][1]][k]
      BY <3>1
    <3> HIDE DEF place
    <3> QED
      BY <1>1, <1>8, <2>2, <3>1, <3>2 DEF IsHit
  <2> QED
    BY <2>1, <2>2
<1>11. ASSUME NEW c \in Cells, NEW d \in Cells, place(c) = place(d)
       PROVE  c = d
  <2>1. CASE f[c][1] = w /\ f[d][1] = w
    <3>1. f[c][2] - (first - 1) = f[d][2] - (first - 1)
      BY <1>11, <2>1 DEF MovedDown
    <3>2. f[c][2] \in 1 .. limit /\ f[d][2] \in 1 .. limit
      BY <1>9
    <3>3. f[c][2] = f[d][2]
      BY <3>1, <3>2
    <3>4. f[c] = f[d]
      BY <1>9, <2>1, <3>3
    <3> QED
      BY <1>8, <3>4
  <2>2. CASE f[c][1] # w /\ f[d][1] # w
    <3>1. f[c] = f[d]
      BY <1>11, <2>2 DEF MovedDown
    <3> QED
      BY <1>8, <3>1
  <2>3. CASE f[c][1] = w /\ f[d][1] # w
    <3>1. place(c)[1] = w /\ place(d)[1] # w
      BY <2>3 DEF MovedDown
    <3> QED
      BY <1>11, <3>1
  <2>4. CASE f[c][1] # w /\ f[d][1] = w
    <3>1. place(c)[1] # w /\ place(d)[1] = w
      BY <2>4 DEF MovedDown
    <3> QED
      BY <1>11, <3>1
  <2> QED
    BY <2>1, <2>2, <2>3, <2>4
<1> HIDE DEF place, Places
<1>12. CASE more = passes
  <2> DEFINE h == [c \in Cells |-> place(c)]
  <2>1. h \in [Cells -> Places] /\ \A c, d \in Cells : h[c] = h[d] => c = d
    BY <1>10, <1>11
  <2>2. \A c \in Cells : IsHit(new, k, c, h[c])
    BY <1>10
  <2> HIDE DEF h
  <2>3. h \in Injection(Cells, Places)
    BY <2>1 DEF Injection, IsInjective
  <2> QED
    BY <1>12, <2>2, <2>3 DEF Backed, Places
<1>13. CASE more = OneMore(passes) /\ Len(next) = m + 1 /\ next[m + 1] = 0
            /\ m + 1 <= limit
  <2> DEFINE now == <<0, passes[0] + 1>>
             h == [c \in Cells \cup {now} |->
                    IF c = now THEN <<w, m + 1>> ELSE place(c)]
  <2>1. Recorded(more, Ages) = Cells \cup {now} /\ now \notin Cells
    <3>1. 0 \in Ages /\ Ages \in SUBSET Ages
      BY LimiterAssumption DEF Ages
    <3> QED
      BY <1>13, <3>1, RecordOne
  <2>2. now[1] = 0
    OBVIOUS
  <2> HIDE DEF now
  <2>3. <<w, m + 1>> \in Places
    BY <1>3, <1>13 DEF Places
  <2>4. IsHit(new, k, now, <<w, m + 1>>)
    BY <1>6, <1>13, <2>2 DEF IsHit
  <2>5. \A c \in Cells : place(c) # <<w, m + 1>>
    <3>1. ~(m + 1 <= m)
      OBVIOUS
    <3> QED
      BY <1>10, <3>1
  <2>6. h \in [Cells \cup {now} -> Places]
    BY <1>10, <2>3
  <2>7. \A c, d \in Cells \cup {now} : h[c] = h[d] => c = d
    BY <1>11, <2>1, <2>5
  <2>8. \A c \in Cells \cup {now} : IsHit(new, k, c, h[c])
    BY <1>10, <2>4
  <2> HIDE DEF h
  <2>9. h \in Injection(Cells \cup {now}, Places)
    BY <2>6, <2>7 DEF Injection, IsInjective
  <2> QED
    BY <2>1, <2>8, <2>9 DEF Backed, Places
<1> QED
  BY <1>7, <1>12, <1>13

\* The passes and the hits they have age together.
LEMMA TickKeepsBacking ==
  ASSUME NEW k \in Keys, NEW passes \in [Ages -> Nat], NEW old, NEW new,
         Backed(passes, old, k),
         \A w \in Workers : /\ old[w][k] \in Seq(0 .. Forever)
                            /\ Ordered(old[w][k]) /\ new[w][k] = Later(old[w][k])
  PROVE  Backed(Older(passes), new, k)
<1> DEFINE Cells == Recorded(passes, Ages)
           Aged == Recorded(Older(passes), Ages)
           Places == Workers \X (1 .. Limit(k))
           younger(c) == <<c[1] - 1, c[2]>>
<1>1. PICK f \in Injection(Cells, Places) : \A c \in Cells : IsHit(old, k, c, f[c])
  BY DEF Backed
<1>2. Window \in Nat
  BY LimiterAssumption
<1>3. ASSUME NEW c \in Aged
      PROVE  /\ c = <<c[1], c[2]>> /\ c[1] \in 1 .. Window
             /\ younger(c) \in Cells
  <2>1. c = <<c[1], c[2]>> /\ c[1] \in Ages /\ c[2] \in 1 .. Older(passes)[c[1]]
    BY RecordedCells
  <2>2. c[1] # 0
    BY <2>1, OlderType
  <2>3. c[1] - 1 \in Ages /\ c[2] \in 1 .. passes[c[1] - 1]
    BY <2>1, <2>2, OlderType
  <2>4. c[1] \in 1 .. Window
    BY <1>2, <2>1, <2>2 DEF Ages
  <2> QED
    BY <2>1, <2>3, <2>4, RecordedCells
<1>4. /\ f \in [Cells -> Places]
      /\ \A c, d \in Cells : f[c] = f[d] => c = d
  BY <1>1 DEF Injection, IsInjective
<1> DEFINE h == [c \in Aged |-> f[younger(c)]]
<1>5. h \in [Aged -> Places]
  BY <1>3, <1>4
<1>6. ASSUME NEW c \in Aged, NEW d \in Aged, h[c] = h[d] PROVE c = d
  <2>1. younger(c) = younger(d)
    BY <1>3, <1>4, <1>6
  <2>2. c[1] - 1 = d[1] - 1 /\ c[2] = d[2]
    BY <2>1
  <2>3. c[1] \in 1 .. Window /\ d[1] \in 1 .. Window
    BY <1>3
  <2>4. c[1] = d[1]
    BY <1>2, <2>2, <2>3
  <2>5. c = <<c[1], c[2]>> /\ d = <<d[1], d[2]>>
    BY <1>3
  <2> QED
    BY <2>2, <2>4, <2>5
<1>7. ASSUME NEW c \in Aged PROVE IsHit(new, k, c, h[c])
  <2>1. PICK d \in Cells : d = <<c[1] - 1, c[2]>> /\ h[c] = f[d]
    BY <1>3
  <2>2. PICK w \in Workers, i \in 1 .. Limit(k) : f[d] = <<w, i>>
    BY <1>4
  <2>3. PICK ages \in Seq(0 .. Forever) :
          ages = old[w][k] /\ Ordered(ages) /\ new[w][k] = Later(ages)
    OBVIOUS
  <2>4. i <= Len(ages) /\ ages[i] = d[1]
    <3>1. IsHit(old, k, d, f[d])
      BY <1>1
    <3>2. f[d][1] = w /\ f[d][2] = i
      BY <2>2
    <3> QED
      BY <2>3, <3>1, <3>2 DEF IsHit
  <2>5. ages[i] = c[1] - 1
    BY <2>1, <2>4
  <2>6. PICK a \in 1 .. Window : a = c[1]
    BY <1>3
  <2>7. ages[i] < Window /\ ages[i] + 1 = a
    BY <1>2, <2>5, <2>6
  <2>8. i \in 1 .. Len(ages)
    <3>1. Limit(k) \in Nat /\ Len(ages) \in Nat
      BY LimitType, HitsParts
    <3> QED
      BY <2>4, <3>1
  <2>9. Len(Later(ages)) = Len(ages) /\ Later(ages)[i] = a
    BY <2>3, <2>7, <2>8, LaterParts
  <2> HIDE DEF h
  <2> QED
    BY <2>1, <2>2, <2>3, <2>4, <2>6, <2>9 DEF IsHit
<1> HIDE DEF h
<1>8. h \in Injection(Aged, Places)
  BY <1>5, <1>6 DEF Injection, IsInjective
<1> QED
  BY <1>7, <1>8 DEF Backed

\* A worker that had no hits of the key takes none along.
LEMMA RestartKeepsBacking ==
  ASSUME NEW k \in Keys, NEW passes, NEW old, NEW new, Backed(passes, old, k),
         \A w \in Workers : new[w][k] = old[w][k]
  PROVE  Backed(passes, new, k)
<1>1. PICK f \in Injection(Recorded(passes, Ages), Workers \X (1 .. Limit(k))) :
        \A c \in Recorded(passes, Ages) : IsHit(old, k, c, f[c])
  BY DEF Backed
<1>2. \A c \in Recorded(passes, Ages) : f[c][1] \in Workers
  BY <1>1 DEF Injection
<1>3. \A c \in Recorded(passes, Ages) : IsHit(new, k, c, f[c])
  BY <1>1, <1>2 DEF IsHit
<1> QED
  BY <1>1, <1>3 DEF Backed

\* There are no more passes than hits in all the workers.
LEMMA MemoryBound ==
  ASSUME NEW k \in Keys, NEW passes, NEW memory, Backed(passes, memory, k)
  PROVE  Total(passes) <= Cardinality(Workers) * Limit(k)
<1>1. PICK f \in Injection(Recorded(passes, Ages), Workers \X (1 .. Limit(k))) : TRUE
  BY DEF Backed
<1>2. Limit(k) \in Nat
  BY LimitType
<1>3. IsFiniteSet(1 .. Limit(k)) /\ Cardinality(1 .. Limit(k)) = Limit(k)
  BY <1>2, FS_Interval
<1>4. /\ IsFiniteSet(Workers \X (1 .. Limit(k)))
      /\ Cardinality(Workers \X (1 .. Limit(k))) = Cardinality(Workers) * Limit(k)
  BY <1>3, LimiterAssumption, FS_Product
<1> QED
  BY <1>1, <1>4, FS_Injection DEF Total

-----------------------------------------------------------------------------
(* Memory: the steps *)

LEMMA MemoryCheck ==
  ASSUME StateInv, RefusalsAreEarned, MemoryInv, NEW w \in Workers,
         NEW path \in Paths, NEW address \in Addresses,
         CheckMemory(w, path, address)
  PROVE  RefusalsAreEarned' /\ MemoryInv'
<1>1. PICK k, window :
        k = <<RuleOf(path), address>> /\ window = InWindow(hits[w][k])
  OBVIOUS
<1>2. /\ k \in Keys /\ <<Intended(path), address>> = k
      /\ stuck' = stuck /\ CountAsk(k)
      /\ hits' \in [Workers -> [Keys -> Seq(0 .. Forever)]]
      /\ \A v \in Workers, j \in Keys :
           v # w \/ j # k => hits'[v][j] = hits[v][j]
      /\ \A v \in Workers \ {w} : check'[v] = check[v]
      /\ \/ /\ Len(window) < Limit(k) /\ CountPass(k)
            /\ hits'[w][k] = Append(window, 0)
            /\ check'[w] = [pc |-> "pass", path |-> path, address |-> address]
         \/ /\ ~(Len(window) < Limit(k)) /\ UNCHANGED passed
            /\ hits'[w][k] = window
            /\ check'[w] = [pc |-> "refuse", path |-> path, address |-> address]
  <2>1. Checked(w, path, address, k, window)
    BY <1>1, CheckedHits
  <2> QED
    BY ONLY <2>1 DEF Checked
<1>3. PICK ages \in Seq(0 .. Forever) :
        ages = hits[w][k] /\ window = InWindow(ages)
  <2>1. hits[w][k] \in Seq(0 .. Forever)
    BY <1>2 DEF StateInv, LimiterTypeOK
  <2> QED
    BY ONLY <1>1, <2>1
<1>4. /\ Ordered(ages) /\ Len(ages) <= Limit(k) /\ WereAsked(ages, asked[k])
  BY <1>2, <1>3 DEF MemoryInv, HitsAreKept
<1>5. /\ window \in Seq(0 .. Forever) /\ Ordered(window) /\ Len(window) <= Len(ages)
      /\ Fresh(window) = 1 .. Len(window)
      /\ Len(window) \in Nat /\ Len(ages) \in Nat /\ Limit(k) \in Nat
      /\ WereAsked(window, asked[k])
  BY <1>2, <1>3, <1>4, WindowOf, WindowIsFresh, WindowWasAsked, HitsParts, LimitType
<1>6. /\ asked[k] \in [Ages -> Nat] /\ \A a \in Ages : asked[k][a] <= Limit(k) + 1
      /\ asked'[k] = AskedOnce(asked[k], k)
      /\ \A j \in Keys \ {k} : asked'[j] = asked[j]
  BY <1>2, CountingAsk DEF StateInv, LimiterTypeOK, AskedIsCapped
<1>7. Recorded(asked[k], Ages) \subseteq Recorded(asked'[k], Ages)
  <2>1. 0 \in Ages /\ Ages \in SUBSET Ages
    BY LimiterAssumption DEF Ages
  <2> QED
    BY <1>2, <1>6, <2>1, AskOne
<1>8. ASSUME NEW j \in Keys PROVE PassesAreHits(j)'
  <2>1. SUFFICES ASSUME j \notin stuck PROVE Backed(passed'[j], hits', j)
    BY <1>2 DEF PassesAreHits
  <2>2. Backed(passed[j], hits, j)
    BY <2>1 DEF MemoryInv, PassesAreHits
  <2>3. CASE j # k
    <3>1. passed'[j] = passed[j]
      BY <1>2, <2>3, CountingPass
    <3>2. \A v \in Workers : hits'[v][j] = hits[v][j]
      BY <1>2, <2>3
    <3> QED
      BY <2>2, <3>1, <3>2, RestartKeepsBacking
  <2>4. CASE j = k
    <3>1. \A v \in Workers \ {w} : hits'[v][k] = hits[v][k]
      BY <1>2
    <3>2. passed[k] \in [Ages -> Nat]
      BY <1>2 DEF StateInv, LimiterTypeOK
    <3>3. \/ passed'[k] = passed[k] /\ hits'[w][k] = window
          \/ /\ passed'[k] = OneMore(passed[k]) /\ hits'[w][k] = Append(window, 0)
             /\ Len(window) < Limit(k)
      BY <1>2, CountingPass
    <3>4. PICK old, new, more, passes :
            old = hits /\ new = hits' /\ more = passed'[k] /\ passes = passed[k]
      OBVIOUS
    <3>5. /\ k \in Keys /\ w \in Workers
          /\ passes \in [Ages -> Nat] /\ Backed(passes, old, k)
          /\ ages \in Seq(0 .. Forever) /\ ages = old[w][k] /\ Ordered(ages)
          /\ Len(ages) <= Limit(k)
          /\ \A v \in Workers \ {w} : new[v][k] = old[v][k]
          /\ window = InWindow(ages)
      BY <1>2, <1>3, <1>4, <2>2, <2>4, <3>1, <3>2, <3>4
    <3>6. \/ more = passes /\ new[w][k] = window
          \/ /\ more = OneMore(passes) /\ new[w][k] = Append(window, 0)
             /\ Len(window) < Limit(k)
      BY <3>3, <3>4
    <3>7. Backed(more, new, k)
      BY ONLY <3>5, <3>6, CheckKeepsBacking, Zenon
    <3> QED
      BY <2>4, <3>4, <3>7
  <2> QED
    BY <2>3, <2>4
<1>9. ASSUME NEW v \in Workers, NEW j \in Keys PROVE HitsAreKept(v, j)'
  <2>1. HitsAreKept(v, j)
    BY DEF MemoryInv
  <2>2. CASE j # k
    BY <1>2, <1>6, <2>1, <2>2 DEF HitsAreKept
  <2>3. CASE j = k /\ v # w
    <3>1. hits'[v][j] = hits[v][j]
      BY <1>2, <2>3
    <3>2. WereAsked(hits[v][j], asked'[j])
      BY <1>7, <2>1, <2>3, MoreWereAsked DEF HitsAreKept
    <3> QED
      BY <2>1, <3>1, <3>2 DEF HitsAreKept
  <2>4. CASE j = k /\ v = w
    <3>1. CASE Len(window) < Limit(k) /\ hits'[w][k] = Append(window, 0)
      <4>1. /\ Ordered(Append(window, 0)) /\ Len(Append(window, 0)) = Len(window) + 1
        BY <1>5, AppendNow
      <4>2. Len(window) + 1 <= Limit(k)
        BY <1>5, <3>1
      <4>3. WereAsked(Append(window, 0), AskedOnce(asked[k], k))
        BY <1>2, <1>5, <1>6, <3>1, AdmittedWasAsked
      <4> QED
        BY <1>6, <2>4, <3>1, <4>1, <4>2, <4>3 DEF HitsAreKept
    <3>2. CASE hits'[w][k] = window
      <4>1. Len(window) <= Limit(k)
        BY <1>4, <1>5
      <4>2. WereAsked(window, asked'[k])
        BY <1>5, <1>7, MoreWereAsked
      <4> QED
        BY <1>5, <2>4, <3>2, <4>1, <4>2 DEF HitsAreKept
    <3> QED
      BY <1>2, <3>1, <3>2
  <2> QED
    BY <2>2, <2>3, <2>4
<1>10. RefusalsAreEarned'
  <2>1. ASSUME check'[w].pc = "refuse" PROVE Total(asked'[k]) > Limit(k)
    <3>1. ~(Len(window) < Limit(k))
      BY <1>2, <2>1
    <3>2. Limit(k) <= Len(window)
      BY <1>5, <3>1
    <3> QED
      BY <1>2, <1>5, <1>6, <3>2, FullWindowWasAsked
  <2>2. KeyOf(w)' = k /\ MeantFor(w)' = k
    <3>1. check'[w].path = path /\ check'[w].address = address
      BY <1>2
    <3> QED
      BY <1>1, <1>2, <3>1 DEF KeyOf, MeantFor
  <2>3. \A j \in Keys : Total(asked[j]) > Limit(j) => Total(asked'[j]) > Limit(j)
    BY <1>2, AsksGrow
  <2> QED
    BY <1>2, <2>1, <2>2, <2>3, RefusalsStay
<1> QED
  BY <1>8, <1>9, <1>10 DEF MemoryInv

LEMMA MemoryRestart ==
  ASSUME StateInv, RefusalsAreEarned, MemoryInv, backend = "memory",
         NEW w \in Workers, RestartWorker(w)
  PROVE  RefusalsAreEarned' /\ MemoryInv'
<1>1. ~(In(w, "incr") \/ In(w, "expire"))
  BY DEF StateInv
<1>2. /\ stuck' = stuck \cup {k \in Keys : hits[w][k] # << >>}
      /\ UNCHANGED <<asked, passed>>
      /\ hits' = [hits EXCEPT ![w] = [k \in Keys |-> << >>]]
      /\ check' = [check EXCEPT ![w] = NoCheck]
  BY <1>1 DEF RestartWorker
<1>3. /\ \A v \in Workers, k \in Keys : v # w => hits'[v][k] = hits[v][k]
      /\ \A k \in Keys : hits'[w][k] = << >>
      /\ \A v \in Workers \ {w} : check'[v] = check[v]
      /\ check'[w].pc = "idle"
  BY <1>2 DEF StateInv, LimiterTypeOK, NoCheck
<1>4. ASSUME NEW k \in Keys PROVE PassesAreHits(k)'
  <2>1. SUFFICES ASSUME k \notin stuck' PROVE Backed(passed[k], hits', k)
    BY <1>2 DEF PassesAreHits
  <2>2. k \notin stuck /\ hits[w][k] = << >>
    BY <1>2, <2>1
  <2>3. Backed(passed[k], hits, k)
    BY <2>2 DEF MemoryInv, PassesAreHits
  <2>4. \A v \in Workers : hits'[v][k] = hits[v][k]
    BY <1>3, <2>2
  <2> QED
    BY <2>3, <2>4, RestartKeepsBacking
<1>5. ASSUME NEW v \in Workers, NEW k \in Keys PROVE HitsAreKept(v, k)'
  <2>1. CASE v = w
    <3>1. Len(<< >>) <= Limit(k)
      <4>1. Limit(k) \in Nat
        BY LimitType
      <4> QED
        BY <4>1
    <3>2. Ordered(<< >>)
      BY DEF Ordered
    <3>3. WereAsked(<< >>, asked'[k])
      BY NoHitsWereAsked
    <3> QED
      BY <1>3, <2>1, <3>1, <3>2, <3>3 DEF HitsAreKept
  <2>2. CASE v # w
    BY <1>2, <1>3, <2>2 DEF MemoryInv, HitsAreKept
  <2> QED
    BY <2>1, <2>2
<1>6. RefusalsAreEarned'
  <2>1. stuck \subseteq stuck' /\ check'[w].pc # "refuse"
    BY <1>2, <1>3
  <2> QED
    BY <1>2, <1>3, <2>1, RefusalsStay
<1> QED
  BY <1>4, <1>5, <1>6 DEF MemoryInv

LEMMA MemoryAnswer ==
  ASSUME StateInv, RefusalsAreEarned, MemoryInv, NEW w \in Workers, Answer(w)
  PROVE  RefusalsAreEarned' /\ MemoryInv'
<1>1. /\ UNCHANGED <<hits, passed, asked, stuck>>
      /\ \A v \in Workers \ {w} : check'[v] = check[v]
      /\ check'[w].pc = "idle"
  BY DEF Answer, NoCheck, StateInv, LimiterTypeOK
<1>2. MemoryInv'
  BY <1>1 DEF MemoryInv, PassesAreHits, HitsAreKept
<1>3. RefusalsAreEarned'
  BY <1>1, RefusalsStay
<1> QED
  BY <1>2, <1>3

LEMMA MemoryTick ==
  ASSUME StateInv, MemoryInv, Tick
  PROVE  RefusalsAreEarned' /\ MemoryInv'
<1>1. /\ stuck' = stuck
      /\ \A k \in Keys : passed'[k] = Older(passed[k]) /\ asked'[k] = Older(asked[k])
  BY DEF Tick
<1>2. \A w \in Workers, k \in Keys : hits'[w][k] = Later(hits[w][k])
  BY DEF Tick, Later
<1>3. \A w \in Workers, k \in Keys :
        /\ hits[w][k] \in Seq(0 .. Forever) /\ Ordered(hits[w][k])
        /\ Len(hits[w][k]) <= Limit(k) /\ WereAsked(hits[w][k], asked[k])
  BY DEF StateInv, LimiterTypeOK, MemoryInv, HitsAreKept
<1>4. \A k \in Keys : passed[k] \in [Ages -> Nat] /\ asked[k] \in [Ages -> Nat]
  BY DEF StateInv, LimiterTypeOK
<1>5. ASSUME NEW k \in Keys PROVE PassesAreHits(k)'
  <2>1. SUFFICES ASSUME k \notin stuck PROVE Backed(passed'[k], hits', k)
    BY <1>1 DEF PassesAreHits
  <2>2. Backed(passed[k], hits, k)
    BY <2>1 DEF MemoryInv, PassesAreHits
  <2>3. PICK old, new : old = hits /\ new = hits'
    OBVIOUS
  <2>4. /\ Backed(passed[k], old, k)
        /\ \A w \in Workers :
             /\ old[w][k] \in Seq(0 .. Forever)
             /\ Ordered(old[w][k]) /\ new[w][k] = Later(old[w][k])
    BY <1>2, <1>3, <2>2, <2>3
  <2>5. passed[k] \in [Ages -> Nat]
    BY <1>4
  <2>6. Backed(Older(passed[k]), new, k)
    BY <2>4, <2>5, TickKeepsBacking
  <2> QED
    BY <1>1, <2>3, <2>6
<1>6. ASSUME NEW w \in Workers, NEW k \in Keys PROVE HitsAreKept(w, k)'
  <2>1. PICK ages \in Seq(0 .. Forever) : ages = hits[w][k]
    BY <1>3
  <2>2. /\ Ordered(ages) /\ Len(ages) <= Limit(k) /\ WereAsked(ages, asked[k])
        /\ asked[k] \in [Ages -> Nat]
    BY <1>3, <1>4, <2>1
  <2>3. /\ Len(Later(ages)) = Len(ages) /\ Ordered(Later(ages))
        /\ WereAsked(Later(ages), Older(asked[k]))
    BY <2>2, LaterParts, LaterWereAsked
  <2>4. hits'[w][k] = Later(ages) /\ asked'[k] = Older(asked[k])
    BY <1>1, <1>2, <2>1
  <2> QED
    BY <2>2, <2>3, <2>4 DEF HitsAreKept
<1>7. \A w \in Workers : ~In(w, "refuse")'
  BY DEF Tick, In
<1> QED
  BY <1>5, <1>6, <1>7 DEF MemoryInv, RefusalsAreEarned

LEMMA MemoryWorker ==
  ASSUME StateInv, RefusalsAreEarned, MemoryInv, backend = "memory",
         NEW w \in Workers, WorkerNext(w)
  PROVE  RefusalsAreEarned' /\ MemoryInv'
<1>1. ~In(w, "incr") /\ ~In(w, "expire")
  BY DEF StateInv
<1>2. \A path \in Paths, address \in Addresses : ~Arrive(w, path, address)
  BY DEF Arrive
<1>3. ~Incr(w) /\ ~Expire(w) /\ ~FailOpen(w)
  BY <1>1 DEF Incr, Expire, FailOpen
<1> QED
  BY <1>2, <1>3, MemoryCheck, MemoryAnswer, MemoryRestart DEF WorkerNext

LEMMA MemoryInit ==
  ASSUME StateInv, LimiterInit
  PROVE  RefusalsAreEarned /\ MemoryInv
<1>1. \A w \in Workers : ~In(w, "refuse")
  BY DEF LimiterInit, NoCheck, In
<1>2. ASSUME NEW k \in Keys PROVE PassesAreHits(k)
  <2>1. \A a \in Ages : passed[k][a] = 0
    BY DEF LimiterInit, NoHits
  <2> QED
    BY <2>1, NothingRecorded, NothingBacked DEF PassesAreHits
<1>3. ASSUME NEW w \in Workers, NEW k \in Keys PROVE HitsAreKept(w, k)
  <2>1. hits[w][k] = << >>
    BY DEF LimiterInit
  <2>2. Limit(k) \in Nat
    BY LimitType
  <2>3. Len(<< >>) <= Limit(k) /\ Ordered(<< >>)
    BY <2>2 DEF Ordered
  <2> QED
    BY <2>1, <2>3, NoHitsWereAsked DEF HitsAreKept
<1> QED
  BY <1>1, <1>2, <1>3 DEF RefusalsAreEarned, MemoryInv

-----------------------------------------------------------------------------
(* The theorems *)

\* Redis may go and come back: nothing but redisUp changes.
LEMMA OutageStep ==
  ASSUME RateInv, redisUp' \in BOOLEAN,
         UNCHANGED <<backend, counter, hits, check, passed, asked, stuck>>
  PROVE  RateInv'
<1>1. StateInv'
  BY DEF RateInv, StateInv, LimiterTypeOK, AskedIsCapped, KnowsRequest, In
<1>2. RefusalsAreEarned'
  BY DEF RateInv, RefusalsAreEarned, In, MeantFor, KeyOf
<1>3. ASSUME RedisInv PROVE RedisInv'
  BY <1>3 DEF RedisInv, KeyInv, KeysExpire, CountedWasAsked, PassesAreCounted,
     TwoGenerations, Elapsed, Pending, In, KeyOf
<1>4. ASSUME MemoryInv PROVE MemoryInv'
  BY <1>4 DEF MemoryInv, PassesAreHits, HitsAreKept
<1> QED
  BY <1>1, <1>2, <1>3, <1>4 DEF RateInv

LEMMA RateWorker ==
  ASSUME RateInv, NEW w \in Workers, WorkerNext(w)
  PROVE  RateInv'
<1>1. StateInv /\ RefusalsAreEarned /\ backend \in {"redis", "memory"}
  BY DEF RateInv, StateInv, LimiterTypeOK
<1>2. StateInv'
  <2>1. CASE \E path \in Paths, address \in Addresses : Arrive(w, path, address)
    BY <1>1, <2>1, StateArrive
  <2>2. CASE \E path \in Paths, address \in Addresses :
               CheckMemory(w, path, address)
    BY <1>1, <2>2, StateCheckMemory
  <2>3. CASE Incr(w)
    BY <1>1, <2>3, StateIncr
  <2>4. CASE Expire(w)
    BY <1>1, <2>4, StateExpire
  <2>5. CASE FailOpen(w)
    BY <1>1, <2>5, StateFailOpen
  <2>6. CASE Answer(w)
    BY <1>1, <2>6, StateAnswer
  <2>7. CASE RestartWorker(w)
    BY <1>1, <2>7, StateRestart
  <2> QED
    BY <2>1, <2>2, <2>3, <2>4, <2>5, <2>6, <2>7 DEF WorkerNext
<1>3. backend' = backend
  BY DEF WorkerNext, Arrive, CheckMemory, Incr, Expire, FailOpen, Answer,
     RestartWorker
<1>4. CASE backend = "redis"
  <2>1. RedisInv
    BY <1>4 DEF RateInv
  <2>2. RefusalsAreEarned' /\ RedisInv'
    BY <1>1, <1>4, <2>1, RedisWorker
  <2> QED
    BY <1>2, <1>3, <1>4, <2>2 DEF RateInv
<1>5. CASE backend = "memory"
  <2>1. MemoryInv
    BY <1>5 DEF RateInv
  <2>2. RefusalsAreEarned' /\ MemoryInv'
    BY <1>1, <1>5, <2>1, MemoryWorker
  <2> QED
    BY <1>2, <1>3, <1>5, <2>2 DEF RateInv
<1> QED
  BY <1>1, <1>4, <1>5

LEMMA RateTick ==
  ASSUME RateInv, Tick
  PROVE  RateInv'
<1>1. StateInv /\ StateInv' /\ backend' = backend
  BY StateTick DEF RateInv, Tick
<1>2. RefusalsAreEarned'
  BY DEF Tick, RefusalsAreEarned, In
<1>3. ASSUME RedisInv PROVE RedisInv'
  BY <1>1, <1>3, RedisTick
<1>4. ASSUME MemoryInv PROVE MemoryInv'
  BY <1>1, <1>4, MemoryTick
<1> QED
  BY <1>1, <1>2, <1>3, <1>4 DEF RateInv

\* The invariant of the limiter: whatever the workers, addresses, paths, limits
\* and window, through failures of Redis between any two commands and restarts
\* of workers in the middle of a check.
THEOREM RateIsSound == LimiterSpec => []RateInv
<1>1. LimiterInit => RateInv
  BY StateInit, RedisInit, MemoryInit DEF RateInv
<1>2. RateInv /\ [LimiterNext]_limiterVars => RateInv'
  <2> SUFFICES ASSUME RateInv, [LimiterNext]_limiterVars PROVE RateInv'
    OBVIOUS
  <2>1. CASE \E w \in Workers : WorkerNext(w)
    BY <2>1, RateWorker
  <2>2. CASE Tick
    BY <2>2, RateTick
  <2>3. CASE /\ RedisFails \/ RedisReturns
             /\ UNCHANGED <<backend, counter, hits, check, passed, asked, stuck>>
    BY <2>3, OutageStep DEF RedisFails, RedisReturns
  <2>4. CASE UNCHANGED limiterVars
    <3>1. redisUp' \in BOOLEAN
      BY <2>4 DEF limiterVars, RateInv, StateInv, LimiterTypeOK
    <3> QED
      BY <2>4, <3>1, OutageStep DEF limiterVars
  <2> QED
    BY <2>1, <2>2, <2>3, <2>4 DEF LimiterNext
<1> QED
  BY <1>1, <1>2, PTL DEF LimiterSpec

\* The types of all that the limiter keeps; with them, that a key of Redis
\* lives no longer than the window, unless it has no expiry at all.
THEOREM LimiterTypeCorrect == LimiterSpec => []LimiterTypeOK
<1>1. RateInv => LimiterTypeOK
  BY DEF RateInv, StateInv
<1> QED
  BY <1>1, RateIsSound, PTL

\* Within any window at most twice the limit of a rule passes by count with
\* Redis, and the limit once per worker in memory, for the rule that is meant
\* for the path and not only for the first one in the table.
THEOREM AdmissionsBounded == LimiterSpec => []AdmissionsAreBounded
<1>1. ASSUME RateInv, NEW k \in Keys, backend = "redis"
      PROVE  Total(passed[k]) <= 2 * Limit(k)
  BY <1>1, RedisBound DEF RateInv, RedisInv
<1>2. ASSUME RateInv, NEW k \in Keys, backend = "memory", k \notin stuck
      PROVE  Total(passed[k]) <= Cardinality(Workers) * Limit(k)
  BY <1>2, MemoryBound DEF RateInv, MemoryInv, PassesAreHits
<1>3. RateInv => backend \in {"redis", "memory"}
  BY DEF RateInv, StateInv, LimiterTypeOK
<1>4. RateInv => AdmissionsAreBounded
  BY <1>1, <1>2, <1>3 DEF AdmissionsAreBounded
<1> QED
  BY <1>4, RateIsSound, PTL

\* A 429 is sent only to a client that has asked more often than the limit in
\* one window, or whose counter lost its expiry to a failure.
THEOREM RefusalsEarned == LimiterSpec => []RefusalsAreEarned
<1>1. RateInv => RefusalsAreEarned
  BY DEF RateInv
<1> QED
  BY <1>1, RateIsSound, PTL

\* No counter is left without an expiry: the worker that created it is about to
\* set one, whoever else counts on it meanwhile, or a failure cut that off.
THEOREM CountersExpire ==
  LimiterSpec =>
    [](backend = "redis" =>
         \A k \in Keys :
           counter[k].count > 0 /\ counter[k].life = Forever =>
             k \in stuck \/ \E w \in Workers : In(w, "expire") /\ KeyOf(w) = k)
<1>1. RateInv =>
        (backend = "redis" =>
           \A k \in Keys :
             counter[k].count > 0 /\ counter[k].life = Forever =>
               k \in stuck \/ \E w \in Workers : In(w, "expire") /\ KeyOf(w) = k)
  BY DEF RateInv, RedisInv, KeyInv, KeysExpire, Pending
<1> QED
  BY <1>1, RateIsSound, PTL
=============================================================================
