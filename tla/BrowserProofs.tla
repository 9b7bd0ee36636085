---------------------------- MODULE BrowserProofs ----------------------------
(***************************************************************************)
(* Theorems about Browser, for any number of tabs and requests.  While     *)
(* nothing disturbs it, at most one request is under way, and at each of   *)
(* its stages exactly one place knows the one token that is not revoked:   *)
(* the cookie, the handler that is about to replace it, or the response;   *)
(* and after a new password, until a login, there is no such token.        *)
(***************************************************************************)
EXTENDS Browser, SequenceTheorems, TLAPS

\* What the server does for a request is what the browser sent it for.
Corresponds(r) ==
  /\ Is(r, "served") <=> req[r].pc # "idle"
  /\ Is(r, "served") => req[r].user = User
  /\ Is(r, "served") =>
       \/ http[r].by = "login" /\ req[r].pc = "issue"
       \/ /\ Refreshes(r) /\ req[r].pc \in {"rotate", "readLive", "revoke"}
          /\ req[r].op = "refresh"
          /\ req[r].token = http[r].cookie /\ http[r].cookie # 0
       \/ /\ http[r].by = "logout" /\ req[r].pc = "logout"
          /\ req[r].token = http[r].cookie /\ http[r].cookie # 0
       \/ /\ SetsPassword(r) /\ req[r].pc \in {"readLive", "revoke"}
          /\ req[r].op \in {"change", "reset"}

\* The tokens that live when nothing is under way.
InStep == Live = IF changed THEN {} ELSE {cookie} \ {0}

\* Where the live token is while a request is under way.
OneHolds(r) ==
  /\ Is(r, "sent") \/ Is(r, "served") =>
       IF http[r].by = "login" THEN Live = {}
       ELSE http[r].cookie = cookie /\ InStep
  /\ Is(r, "served") =>
       /\ req[r].pc \in {"rotate", "logout"} => ~changed
       /\ req[r].pc \in {"readLive", "revoke"} => changed \/ SetsPassword(r)
       /\ SetsPassword(r) /\ req[r].pc = "revoke" =>
            req[r].live = Live /\ req[r].seen = Len(token)
  /\ Is(r, "ok") =>
       IF SetsPassword(r) THEN InStep
       ELSE Live = {http[r].answer} \ {0} /\ (changed => Live = {})
  /\ Is(r, "refused") => InStep /\ (changed \/ http[r].cookie = 0)

Undisturbed ==
  /\ \A q, r \in UnderWay : q = r
  /\ \A k \in Live : S!IsValid(k)
  /\ UnderWay = {} => InStep
  /\ \A r \in UnderWay : OneHolds(r)

BInv ==
  /\ BrowserTypeOK
  /\ \A r \in Requests : Corresponds(r)
  /\ ~disturbed => Undisturbed

-----------------------------------------------------------------------------
(* Sessions, as far as the browser uses them *)

\* Two states of a request that differ at most in its session.
Alike(s, t) ==
  /\ t.op = s.op /\ t.pc = s.pc /\ t.user = s.user
  /\ t.token = s.token /\ t.live = s.live

\* A handler that begins takes its place and leaves the others where they are.
LEMMA BeginType ==
  ASSUME req \in [Requests -> S!RequestState], NEW r \in Requests,
         NEW new \in S!RequestState, S!Begin(r, new)
  PROVE  /\ req' \in [Requests -> S!RequestState]
         /\ req'[r] = new
         /\ \A q \in Requests \ {r} : Alike(req[q], req'[q])
BY DEF S!Begin, Alike

\* A request that is over is idle, and a well-formed one.
LEMMA IdleType ==
  S!IdleRequest \in S!RequestState /\ S!IdleRequest.pc = "idle"
BY DEF S!IdleRequest, S!RequestState, S!NoSession, S!Session

LEMMA EndType ==
  ASSUME req \in [Requests -> S!RequestState], NEW r \in Requests, S!End(r)
  PROVE  /\ req' \in [Requests -> S!RequestState]
         /\ req'[r].pc = "idle"
         /\ \A q \in Requests \ {r} : Alike(req[q], req'[q])
BY IdleType DEF S!End, Alike

\* Revoking some tokens keeps the others as they are, and the table its type.
LEMMA RevokeType ==
  ASSUME token \in Seq(S!TokenRow), NEW ids
  PROVE  /\ S!Revoke(ids) \in Seq(S!TokenRow)
         /\ Len(S!Revoke(ids)) = Len(token)
         /\ \A k \in DOMAIN token :
              /\ S!Revoke(ids)[k].owner = token[k].owner
              /\ S!Revoke(ids)[k].status =
                   IF k \in ids THEN "revoked" ELSE token[k].status
<1> DEFINE new(k) == IF k \in ids
                     THEN [token[k] EXCEPT !.status = "revoked",
                                           !.session = S!NoSession]
                     ELSE token[k]
<1>1. DOMAIN token = 1 .. Len(token) /\ Len(token) \in Nat
  OBVIOUS
<1>2. \A k \in DOMAIN token : token[k] \in S!TokenRow
  OBVIOUS
<1>3. S!NoSession \in S!Session
  BY DEF S!NoSession, S!Session
<1>4. \A k \in DOMAIN token :
        /\ new(k) \in S!TokenRow /\ new(k).owner = token[k].owner
        /\ new(k).status = IF k \in ids THEN "revoked" ELSE token[k].status
  BY <1>2, <1>3 DEF S!TokenRow
<1>5. S!Revoke(ids) = [k \in 1 .. Len(token) |-> new(k)]
  BY <1>1 DEF S!Revoke
<1> HIDE DEF new
<1>6. S!Revoke(ids) \in Seq(S!TokenRow) /\ Len(S!Revoke(ids)) = Len(token)
  BY <1>1, <1>4, <1>5
<1> QED
  BY <1>1, <1>4, <1>5, <1>6

\* A new password marks the tokens it misses, and the requests that have yet
\* to issue one; it misses none if it revokes all that live.
LEMMA ReplaceType ==
  ASSUME S!SessionsTypeOK, NEW r \in Requests, S!ReplacePassword(r),
         req[r].user = User
  PROVE  /\ S!SessionsTypeOK' /\ DOMAIN token' = DOMAIN token
         /\ req'[r].pc = "idle"
         /\ \A q \in Requests \ {r} : Alike(req[q], req'[q])
         /\ req[r].live = Live /\ req[r].seen = Len(token) => Live' = {}
<1> DEFINE n == Len(token)
           new == account[User].password + 1
           late(k) == k \in Live /\ k > req[r].seen
           revoked == S!Revoke(req[r].live)
           Mark(x) == [x EXCEPT !.session.escaped = new]
           Issues(q) == req[q].user = User /\ req[q].pc \in {"issue", "rotate"}
<1>1. /\ account' = [account EXCEPT ![User].password = new]
      /\ token' = [k \in DOMAIN token |->
                     IF late(k) THEN Mark(token[k]) ELSE revoked[k]]
      /\ req' = [q \in Requests |-> IF q = r THEN S!IdleRequest
                                    ELSE IF Issues(q) THEN Mark(req[q])
                                    ELSE req[q]]
      /\ UNCHANGED <<challenges, drawn, proven, clobbered>>
  BY DEF S!ReplacePassword, Live
<1>2. /\ token \in Seq(S!TokenRow) /\ n \in Nat /\ DOMAIN token = 1 .. n
      /\ account \in [{User} -> S!AccountRow] /\ account[User] \in S!AccountRow
      /\ \A k \in 1 .. n : token[k] \in S!TokenRow
      /\ \A q \in Requests : req[q] \in S!RequestState
  BY DEF S!SessionsTypeOK
<1>3. new \in Nat
  BY <1>2 DEF S!AccountRow
<1>4. account' \in [{User} -> S!AccountRow]
  <2> DEFINE a == [account[User] EXCEPT !.password = new]
  <2>1. a \in S!AccountRow
    BY <1>2, <1>3 DEF S!AccountRow
  <2>2. account' = [account EXCEPT ![User] = a]
    BY <1>1
  <2> HIDE DEF a
  <2> QED
    BY <1>2, <2>1, <2>2
<1> HIDE DEF new
<1>5. ASSUME NEW x \in S!TokenRow
      PROVE  Mark(x) \in S!TokenRow /\ Mark(x).status = x.status
  <2>1. [x.session EXCEPT !.escaped = new] \in S!Session
    BY <1>3 DEF S!TokenRow, S!Session
  <2>2. Mark(x) = [x EXCEPT !.session = [x.session EXCEPT !.escaped = new]]
    OBVIOUS
  <2> QED
    BY <2>1, <2>2 DEF S!TokenRow
<1>6. ASSUME NEW x \in S!RequestState
      PROVE  Mark(x) \in S!RequestState /\ Alike(x, Mark(x))
  <2>1. [x.session EXCEPT !.escaped = new] \in S!Session
    BY <1>3 DEF S!RequestState, S!Session
  <2>2. Mark(x) = [x EXCEPT !.session = [x.session EXCEPT !.escaped = new]]
    OBVIOUS
  <2> QED
    BY <2>1, <2>2 DEF S!RequestState, Alike
<1>7. /\ revoked \in Seq(S!TokenRow) /\ Len(revoked) = n
      /\ \A k \in 1 .. n : /\ revoked[k] \in S!TokenRow
                           /\ k \in req[r].live => revoked[k].status = "revoked"
  BY <1>2, RevokeType
<1> HIDE DEF Mark, revoked
<1>8. /\ DOMAIN token' = 1 .. n
      /\ \A k \in 1 .. n :
           token'[k] = IF late(k) THEN Mark(token[k]) ELSE revoked[k]
  BY <1>1, <1>2
<1>9. token' \in Seq(S!TokenRow)
  <2>1. token' \in [1 .. n -> S!TokenRow]
    BY <1>1, <1>2, <1>5, <1>7
  <2> QED
    BY <1>2, <2>1, SeqDef
<1>10. /\ req'[r] = S!IdleRequest
       /\ \A q \in Requests \ {r} :
            req'[q] = IF Issues(q) THEN Mark(req[q]) ELSE req[q]
  BY <1>1
<1>11. \A q \in Requests \ {r} :
         req'[q] \in S!RequestState /\ Alike(req[q], req'[q])
  BY <1>2, <1>6, <1>10 DEF Alike
<1>12. req' \in [Requests -> S!RequestState]
  <2>1. DOMAIN req' = Requests /\ req' = [q \in Requests |-> req'[q]]
    BY <1>1
  <2> QED
    BY <1>10, <1>11, <2>1, IdleType
<1>13. S!SessionsTypeOK'
  BY <1>1, <1>4, <1>9, <1>12 DEF S!SessionsTypeOK
<1>14. ASSUME req[r].live = Live, req[r].seen = n PROVE Live' = {}
  <2>1. ASSUME NEW k \in 1 .. n PROVE token'[k].status = "revoked" \/ k \notin Live
    BY <1>2, <1>7, <1>8, <1>14
  <2>2. ASSUME NEW k \in 1 .. n, k \notin Live PROVE token'[k].status = "revoked"
    <3>1. token'[k] = revoked[k] /\ token[k].status = "revoked"
      BY <1>2, <1>8, <2>2 DEF Live, S!LiveTokens, S!IsRevoked, S!TokenRow
    <3>2. revoked[k].status = "revoked"
      BY <1>2, <3>1, RevokeType DEF revoked
    <3> QED
      BY <3>1, <3>2
  <2> QED
    BY <1>8, <2>1, <2>2 DEF Live, S!LiveTokens, S!IsRevoked
<1> QED
  BY <1>2, <1>8, <1>10, <1>11, <1>13, <1>14, IdleType

-----------------------------------------------------------------------------
(* The parts of a step *)

\* A request that neither the browser nor the server touches corresponds
\* as before, and so does one whose page is gone.
LEMMA StillCorresponds ==
  ASSUME NEW q, Corresponds(q), http'[q].pc = http[q].pc,
         http'[q].by = http[q].by, http'[q].cookie = http[q].cookie,
         Alike(req[q], req'[q])
  PROVE  Corresponds(q)'
BY DEF Corresponds, Is, Refreshes, SetsPassword, Alike

\* A tab sends request r.
LEMMA SendStep ==
  ASSUME BInv, NEW r \in Requests, NEW t \in Tabs,
         NEW by \in {"bootstrap", "call", "login", "logout", "change", "reset"},
         Is(r, "none"), http' \in [Requests -> Call],
         http'[r] = [pc |-> "sent", by |-> by, tab |-> t, cookie |-> cookie,
                     answer |-> 0],
         \A q \in Requests \ {r} :
           /\ http'[q].pc = http[q].pc /\ http'[q].by = http[q].by
           /\ http'[q].cookie = http[q].cookie
           /\ http'[q].answer = http[q].answer,
         status' \in [Tabs -> {"loading", "authenticated", "unauthenticated"}],
         disturbed' \in BOOLEAN,
         ~disturbed' =>
           /\ UnderWay = {}
           /\ IF by = "login" THEN Live = {} ELSE ~disturbed,
         UNCHANGED <<cookie, changed, server>>
  PROVE  BInv'
<1>4. /\ UNCHANGED <<account, token, challenges, drawn, proven, clobbered, req>>
      /\ Live' = Live
  BY DEF server, Live, S!LiveTokens, S!IsRevoked
<1>1. BrowserTypeOK'
  <2>1. \A q \in Requests :
          {http'[q].cookie, http'[q].answer} \ {0} \subseteq DOMAIN token'
    BY <1>4 DEF BInv, BrowserTypeOK
  <2>2. S!SessionsTypeOK'
    BY <1>4 DEF BInv, BrowserTypeOK, S!SessionsTypeOK
  <2> QED
    BY <1>4, <2>1, <2>2 DEF BInv, BrowserTypeOK
<1>2. ASSUME NEW q \in Requests PROVE Corresponds(q)'
  <2>1. CASE q = r
    BY <1>4, <2>1 DEF BInv, Corresponds, Is
  <2>2. CASE q # r
    BY <1>4, <2>2, StillCorresponds DEF BInv, Alike
  <2> QED
    BY <2>1, <2>2
<1>3. ASSUME ~disturbed' PROVE Undisturbed'
  <2>1. UnderWay' = {r}
    BY <1>3 DEF UnderWay, Is
  <2>2. \A k \in Live : S!IsValid(k)
    BY <1>3 DEF BInv, Undisturbed
  <2>3. \A k \in Live' : S!IsValid(k)'
    BY <1>4, <2>2 DEF S!IsValid
  <2>4. by # "login" => InStep
    BY <1>3 DEF BInv, Undisturbed
  <2>5. OneHolds(r)'
    BY <1>3, <1>4, <2>4 DEF OneHolds, InStep, Is
  <2> QED
    BY <2>1, <2>3, <2>5 DEF Undisturbed
<1> QED
  BY <1>1, <1>2, <1>3 DEF BInv

\* The server takes a step of request r, and may answer it.
LEMMA ServerStep ==
  ASSUME BInv, NEW r \in Requests, ~Is(r, "none"),
         NEW pc \in {"served", "ok", "refused"},
         NEW answer \in {0} \cup DOMAIN token',
         http' = [http EXCEPT ![r].pc = pc, ![r].answer = answer],
         S!SessionsTypeOK', DOMAIN token \subseteq DOMAIN token',
         Corresponds(r)',
         \A q \in Requests \ {r} : Alike(req[q], req'[q]),
         ~disturbed => OneHolds(r)' /\ (\A k \in Live' : S!IsValid(k)'),
         changed' \in BOOLEAN, UNCHANGED <<cookie, status, disturbed>>
  PROVE  BInv'
<1>5. http \in [Requests -> Call]
  BY DEF BInv, BrowserTypeOK
<1>1. /\ http' \in [Requests -> Call]
      /\ http'[r].cookie = http[r].cookie /\ http'[r].by = http[r].by
      /\ http'[r].answer = answer /\ http'[r].pc = pc
      /\ \A q \in Requests \ {r} : http'[q] = http[q]
  <2>1. answer \in Nat
    BY DEF S!SessionsTypeOK
  <2>2. [http[r] EXCEPT !.pc = pc, !.answer = answer] \in Call
    BY <1>5, <2>1 DEF Call
  <2>3. http' = [http EXCEPT ![r] = [http[r] EXCEPT !.pc = pc, !.answer = answer]]
    BY <1>5
  <2>4. /\ http' \in [Requests -> Call]
        /\ http'[r] = [http[r] EXCEPT !.pc = pc, !.answer = answer]
        /\ \A q \in Requests \ {r} : http'[q] = http[q]
    BY ONLY <1>5, <2>2, <2>3, r \in Requests
  <2> QED
    BY ONLY <1>5, <2>4, r \in Requests DEF Call
<1>2. BrowserTypeOK'
  <2>1. ASSUME NEW q \in Requests
        PROVE  {http'[q].cookie, http'[q].answer} \ {0} \subseteq DOMAIN token'
    BY <1>1 DEF BInv, BrowserTypeOK
  <2>2. cookie' \in {0} \cup DOMAIN token'
    BY DEF BInv, BrowserTypeOK
  <2> QED
    BY <1>1, <2>1, <2>2 DEF BInv, BrowserTypeOK
<1>3. ASSUME NEW q \in Requests PROVE Corresponds(q)'
  <2>1. CASE q # r
    BY <1>1, <2>1, StillCorresponds DEF BInv
  <2> QED
    BY <2>1
<1>4. ASSUME ~disturbed' PROVE Undisturbed'
  <2>1. UnderWay' = UnderWay /\ r \in UnderWay
    BY <1>1 DEF UnderWay, Is
  <2>2. UnderWay' = {r}
    BY <1>4, <2>1 DEF BInv, Undisturbed
  <2> QED
    BY <1>4, <2>2 DEF Undisturbed
<1> QED
  BY <1>2, <1>3, <1>4 DEF BInv

\* Request r is over: its outcome is taken, or it is lost.
LEMMA EndStep ==
  ASSUME BInv, NEW r \in Requests, http' = [http EXCEPT ![r] = NoCall],
         cookie' \in {0} \cup DOMAIN token,
         status' \in [Tabs -> {"loading", "authenticated", "unauthenticated"}],
         disturbed' \in BOOLEAN, S!SessionsTypeOK', req'[r].pc = "idle",
         \A q \in Requests \ {r} : Alike(req[q], req'[q]),
         UNCHANGED <<token, changed>>,
         ~disturbed' =>
           /\ ~disturbed /\ ~Is(r, "none")
           /\ Live = IF changed THEN {} ELSE {cookie'} \ {0}
  PROVE  BInv'
<1>5. http \in [Requests -> Call] /\ Live' = Live
  BY DEF BInv, BrowserTypeOK, Live, S!LiveTokens, S!IsRevoked
<1>1. /\ http' \in [Requests -> Call] /\ http'[r] = NoCall
      /\ \A q \in Requests \ {r} : http'[q] = http[q]
  BY <1>5 DEF Call, NoCall
<1>2. BrowserTypeOK'
  <2>1. ASSUME NEW q \in Requests
        PROVE  {http'[q].cookie, http'[q].answer} \ {0} \subseteq DOMAIN token'
    BY <1>1 DEF BInv, BrowserTypeOK, NoCall
  <2> QED
    BY <1>1, <2>1 DEF BInv, BrowserTypeOK
<1>3. ASSUME NEW q \in Requests PROVE Corresponds(q)'
  <2>1. CASE q # r
    BY <1>1, <2>1, StillCorresponds DEF BInv
  <2>2. CASE q = r
    BY <1>1, <2>2 DEF Corresponds, Is, NoCall
  <2> QED
    BY <2>1, <2>2
<1>4. ASSUME ~disturbed' PROVE Undisturbed'
  <2>1. r \in UnderWay
    BY <1>4 DEF UnderWay
  <2>2. UnderWay' = {}
    BY <1>1, <1>4, <2>1 DEF BInv, Undisturbed, UnderWay, Is, NoCall
  <2>3. \A k \in Live' : S!IsValid(k)'
    BY <1>5, <1>4 DEF BInv, Undisturbed, S!IsValid
  <2> QED
    BY <1>5, <1>4, <2>2, <2>3 DEF Undisturbed, InStep
<1> QED
  BY <1>2, <1>3, <1>4 DEF BInv

-----------------------------------------------------------------------------
(* What a tab does *)

\* A page that is loaded again forgets what it had asked.
LEMMA LoadStep ==
  ASSUME BInv, NEW t \in Tabs, Load(t)
  PROVE  BInv'
<1> DEFINE new == [pc |-> "sent", by |-> "bootstrap", tab |-> t,
                   cookie |-> cookie, answer |-> 0]
<1>1. PICK r \in Requests :
        /\ Is(r, "none")
        /\ http' = [q \in Requests |->
             IF q = r THEN new
             ELSE IF http[q].tab = t THEN [http[q] EXCEPT !.tab = NoTab]
             ELSE http[q]]
        /\ disturbed' = (disturbed \/ Disturbs(t, "bootstrap"))
  BY DEF Load
<1>2. /\ http \in [Requests -> Call] /\ cookie \in Nat
      /\ disturbed \in BOOLEAN
  BY DEF BInv, BrowserTypeOK, S!SessionsTypeOK
<1>3. new \in Call
  BY <1>2 DEF Call
<1>4. \A q \in Requests : [http[q] EXCEPT !.tab = NoTab] \in Call
  BY <1>2 DEF Call
<1>5. http' \in [Requests -> Call] /\ http'[r] = new
  BY <1>1, <1>2, <1>3, <1>4
<1>6. \A q \in Requests \ {r} :
        /\ http'[q].pc = http[q].pc /\ http'[q].by = http[q].by
        /\ http'[q].cookie = http[q].cookie
        /\ http'[q].answer = http[q].answer
  BY <1>1, <1>2 DEF Call
<1>7. status' \in [Tabs -> {"loading", "authenticated", "unauthenticated"}]
  BY DEF Load, SetStatus, BInv, BrowserTypeOK
<1>8. disturbed' \in BOOLEAN /\ (~disturbed' => UnderWay = {} /\ ~disturbed)
  BY <1>1, <1>2 DEF Disturbs
<1>9. UNCHANGED <<cookie, changed, server>>
  BY DEF Load
<1> QED
  BY <1>1, <1>5, <1>6, <1>7, <1>8, <1>9, SendStep

\* A call, a logout or a new password; of the rejected calls of a page only
\* the first refreshes.
LEMMA SendByStep ==
  ASSUME BInv, NEW t \in Tabs, NEW by \in {"call", "logout", "change", "reset"},
         NEW r \in Requests, Send(r, t, by),
         by = "call" => RefreshPromise(t) = {},
         UNCHANGED <<cookie, status, changed, server>>
  PROVE  BInv'
<1>1. /\ http \in [Requests -> Call] /\ cookie \in Nat
      /\ disturbed \in BOOLEAN
  BY DEF BInv, BrowserTypeOK, S!SessionsTypeOK
<1> DEFINE new == [pc |-> "sent", by |-> by, tab |-> t, cookie |-> cookie,
                   answer |-> 0]
<1>2. Is(r, "none") /\ http' = [http EXCEPT ![r] = new]
  BY DEF Send
<1>3. new \in Call
  BY <1>1 DEF Call
<1> HIDE DEF new
<1>4. /\ http' \in [Requests -> Call] /\ http'[r] = new
      /\ \A q \in Requests \ {r} : http'[q] = http[q]
  BY <1>1, <1>2, <1>3
<1>5. Disturbs(t, by) <=> UnderWay # {}
  BY DEF Disturbs, RefreshPromise
<1>6. disturbed' \in BOOLEAN /\ (~disturbed' => UnderWay = {} /\ ~disturbed)
  BY <1>1, <1>5 DEF Send
<1>7. status' \in [Tabs -> {"loading", "authenticated", "unauthenticated"}]
  BY DEF BInv, BrowserTypeOK
<1> QED
  BY <1>2, <1>4, <1>6, <1>7, SendStep DEF new

\* A login that finds nothing left over starts from a clean slate.
LEMMA LoginStep ==
  ASSUME BInv, NEW t \in Tabs, Login(t)
  PROVE  BInv'
<1> DEFINE new == [pc |-> "sent", by |-> "login", tab |-> t,
                   cookie |-> cookie, answer |-> 0]
<1>1. PICK r \in Requests :
        /\ Is(r, "none") /\ http' = [http EXCEPT ![r] = new]
        /\ disturbed' = (UnderWay # {} \/ Live # {})
  BY DEF Login
<1>2. http \in [Requests -> Call] /\ cookie \in Nat
  BY DEF BInv, BrowserTypeOK, S!SessionsTypeOK
<1>3. new \in Call
  BY <1>2 DEF Call
<1>4. /\ http' \in [Requests -> Call] /\ http'[r] = new
      /\ \A q \in Requests \ {r} : http'[q] = http[q]
  BY <1>1, <1>2, <1>3
<1>5. disturbed' \in BOOLEAN /\ (~disturbed' => UnderWay = {} /\ Live = {})
  BY <1>1
<1>6. /\ UNCHANGED <<cookie, status, changed, server>>
      /\ status' \in [Tabs -> {"loading", "authenticated", "unauthenticated"}]
  BY DEF Login, BInv, BrowserTypeOK
<1> QED
  BY <1>1, <1>4, <1>5, <1>6, SendStep

-----------------------------------------------------------------------------
(* What the server does *)

\* A handler that begins has a request of the browser's to work on.
LEMMA BeginStep ==
  ASSUME BInv, NEW r \in Requests, Is(r, "sent"),
         NEW new \in S!RequestState, S!Begin(r, new), new.user = User,
         UNCHANGED <<account, token, challenges, drawn, proven, clobbered>>,
         Reply(r, "served", 0),
         \/ http[r].by = "login" /\ new.pc = "issue"
         \/ /\ Refreshes(r) /\ new.pc \in {"rotate", "readLive"}
            /\ new.op = "refresh"
            /\ new.token = http[r].cookie /\ http[r].cookie # 0
         \/ /\ http[r].by = "logout" /\ new.pc = "logout"
            /\ new.token = http[r].cookie /\ http[r].cookie # 0
         \/ /\ SetsPassword(r) /\ new.pc = "readLive"
            /\ new.op \in {"change", "reset"},
         ~disturbed =>
           /\ new.pc \in {"rotate", "logout"} => ~changed
           /\ new.pc = "readLive" => changed \/ SetsPassword(r),
         UNCHANGED <<cookie, status, disturbed, changed>>
  PROVE  BInv'
<1>1. /\ http \in [Requests -> Call] /\ req \in [Requests -> S!RequestState]
      /\ S!SessionsTypeOK
  BY DEF BInv, BrowserTypeOK, S!SessionsTypeOK
<1>2. /\ req' \in [Requests -> S!RequestState]
      /\ req'[r] = new
      /\ \A q \in Requests \ {r} : Alike(req[q], req'[q])
  BY <1>1, BeginType
<1>3. http' = [http EXCEPT ![r].pc = "served", ![r].answer = 0]
  BY DEF Reply
<1>4. /\ http'[r].pc = "served" /\ http'[r].by = http[r].by
      /\ http'[r].cookie = http[r].cookie
  BY <1>1, <1>3 DEF Call
<1>5. S!SessionsTypeOK'
  BY <1>1, <1>2 DEF S!SessionsTypeOK
<1>6. Corresponds(r)'
  BY <1>2, <1>4 DEF Corresponds, Is, Refreshes, SetsPassword
<1>7. Live' = Live /\ \A k : S!IsValid(k)' = S!IsValid(k)
  BY DEF Live, S!LiveTokens, S!IsRevoked, S!IsValid
<1>8. ASSUME ~disturbed
      PROVE  OneHolds(r)' /\ \A k \in Live' : S!IsValid(k)'
  <2>1. OneHolds(r) /\ \A k \in Live : S!IsValid(k)
    BY <1>8 DEF BInv, Undisturbed, UnderWay, Is
  <2>2. OneHolds(r)'
    <3>1. InStep' = InStep /\ SetsPassword(r)' = SetsPassword(r)
      BY <1>4, <1>7 DEF InStep, SetsPassword
    <3>2. new.pc # "revoke"
      BY DEF Refreshes
    <3> QED
      BY <1>2, <1>4, <1>7, <1>8, <2>1, <3>1, <3>2 DEF OneHolds, Is
  <2> QED
    BY <1>7, <2>1, <2>2
<1>9. /\ ~Is(r, "none") /\ DOMAIN token \subseteq DOMAIN token'
      /\ changed' \in BOOLEAN
  BY DEF Is, BInv, BrowserTypeOK
<1> QED
  BY <1>2, <1>3, <1>5, <1>6, <1>8, <1>9, ServerStep

\* An answer that the server gives without a look at the database.
LEMMA ReplyStep ==
  ASSUME BInv, NEW r \in Requests, Is(r, "sent"),
         NEW pc \in {"ok", "refused"}, Reply(r, pc, 0),
         ~disturbed =>
           /\ InStep
           /\ pc = "ok" => Live = {} /\ ~SetsPassword(r)
           /\ pc = "refused" => http[r].cookie = 0,
         UNCHANGED <<cookie, status, disturbed, changed, server>>
  PROVE  BInv'
<1>1. /\ http \in [Requests -> Call] /\ S!SessionsTypeOK
      /\ UNCHANGED <<account, token, challenges, drawn, proven, clobbered, req>>
  BY DEF BInv, BrowserTypeOK, server
<1>2. http' = [http EXCEPT ![r].pc = pc, ![r].answer = 0]
  BY DEF Reply
<1>3. /\ http'[r].pc = pc /\ http'[r].by = http[r].by
      /\ http'[r].cookie = http[r].cookie /\ http'[r].answer = 0
  BY <1>1, <1>2 DEF Call
<1>4. S!SessionsTypeOK' /\ \A q \in Requests : Alike(req[q], req'[q])
  BY <1>1 DEF S!SessionsTypeOK, Alike
<1>5. Corresponds(r)'
  BY <1>1, <1>3 DEF BInv, Corresponds, Is
<1>6. Live' = Live /\ \A k : S!IsValid(k)' = S!IsValid(k)
  BY <1>1 DEF Live, S!LiveTokens, S!IsRevoked, S!IsValid
<1>7. ASSUME ~disturbed
      PROVE  OneHolds(r)' /\ \A k \in Live' : S!IsValid(k)'
  <2>1. OneHolds(r)'
    BY <1>3, <1>6, <1>7 DEF OneHolds, Is, InStep, SetsPassword
  <2> QED
    BY <1>6, <1>7, <2>1 DEF BInv, Undisturbed
<1>8. /\ ~Is(r, "none") /\ DOMAIN token \subseteq DOMAIN token'
      /\ changed' \in BOOLEAN
  BY <1>1 DEF Is, BInv, BrowserTypeOK
<1> QED
  BY <1>2, <1>4, <1>5, <1>7, <1>8, ServerStep

LEMMA ServeStep ==
  ASSUME BInv, NEW r \in Requests, Serve(r)
  PROVE  BInv'
<1> DEFINE k == http[r].cookie
<1>1. /\ S!SessionsTypeOK /\ http \in [Requests -> Call] /\ Is(r, "sent")
      /\ UNCHANGED <<cookie, status, disturbed, changed>>
      /\ k \in {0} \cup DOMAIN token
  BY DEF Serve, BInv, BrowserTypeOK
<1>3. k # 0 => k \in Nat /\ token[k] \in S!TokenRow /\ token[k].owner = User
  <2>1. token \in Seq(S!TokenRow)
    BY <1>1 DEF S!SessionsTypeOK
  <2>2. k # 0 => k \in Nat /\ token[k] \in S!TokenRow
    BY <1>1, <2>1
  <2> QED
    BY <2>2 DEF S!TokenRow
<1>2. ~disturbed =>
        /\ OneHolds(r)
        /\ http[r].by # "login" => k = cookie /\ InStep
        /\ http[r].by # "login" /\ k # 0 => (S!IsValid(k) <=> ~changed)
        /\ \A i \in Live : S!IsValid(i)
  <2>1. ASSUME ~disturbed
        PROVE  /\ OneHolds(r) /\ \A i \in Live : S!IsValid(i)
               /\ http[r].by # "login" => k = cookie /\ InStep
    BY <1>1, <2>1 DEF BInv, Undisturbed, UnderWay, OneHolds, Is
  <2>2. k # 0 /\ S!IsValid(k) => k \in Live
    BY <1>1, <1>3 DEF S!IsValid, Live, S!LiveTokens, S!IsRevoked
  <2> QED
    BY <2>1, <2>2 DEF InStep
<1>4. CASE http[r].by = "login" /\ S!Login(r, User) /\ Reply(r, "served", 0)
  <2> DEFINE new == [S!IdleRequest EXCEPT
                       !.op = "login", !.pc = "issue", !.user = User,
                       !.session.password = account[User].password]
  <2>1. account[User].password \in Nat
    BY <1>1 DEF S!SessionsTypeOK, S!AccountRow
  <2>2. new \in S!RequestState /\ new.pc = "issue" /\ new.user = User
    BY <2>1 DEF S!IdleRequest, S!RequestState, S!NoSession, S!Session
  <2>3. /\ S!Begin(r, new)
        /\ UNCHANGED <<account, token, challenges, drawn, proven, clobbered>>
    BY <1>4 DEF S!Login
  <2> HIDE DEF new
  <2> QED
    BY <1>1, <1>4, <2>2, <2>3, BeginStep
<1>5. CASE Refreshes(r) /\ k # 0 /\ S!Refresh(r, k) /\ Reply(r, "served", 0)
  <2> DEFINE at == IF S!IsValid(k) THEN "rotate" ELSE "readLive"
             new == [S!IdleRequest EXCEPT
                       !.op = "refresh", !.user = token[k].owner, !.token = k,
                       !.session = token[k].session, !.pc = at]
  <2>1. token[k].session \in S!Session
    BY <1>3, <1>5 DEF S!TokenRow
  <2>2. /\ at \in {"rotate", "readLive"}
        /\ ~disturbed => IF at = "rotate" THEN ~changed ELSE changed
    BY <1>2, <1>5 DEF Refreshes
  <2>3. /\ S!Begin(r, new)
        /\ UNCHANGED <<account, token, challenges, drawn, proven, clobbered>>
    BY <1>5 DEF S!Refresh
  <2> HIDE DEF at
  <2>4. /\ new \in S!RequestState /\ new.pc = at /\ new.user = User
        /\ new.token = k /\ new.op = "refresh"
    BY <1>3, <1>5, <2>1, <2>2
    DEF S!IdleRequest, S!RequestState, S!Revokers, S!NoSession, S!Session
  <2> HIDE DEF new
  <2> QED
    BY <1>1, <1>5, <2>2, <2>3, <2>4, BeginStep
<1>6. CASE /\ http[r].by = "logout" /\ k # 0 /\ S!Logout(r, k)
           /\ Reply(r, "served", 0)
  <2> DEFINE new == [S!IdleRequest EXCEPT
                       !.op = "logout", !.pc = "logout",
                       !.user = token[k].owner, !.token = k]
  <2>1. /\ new \in S!RequestState /\ new.pc = "logout" /\ new.user = User
        /\ new.token = k
    BY <1>3, <1>6
    DEF S!IdleRequest, S!RequestState, S!Revokers, S!NoSession, S!Session
  <2>2. /\ S!Begin(r, new)
        /\ UNCHANGED <<account, token, challenges, drawn, proven, clobbered>>
    BY <1>6 DEF S!Logout
  <2>3. ~disturbed => ~changed
    BY <1>2, <1>6 DEF S!Logout
  <2> HIDE DEF new
  <2> QED
    BY <1>1, <1>6, <2>1, <2>2, <2>3, BeginStep
<1>7. CASE /\ Refreshes(r) /\ k = 0 /\ Reply(r, "refused", 0)
           /\ UNCHANGED server
  BY <1>1, <1>2, <1>7, ReplyStep DEF Refreshes
<1>8. CASE /\ http[r].by = "logout" /\ (k # 0 => ~S!IsValid(k))
           /\ Reply(r, "ok", 0) /\ UNCHANGED server
  <2>1. ~disturbed => InStep /\ Live = {}
    BY <1>2, <1>8 DEF InStep
  <2> QED
    BY <1>1, <1>8, <2>1, ReplyStep DEF SetsPassword
<1>9. CASE /\ http[r].by = "change" /\ S!ChangePassword(r, User)
           /\ Reply(r, "served", 0)
  <2> DEFINE new == [S!IdleRequest EXCEPT
                       !.op = "change", !.pc = "readLive", !.user = User]
  <2>1. /\ new \in S!RequestState /\ new.pc = "readLive" /\ new.user = User
        /\ new.op = "change"
    BY DEF S!IdleRequest, S!RequestState, S!Revokers, S!NoSession, S!Session
  <2>2. /\ S!Begin(r, new)
        /\ UNCHANGED <<account, token, challenges, drawn, proven, clobbered>>
    BY <1>9 DEF S!ChangePassword
  <2> HIDE DEF new
  <2> QED
    BY <1>1, <1>9, <2>1, <2>2, BeginStep DEF SetsPassword
<1>10. CASE /\ http[r].by = "reset" /\ S!ConfirmPasswordReset(r, User)
            /\ Reply(r, "served", 0)
  <2> DEFINE new == [S!IdleRequest EXCEPT
                       !.op = "reset", !.pc = "readLive", !.user = User,
                       !.session.password = account[User].password]
  <2>0. account[User].password \in Nat
    BY <1>1 DEF S!SessionsTypeOK, S!AccountRow
  <2>1. /\ new \in S!RequestState /\ new.pc = "readLive" /\ new.user = User
        /\ new.op = "reset"
    BY <2>0 DEF S!IdleRequest, S!RequestState, S!Revokers, S!NoSession, S!Session
  <2>2. /\ S!Begin(r, new)
        /\ UNCHANGED <<account, token, challenges, drawn, proven, clobbered>>
    BY <1>10 DEF S!ConfirmPasswordReset
  <2> HIDE DEF new
  <2> QED
    BY <1>1, <1>10, <2>1, <2>2, BeginStep DEF SetsPassword
<1> QED
  BY <1>4, <1>5, <1>6, <1>7, <1>8, <1>9, <1>10 DEF Serve

\* The handler's next step.
LEMMA RespondStep ==
  ASSUME BInv, NEW r \in Requests, Respond(r)
  PROVE  BInv'
<1>1. /\ S!SessionsTypeOK /\ http \in [Requests -> Call] /\ Is(r, "served")
      /\ UNCHANGED <<cookie, status, disturbed>>
      /\ token \in Seq(S!TokenRow) /\ account \in [{User} -> S!AccountRow]
      /\ req \in [Requests -> S!RequestState]
      /\ http[r].cookie \in {0} \cup DOMAIN token
      /\ http[r].answer \in {0} \cup DOMAIN token
      /\ ~Is(r, "none")
  BY DEF Respond, BInv, BrowserTypeOK, S!SessionsTypeOK, Is
<1>2. Corresponds(r)
  BY DEF BInv
<1>3. ~disturbed =>
        /\ OneHolds(r)
        /\ req[r].pc \in {"rotate", "logout"} => ~changed
        /\ IF http[r].by = "login" THEN Live = {}
           ELSE http[r].cookie = cookie /\ InStep
        /\ \A i \in Live : S!IsValid(i)
  BY <1>1 DEF BInv, Undisturbed, UnderWay, OneHolds, Is
<1>4. /\ req[r] \in S!RequestState /\ req[r].session \in S!Session
      /\ req[r].user = User
  BY <1>1, <1>2 DEF Corresponds, S!RequestState
<1>10. /\ Len(token) \in Nat /\ DOMAIN token = 1 .. Len(token)
      /\ \A k \in DOMAIN token : token[k].owner = User
  <2>1. \A k \in DOMAIN token : token[k] \in S!TokenRow
    BY <1>1
  <2> QED
    BY <1>1, <2>1 DEF S!TokenRow
<1>11. \A pc, answer :
        Reply(r, pc, answer) =>
          /\ http' = [http EXCEPT ![r].pc = pc, ![r].answer = answer]
          /\ http'[r].pc = pc /\ http'[r].answer = answer
          /\ http'[r].by = http[r].by /\ http'[r].cookie = http[r].cookie
  BY <1>1 DEF Reply, Call
<1>12. changed \in BOOLEAN
  BY DEF BInv, BrowserTypeOK
<1>5. CASE /\ S!IssueTokenPair(r) /\ Reply(r, "ok", Len(token) + 1)
           /\ changed' = FALSE
  <2>10. /\ http' = [http EXCEPT ![r].pc = "ok", ![r].answer = Len(token) + 1]
        /\ http'[r].pc = "ok" /\ http'[r].answer = Len(token) + 1
        /\ http'[r].by = http[r].by /\ http'[r].cookie = http[r].cookie
    BY <1>5, <1>11
  <2> DEFINE row == [owner |-> req[r].user, status |-> "valid",
                     session |-> [req[r].session EXCEPT !.login = Len(token) + 1]]
  <2>1. row \in S!TokenRow /\ row.owner = User /\ row.status = "valid"
    BY <1>4, <1>10 DEF S!TokenRow, S!Session
  <2>2. /\ req[r].pc = "issue" /\ token' = Append(token, row) /\ S!End(r)
        /\ UNCHANGED <<account, challenges, drawn, proven, clobbered>>
    BY <1>5 DEF S!IssueTokenPair, S!Waits
  <2> HIDE DEF row
  <2>3. /\ token' \in Seq(S!TokenRow) /\ DOMAIN token' = 1 .. Len(token) + 1
        /\ token'[Len(token) + 1] = row
        /\ \A k \in DOMAIN token : token'[k] = token[k]
    BY <1>1, <1>10, <2>1, <2>2
  <2>4. /\ req' \in [Requests -> S!RequestState] /\ req'[r].pc = "idle"
        /\ \A q \in Requests \ {r} : Alike(req[q], req'[q])
    BY <1>1, <2>2, EndType
  <2>5. S!SessionsTypeOK'
    BY <1>1, <2>2, <2>3, <2>4 DEF S!SessionsTypeOK
  <2>6. Corresponds(r)'
    BY <2>10, <2>4 DEF Corresponds, Is
  <2>7. ASSUME ~disturbed
        PROVE  OneHolds(r)' /\ \A k \in Live' : S!IsValid(k)'
    <3>1. Live = {} /\ http[r].by = "login"
      BY <1>2, <1>3, <2>2, <2>7, <1>1 DEF Corresponds
    <3>2. Live' = {Len(token) + 1}
      BY <1>10, <2>1, <2>3, <3>1 DEF Live, S!LiveTokens, S!IsRevoked
    <3>4. {Len(token) + 1} = {Len(token) + 1} \ {0}
      BY <1>10
    <3>3. OneHolds(r)'
      BY <1>5, <2>10, <3>1, <3>2, <3>4 DEF OneHolds, Is, SetsPassword
    <3> QED
      BY <2>1, <2>3, <3>2, <3>3 DEF S!IsValid
  <2>8. Len(token) + 1 \in DOMAIN token' /\ DOMAIN token \subseteq DOMAIN token'
    BY <1>10, <2>3
  <2> QED
    BY <1>1, <1>5, <2>10, <2>4, <2>5, <2>6, <2>7, <2>8, ServerStep
<1>6. CASE /\ S!Rotate(r) /\ Reply(r, "ok", Len(token) + 1)
           /\ UNCHANGED changed
  <2>10. /\ http' = [http EXCEPT ![r].pc = "ok", ![r].answer = Len(token) + 1]
        /\ http'[r].pc = "ok" /\ http'[r].answer = Len(token) + 1
        /\ http'[r].by = http[r].by /\ http'[r].cookie = http[r].cookie
    BY <1>6, <1>11
  <2> DEFINE row == [owner |-> req[r].user, status |-> "valid",
                     session |-> [req[r].session EXCEPT
                                    !.forked = @ \/ S!IsRevoked(req[r].token)]]
             kept == S!Revoke({req[r].token})
  <2>1. row \in S!TokenRow /\ row.owner = User /\ row.status = "valid"
    BY <1>4 DEF S!TokenRow, S!Session
  <2>2. /\ req[r].pc = "rotate" /\ token' = Append(kept, row) /\ S!End(r)
        /\ UNCHANGED <<account, challenges, drawn, proven, clobbered>>
    BY <1>6 DEF S!Rotate, S!Waits
  <2>11. /\ kept \in Seq(S!TokenRow) /\ Len(kept) = Len(token)
        /\ \A k \in DOMAIN token :
             /\ kept[k].owner = token[k].owner
             /\ kept[k].status =
                  IF k \in {req[r].token} THEN "revoked" ELSE token[k].status
    BY <1>1, RevokeType
  <2> HIDE DEF row, kept
  <2>3. /\ token' \in Seq(S!TokenRow) /\ DOMAIN token' = 1 .. Len(token) + 1
        /\ token'[Len(token) + 1] = row
        /\ \A k \in DOMAIN token : token'[k] = kept[k]
    BY <1>10, <2>1, <2>2, <2>11
  <2>4. /\ req' \in [Requests -> S!RequestState] /\ req'[r].pc = "idle"
        /\ \A q \in Requests \ {r} : Alike(req[q], req'[q])
    BY <1>1, <2>2, EndType
  <2>5. S!SessionsTypeOK'
    BY <1>1, <2>2, <2>3, <2>4 DEF S!SessionsTypeOK
  <2>6. Corresponds(r)'
    BY <2>10, <2>4 DEF Corresponds, Is
  <2>7. ASSUME ~disturbed
        PROVE  OneHolds(r)' /\ \A k \in Live' : S!IsValid(k)'
    <3>1. Live = {req[r].token} /\ ~changed /\ Refreshes(r)
      BY <1>1, <1>2, <1>3, <2>2, <2>7 DEF Corresponds, Refreshes, InStep
    <3>2. Live' = {Len(token) + 1}
      BY <1>10, <2>1, <2>3, <2>11, <3>1 DEF Live, S!LiveTokens, S!IsRevoked
    <3>4. {Len(token) + 1} = {Len(token) + 1} \ {0}
      BY <1>10
    <3>3. OneHolds(r)'
      BY <1>6, <2>10, <3>1, <3>2, <3>4
      DEF OneHolds, Is, Refreshes, SetsPassword
    <3> QED
      BY <2>1, <2>3, <3>2, <3>3 DEF S!IsValid
  <2>8. Len(token) + 1 \in DOMAIN token' /\ DOMAIN token \subseteq DOMAIN token'
    BY <1>10, <2>3
  <2> QED
    BY <1>1, <1>6, <1>12, <2>10, <2>4, <2>5, <2>6, <2>7, <2>8, ServerStep
<1>7. CASE S!RevokeOne(r) /\ Reply(r, "ok", 0) /\ UNCHANGED changed
  <2>10. /\ http' = [http EXCEPT ![r].pc = "ok", ![r].answer = 0]
        /\ http'[r].pc = "ok" /\ http'[r].answer = 0
        /\ http'[r].by = http[r].by /\ http'[r].cookie = http[r].cookie
    BY <1>7, <1>11
  <2>2. /\ req[r].pc = "logout" /\ token' = S!Revoke({req[r].token}) /\ S!End(r)
        /\ UNCHANGED <<account, challenges, drawn, proven, clobbered>>
    BY <1>7 DEF S!RevokeOne, S!Waits
  <2>3. /\ token' \in Seq(S!TokenRow) /\ Len(token') = Len(token)
        /\ \A k \in DOMAIN token :
             /\ token'[k].owner = token[k].owner
             /\ token'[k].status =
                  IF k \in {req[r].token} THEN "revoked" ELSE token[k].status
    BY <1>1, <2>2, RevokeType
  <2>12. DOMAIN token' = DOMAIN token
    BY <1>10, <2>3
  <2>4. /\ req' \in [Requests -> S!RequestState] /\ req'[r].pc = "idle"
        /\ \A q \in Requests \ {r} : Alike(req[q], req'[q])
    BY <1>1, <2>2, EndType
  <2>5. S!SessionsTypeOK'
    BY <1>1, <2>2, <2>3, <2>4 DEF S!SessionsTypeOK
  <2>6. Corresponds(r)'
    BY <2>10, <2>4 DEF Corresponds, Is
  <2>7. ASSUME ~disturbed
        PROVE  OneHolds(r)' /\ \A k \in Live' : S!IsValid(k)'
    <3>1. Live = {req[r].token} /\ http[r].by = "logout"
      BY <1>1, <1>2, <1>3, <2>2, <2>7 DEF Corresponds, InStep
    <3>2. Live' = {}
      BY <2>3, <2>12, <3>1 DEF Live, S!LiveTokens, S!IsRevoked
    <3>3. OneHolds(r)'
      BY <2>10, <3>1, <3>2 DEF OneHolds, Is, SetsPassword
    <3> QED
      BY <3>2, <3>3
  <2> QED
    BY <1>1, <1>7, <1>12, <2>10, <2>12, <2>4, <2>5, <2>6, <2>7, ServerStep
<1>8. CASE S!ReadLiveTokens(r) /\ UNCHANGED <<http, changed>>
  <2> DEFINE new == [req[r] EXCEPT !.pc = "revoke", !.seen = Len(token),
                                   !.live = Live]
  <2>1. /\ req[r].pc = "readLive" /\ req' = [req EXCEPT ![r] = new]
        /\ UNCHANGED <<account, token, challenges, drawn, proven, clobbered>>
    BY <1>1, <1>4, <1>8 DEF S!ReadLiveTokens, S!Waits, Live
  <2>2. Live \in SUBSET Nat
    BY <1>10 DEF Live, S!LiveTokens
  <2>3. /\ new \in S!RequestState /\ new.pc = "revoke" /\ new.user = User
        /\ new.token = req[r].token /\ new.op = req[r].op
        /\ new.live = Live /\ new.seen = Len(token)
    BY <1>4, <1>10, <2>2 DEF S!RequestState
  <2> HIDE DEF new
  <2>5. /\ req' \in [Requests -> S!RequestState] /\ req'[r] = new
        /\ \A q \in Requests \ {r} : Alike(req[q], req'[q])
    BY <1>1, <2>1, <2>3 DEF Alike
  <2>6. S!SessionsTypeOK'
    BY <1>1, <2>1, <2>5 DEF S!SessionsTypeOK
  <2>7. Corresponds(r)'
    BY <1>1, <1>2, <1>8, <2>1, <2>3, <2>5
    DEF Corresponds, Is, Refreshes, SetsPassword
  <2>8. http' = [http EXCEPT ![r].pc = "served", ![r].answer = http[r].answer]
    BY <1>1, <1>8 DEF Is, Call
  <2>9. ASSUME ~disturbed
        PROVE  OneHolds(r)' /\ \A k \in Live' : S!IsValid(k)'
    <3>1. Live' = Live /\ \A k : S!IsValid(k)' = S!IsValid(k)
      BY <2>1 DEF Live, S!LiveTokens, S!IsRevoked, S!IsValid
    <3>2. InStep' = InStep /\ SetsPassword(r)' = SetsPassword(r)
      BY <1>1, <1>8, <3>1 DEF InStep, SetsPassword
    <3>3. OneHolds(r)'
      BY <1>1, <1>3, <1>8, <2>1, <2>3, <2>5, <2>9, <3>1, <3>2 DEF OneHolds, Is
    <3> QED
      BY <1>3, <2>9, <3>1, <3>3
  <2> QED
    BY <1>1, <1>8, <1>12, <2>1, <2>5, <2>6, <2>7, <2>8, <2>9, ServerStep
<1>9. CASE S!RevokeAllForUser(r) /\ Reply(r, "refused", 0) /\ UNCHANGED changed
  <2>10. /\ http' = [http EXCEPT ![r].pc = "refused", ![r].answer = 0]
        /\ http'[r].pc = "refused" /\ http'[r].answer = 0
        /\ http'[r].by = http[r].by /\ http'[r].cookie = http[r].cookie
    BY <1>9, <1>11
  <2>1. /\ req[r].pc = "revoke" /\ req[r].op = "refresh"
        /\ token' = S!Revoke(req[r].live) /\ S!End(r)
        /\ UNCHANGED <<account, challenges, drawn, proven, clobbered>>
    BY <1>9 DEF S!RevokeAllForUser, S!Waits
  <2>2. /\ token' \in Seq(S!TokenRow) /\ Len(token') = Len(token)
        /\ \A k \in DOMAIN token :
             /\ token'[k].owner = token[k].owner
             /\ token'[k].status =
                  IF k \in req[r].live THEN "revoked" ELSE token[k].status
    BY <1>1, <2>1, RevokeType
  <2>3. DOMAIN token' = DOMAIN token
    BY <1>10, <2>2
  <2>5. /\ req' \in [Requests -> S!RequestState] /\ req'[r].pc = "idle"
        /\ \A q \in Requests \ {r} : Alike(req[q], req'[q])
    BY <1>1, <2>1, EndType
  <2>6. S!SessionsTypeOK'
    BY <1>1, <2>1, <2>2, <2>5 DEF S!SessionsTypeOK
  <2>7. Corresponds(r)'
    BY <2>10, <2>5 DEF Corresponds, Is
  <2>8. ASSUME ~disturbed
        PROVE  OneHolds(r)' /\ \A k \in Live' : S!IsValid(k)'
    <3>1. changed /\ Live = {}
      BY <1>1, <1>2, <1>3, <2>1, <2>8
      DEF Corresponds, OneHolds, Refreshes, SetsPassword, InStep, Is
    <3>2. Live' = {}
      BY <2>2, <2>3, <3>1 DEF Live, S!LiveTokens, S!IsRevoked
    <3> QED
      BY <1>9, <2>10, <3>1, <3>2 DEF OneHolds, Is, InStep
  <2> QED
    BY <1>1, <1>9, <1>12, <2>10, <2>3, <2>5, <2>6, <2>7, <2>8, ServerStep
<1>13. CASE S!ReplacePassword(r) /\ Reply(r, "ok", 0) /\ changed' = TRUE
  <2>1. /\ http' = [http EXCEPT ![r].pc = "ok", ![r].answer = 0]
        /\ http'[r].pc = "ok" /\ http'[r].by = http[r].by
    BY <1>13, <1>11
  <2>2. req[r].pc = "revoke" /\ req[r].op \in {"change", "reset"}
    BY <1>13 DEF S!ReplacePassword, S!Waits
  <2>3. /\ S!SessionsTypeOK' /\ DOMAIN token' = DOMAIN token
        /\ req'[r].pc = "idle"
        /\ \A q \in Requests \ {r} : Alike(req[q], req'[q])
        /\ req[r].live = Live /\ req[r].seen = Len(token) => Live' = {}
    BY <1>1, <1>4, <1>13, ReplaceType
  <2>4. Corresponds(r)'
    BY <2>1, <2>3 DEF Corresponds, Is
  <2>5. SetsPassword(r)
    BY <1>1, <1>2, <2>2 DEF Corresponds
  <2>6. ASSUME ~disturbed
        PROVE  OneHolds(r)' /\ \A k \in Live' : S!IsValid(k)'
    <3>1. Live' = {}
      BY <1>1, <1>3, <2>2, <2>3, <2>5, <2>6 DEF OneHolds
    <3> QED
      BY <1>13, <2>1, <2>5, <3>1 DEF OneHolds, Is, InStep, SetsPassword
  <2> QED
    BY <1>1, <1>13, <2>1, <2>3, <2>4, <2>6, ServerStep
<1> QED
  BY <1>5, <1>6, <1>7, <1>8, <1>9, <1>13 DEF Respond

-----------------------------------------------------------------------------
(* What comes back *)

\* A page ends up logged in or not.
LEMMA TakeType ==
  ASSUME BInv, NEW r \in Requests, NEW ok \in BOOLEAN, Take(r, ok)
  PROVE  status' \in [Tabs -> {"loading", "authenticated", "unauthenticated"}]
<1>1. status \in [Tabs -> {"loading", "authenticated", "unauthenticated"}]
  BY DEF BInv, BrowserTypeOK
<1>2. CASE http[r].tab \in Tabs
  <2>1. status[http[r].tab] \in {"loading", "authenticated", "unauthenticated"}
    BY <1>1, <1>2
  <2>2. Outcomes(http[r], ok) \subseteq
          {"loading", "authenticated", "unauthenticated"}
    BY <2>1 DEF Outcomes
  <2> QED
    BY <1>1, <2>2 DEF Take, SetStatus
<1>3. CASE http[r].tab \notin Tabs
  BY <1>1, <1>3 DEF Take, SetStatus
<1> QED
  BY <1>2, <1>3

\* Request r ends in an answer, and the page it is for takes it.
LEMMA DeliverStep ==
  ASSUME BInv, NEW r \in Requests, Deliver(r)
  PROVE  BInv'
<1>1. /\ Is(r, "ok") \/ Is(r, "refused")
      /\ cookie' = IF Is(r, "ok") /\ ~SetsPassword(r) THEN http[r].answer
                   ELSE cookie
      /\ http' = [http EXCEPT ![r] = NoCall]
      /\ UNCHANGED <<disturbed, changed, server>>
      /\ Take(r, Is(r, "ok"))
  BY DEF Deliver
<1>2. UNCHANGED <<account, token, challenges, drawn, proven, clobbered, req>>
  BY <1>1 DEF server
<1>3. Is(r, "ok") \in BOOLEAN
  BY DEF Is
<1>4. status' \in [Tabs -> {"loading", "authenticated", "unauthenticated"}]
  BY <1>1, <1>3, TakeType
<1>5. cookie' \in {0} \cup DOMAIN token /\ disturbed' \in BOOLEAN
  BY <1>1 DEF BInv, BrowserTypeOK
<1>6. S!SessionsTypeOK' /\ \A q \in Requests \ {r} : Alike(req[q], req'[q])
  BY <1>2 DEF BInv, BrowserTypeOK, S!SessionsTypeOK, Alike
<1>7. req'[r].pc = "idle"
  BY <1>1, <1>2 DEF BInv, Corresponds, Is
<1>8. ASSUME ~disturbed'
      PROVE  /\ ~disturbed /\ ~Is(r, "none")
             /\ Live = IF changed THEN {} ELSE {cookie'} \ {0}
  <2>1. ~disturbed /\ ~Is(r, "none")
    BY <1>1, <1>8 DEF Is
  <2>2. OneHolds(r)
    BY <2>1 DEF BInv, Undisturbed, UnderWay
  <2> QED
    BY <1>1, <2>1, <2>2 DEF OneHolds, Is, InStep
<1> QED
  BY <1>1, <1>2, <1>4, <1>5, <1>6, <1>7, <1>8, EndStep

LEMMA LoseStep ==
  ASSUME BInv, NEW r \in Requests, Lose(r)
  PROVE  BInv'
<1>1. /\ disturbed' = TRUE /\ http' = [http EXCEPT ![r] = NoCall]
      /\ cookie' \in {0} \cup DOMAIN token /\ UNCHANGED changed
  BY DEF Lose, BInv, BrowserTypeOK
<1>2. status' \in [Tabs -> {"loading", "authenticated", "unauthenticated"}]
  BY TakeType DEF Lose
<1>3. S!SessionsTypeOK /\ req \in [Requests -> S!RequestState]
  BY DEF BInv, BrowserTypeOK, S!SessionsTypeOK
<1>4. CASE S!StopRequest(r)
  <2>1. /\ S!End(r)
        /\ UNCHANGED <<account, token, challenges, drawn, proven, clobbered>>
    BY <1>4 DEF S!StopRequest
  <2>2. /\ req' \in [Requests -> S!RequestState] /\ req'[r].pc = "idle"
        /\ \A q \in Requests \ {r} : Alike(req[q], req'[q])
    BY <1>3, <2>1, EndType
  <2>3. S!SessionsTypeOK'
    BY <1>3, <2>1, <2>2 DEF S!SessionsTypeOK
  <2> QED
    BY <1>1, <1>2, <2>1, <2>2, <2>3, EndStep
<1>5. CASE ~Is(r, "served") /\ UNCHANGED server
  <2>1. UNCHANGED <<account, token, challenges, drawn, proven, clobbered, req>>
    BY <1>5 DEF server
  <2>2. S!SessionsTypeOK' /\ \A q \in Requests \ {r} : Alike(req[q], req'[q])
    BY <1>3, <2>1 DEF S!SessionsTypeOK, Alike
  <2>3. req'[r].pc = "idle"
    BY <1>5, <2>1 DEF BInv, Corresponds
  <2> QED
    BY <1>1, <1>2, <2>1, <2>2, <2>3, EndStep
<1> QED
  BY <1>4, <1>5 DEF Lose

LEMMA ExpireStep ==
  ASSUME BInv, Expire
  PROVE  BInv'
<1>1. PICK k \in DOMAIN token : S!ExpireRefreshToken(k)
  BY DEF Expire
<1>2. /\ token' = [token EXCEPT ![k].status = "expired"]
      /\ UNCHANGED <<account, challenges, drawn, proven, clobbered, req>>
      /\ disturbed' = TRUE /\ UNCHANGED <<cookie, status, http, changed>>
  BY <1>1 DEF S!ExpireRefreshToken, Expire
<1>3. S!SessionsTypeOK /\ token \in Seq(S!TokenRow)
  BY DEF BInv, BrowserTypeOK, S!SessionsTypeOK
<1>4. [token[k] EXCEPT !.status = "expired"] \in S!TokenRow
  <2>1. token[k] \in S!TokenRow
    BY <1>1, <1>3
  <2> QED
    BY <2>1 DEF S!TokenRow
<1>5. token' \in Seq(S!TokenRow) /\ DOMAIN token' = DOMAIN token
  BY <1>1, <1>2, <1>3, <1>4
<1>6. S!SessionsTypeOK'
  BY <1>2, <1>3, <1>5 DEF S!SessionsTypeOK
<1>7. BrowserTypeOK'
  BY <1>2, <1>5, <1>6 DEF BInv, BrowserTypeOK
<1>8. \A r \in Requests : Corresponds(r)'
  BY <1>2, StillCorresponds DEF BInv, Alike
<1> QED
  BY <1>2, <1>7, <1>8 DEF BInv

-----------------------------------------------------------------------------
(* The theorems *)

LEMMA BrowserStart == BrowserInit => BInv
<1> SUFFICES ASSUME BrowserInit PROVE BInv
  OBVIOUS
<1>1. S!SessionsTypeOK /\ token = << >> /\ \A r \in Requests : req[r].pc = "idle"
  BY IdleType DEF BrowserInit, S!SessionsInit, S!SessionsTypeOK, S!AccountRow
<1>2. NoCall \in Call /\ NoCall.pc = "none"
  BY DEF NoCall, Call
<1>3. BrowserTypeOK
  BY <1>1, <1>2 DEF BrowserInit, BrowserTypeOK, NoCall
<1>4. \A r \in Requests : Corresponds(r)
  BY <1>1, <1>2 DEF BrowserInit, Corresponds, Is
<1>5. UnderWay = {} /\ Live = {} /\ cookie = 0
  BY <1>1, <1>2 DEF BrowserInit, UnderWay, Is, Live, S!LiveTokens
<1> QED
  BY <1>3, <1>4, <1>5 DEF BInv, Undisturbed, InStep

\* The invariant behind the others: every request the server works on is one
\* the browser waits for, and while nothing disturbs the two, the one live
\* token is in the cookie, with the handler, or in the response; from a new
\* password until the next login there is none.
THEOREM BrowserIsSound == BrowserSpec => []BInv
<1>1. ASSUME BInv, [BrowserNext]_browserVars PROVE BInv'
  <2>1. ASSUME NEW t \in Tabs, Load(t) \/ Login(t) PROVE BInv'
    BY <1>1, <2>1, LoadStep, LoginStep
  <2>2. ASSUME NEW t \in Tabs, RejectedCall(t) PROVE BInv'
    <3>1. PICK r \in Requests : Send(r, t, "call")
      BY <2>2 DEF RejectedCall
    <3>2. RefreshPromise(t) = {} /\ UNCHANGED <<cookie, status, changed, server>>
      BY <2>2 DEF RejectedCall
    <3> QED
      BY <1>1, <3>1, <3>2, SendByStep
  <2>3. ASSUME NEW t \in Tabs, Logout(t) PROVE BInv'
    <3>1. PICK r \in Requests : Send(r, t, "logout")
      BY <2>3 DEF Logout
    <3>2. UNCHANGED <<cookie, status, changed, server>>
      BY <2>3 DEF Logout
    <3> QED
      BY <1>1, <3>1, <3>2, SendByStep
  <2>4. ASSUME NEW r \in Requests, Serve(r) \/ Respond(r) PROVE BInv'
    BY <1>1, <2>4, ServeStep, RespondStep
  <2>5. ASSUME NEW r \in Requests, Deliver(r) \/ Lose(r) PROVE BInv'
    BY <1>1, <2>5, DeliverStep, LoseStep
  <2>6. CASE Expire
    BY <1>1, <2>6, ExpireStep
  <2>8. ASSUME NEW t \in Tabs, ChangePassword(t) PROVE BInv'
    <3>1. PICK by \in {"change", "reset"}, r \in Requests : Send(r, t, by)
      BY <2>8 DEF ChangePassword
    <3>2. UNCHANGED <<cookie, status, changed, server>>
      BY <2>8 DEF ChangePassword
    <3> QED
      BY <1>1, <3>1, <3>2, SendByStep
  <2>7. CASE UNCHANGED browserVars
    <3>1. /\ UNCHANGED <<cookie, status, http, disturbed, changed>>
          /\ UNCHANGED <<account, token, challenges, drawn, proven, clobbered,
                         req>>
      BY <2>7 DEF browserVars, server
    <3>2. S!SessionsTypeOK'
      BY <1>1, <3>1 DEF BInv, BrowserTypeOK, S!SessionsTypeOK
    <3>3. BrowserTypeOK'
      BY <1>1, <3>1, <3>2 DEF BInv, BrowserTypeOK
    <3>4. \A r \in Requests : Corresponds(r)'
      BY <1>1, <3>1 DEF BInv, Corresponds, Is, Refreshes, SetsPassword
    <3>5. UnderWay' = UnderWay /\ Live' = Live
      BY <3>1 DEF UnderWay, Is, Live, S!LiveTokens, S!IsRevoked
    <3>6. ~disturbed' => Undisturbed'
      <4>1. InStep' = InStep
        BY <3>1, <3>5 DEF InStep
      <4> QED
        BY <1>1, <3>1, <3>5, <4>1
        DEF BInv, Undisturbed, OneHolds, Is, SetsPassword, S!IsValid
    <3> QED
      BY <3>3, <3>4, <3>6 DEF BInv
  <2> QED
    BY <1>1, <2>1, <2>2, <2>3, <2>4, <2>5, <2>6, <2>7, <2>8 DEF BrowserNext
<1> QED
  BY <1>1, BrowserStart, PTL DEF BrowserSpec

\* Tabs and requests have the values the frontend gives them, and no cookie
\* or response names a token that was never issued.
THEOREM BrowserTypeCorrect == BrowserSpec => []BrowserTypeOK
<1>1. BInv => BrowserTypeOK
  BY DEF BInv
<1> QED
  BY <1>1, BrowserIsSound, PTL

\* For any number of tabs and of requests: between requests that did not
\* overlap, get lost or outlive a token, the cookie is the one token that is
\* not revoked, or none is left because the browser has set a new password;
\* and only then is a refresh of its own taken for a theft.
THEOREM BrowserKeepsInStep == BrowserSpec => []KeepsInStep
<1>1. BInv => KeepsInStep
  BY DEF BInv, Undisturbed, OneHolds, InStep, KeepsInStep, UnderWay, Is
<1> QED
  BY <1>1, BrowserIsSound, PTL

=============================================================================
