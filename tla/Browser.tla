------------------------------- MODULE Browser -------------------------------
(***************************************************************************)
(* The session as the web frontend keeps it, frontend/src/api/client.ts,   *)
(* lib/apiClient.ts and context/AuthContext.tsx, with the pages that set a *)
(* new password, over the handlers of Sessions.  The tabs of a browser     *)
(* share the cookie that holds the refresh token; each has its own         *)
(* JavaScript, which forgets everything when the page is loaded again, and *)
(* knows only whether it is logged in.  A request takes the cookie along   *)
(* when it is sent, the server works on it in steps of its own, and the    *)
(* cookie follows the responses in the order of their arrival.  One user;  *)
(* without a second factor.                                                *)
(***************************************************************************)
EXTENDS Naturals, Sequences, FiniteSets

CONSTANTS
  Tabs,
  Requests,      \* requests under way at one time
  MaxTokens,     \* see Sessions
  MaxPassword,   \* see Sessions
  User, NoUser, NoTab

VARIABLES
  cookie,        \* the refresh token of the cookie, 0 if there is none
  status,        \* AuthContext's status in each tab
  http,          \* requests under way
  disturbed,     \* ghost: see Disturbs
  changed,       \* ghost: a password was set, and nobody has logged in since
  account, token, challenges, drawn, proven, clobbered, req  \* of Sessions

S == INSTANCE Sessions
       WITH Users <- {User}, MaxSecrets <- 0,
            registered <- {User}, verified <- {User}

server == <<account, token, challenges, drawn, proven, clobbered, req>>
browserVars == <<cookie, status, http, disturbed, changed, server>>

\* by: what the response is for; tab: where the page is that sent it, if it is
\* still there; cookie: the token it was sent with; answer: the token the
\* response sets.
Call ==
  [pc : {"none", "sent", "served", "ok", "refused"},
   by : {"none", "bootstrap", "call", "login", "logout", "change", "reset"},
   tab : Tabs \cup {NoTab}, cookie : Nat, answer : Nat]

NoCall ==
  [pc |-> "none", by |-> "none", tab |-> NoTab, cookie |-> 0, answer |-> 0]

BrowserInit ==
  /\ cookie = 0
  /\ status = [t \in Tabs |-> "unauthenticated"]
  /\ http = [r \in Requests |-> NoCall]
  /\ disturbed = FALSE /\ changed = FALSE
  /\ S!SessionsInit

-----------------------------------------------------------------------------
(* Helpers *)

Is(r, pc) == http[r].pc = pc
Refreshes(r) == http[r].by \in {"bootstrap", "call"}
SetsPassword(r) == http[r].by \in {"change", "reset"}
UnderWay == {r \in Requests : ~Is(r, "none")}
Live == S!LiveTokens(User)

\* refreshPromise: the refresh of this page, begun by a rejected call, that
\* other rejected calls wait for.
RefreshPromise(t) ==
  {r \in UnderWay : http[r].tab = t /\ http[r].by = "call"}

\* What the clients make no provision for: a second request while one is
\* under way, but for the rejected calls of one page.
Disturbs(t, by) ==
  \E r \in UnderWay : ~(by = "call" /\ http[r].by = "call" /\ http[r].tab = t)

Send(r, t, by) ==
  /\ Is(r, "none")
  /\ http' = [http EXCEPT
       ![r] = [pc |-> "sent", by |-> by, tab |-> t, cookie |-> cookie,
               answer |-> 0]]
  /\ disturbed' = (disturbed \/ Disturbs(t, by))

\* clearSession and applyAccessToken.
SetStatus(t, new) == status' = [status EXCEPT ![t] = new]

-----------------------------------------------------------------------------
(* What a tab does *)

\* A page is loaded: it has no access token, and bootstrap refreshes.
Load(t) ==
  \E r \in Requests :
    /\ Is(r, "none")
    /\ http' = [q \in Requests |->
         IF q = r THEN [pc |-> "sent", by |-> "bootstrap", tab |-> t,
                        cookie |-> cookie, answer |-> 0]
         ELSE IF http[q].tab = t THEN [http[q] EXCEPT !.tab = NoTab]
         ELSE http[q]]
    /\ disturbed' = (disturbed \/ Disturbs(t, "bootstrap"))
    /\ SetStatus(t, "loading")
    /\ UNCHANGED <<cookie, changed, server>>

\* Faulty variant: every rejected call refreshes for itself.
RejectedCallAlone(t) ==
  /\ \E r \in Requests : Send(r, t, "call")
  /\ UNCHANGED <<cookie, status, changed, server>>

\* A call is answered 401, and the middleware refreshes, unless a call before
\* it does so already.  The access token has expired, or a password, a code or
\* a reset token is wrong: the status is the same, and so is what follows.
RejectedCall(t) ==
  /\ RefreshPromise(t) = {}
  /\ \E r \in Requests : Send(r, t, "call")
  /\ UNCHANGED <<cookie, status, changed, server>>

\* The login page is shown to who is not logged in.  A login that finds no
\* token left over starts from a clean slate.
Login(t) ==
  /\ status[t] = "unauthenticated"
  /\ \E r \in Requests :
       /\ Is(r, "none")
       /\ http' = [http EXCEPT
            ![r] = [pc |-> "sent", by |-> "login", tab |-> t,
                    cookie |-> cookie, answer |-> 0]]
       /\ disturbed' = (UnderWay # {} \/ Live # {})
  /\ UNCHANGED <<cookie, status, changed, server>>

Logout(t) ==
  /\ status[t] = "authenticated"
  /\ \E r \in Requests : Send(r, t, "logout")
  /\ UNCHANGED <<cookie, status, changed, server>>

\* The profile page, of who is logged in, with the right password; and the
\* page behind the link in the e-mail, which any tab may open.
ChangePassword(t) ==
  \E by \in {"change", "reset"} :
    /\ by = "change" => status[t] = "authenticated"
    /\ account[User].password < MaxPassword  \* bound
    /\ \E r \in Requests : Send(r, t, by)
    /\ UNCHANGED <<cookie, status, changed, server>>

-----------------------------------------------------------------------------
(* What the server does with a request *)

Reply(r, pc, answer) ==
  http' = [http EXCEPT ![r].pc = pc, ![r].answer = answer]

\* The handler begins; without a cookie it has nothing to read.
Serve(r) ==
  LET k == http[r].cookie IN
  /\ Is(r, "sent")
  /\ \/ /\ http[r].by = "login" /\ S!Login(r, User)
        /\ Reply(r, "served", 0)
     \/ /\ Refreshes(r) /\ k # 0 /\ S!Refresh(r, k)
        /\ Reply(r, "served", 0)
     \/ /\ http[r].by = "logout" /\ k # 0 /\ S!Logout(r, k)
        /\ Reply(r, "served", 0)
     \/ /\ http[r].by = "change" /\ S!ChangePassword(r, User)
        /\ Reply(r, "served", 0)
     \/ /\ http[r].by = "reset" /\ S!ConfirmPasswordReset(r, User)
        /\ Reply(r, "served", 0)
     \/ /\ Refreshes(r) /\ k = 0
        /\ Reply(r, "refused", 0)
        /\ UNCHANGED server
     \/ /\ http[r].by = "logout" /\ (k # 0 => ~S!IsValid(k))
        /\ Reply(r, "ok", 0)
        /\ UNCHANGED server
  /\ UNCHANGED <<cookie, status, disturbed, changed>>

\* Faulty variant: a token pair is returned and nothing is committed.
RespondUncommitted(r) ==
  /\ Is(r, "served")
  /\ S!StopRequest(r) /\ Reply(r, "ok", Len(token) + 1)
  /\ UNCHANGED <<cookie, status, disturbed, changed>>

\* The handler's commit, and its response.
Respond(r) ==
  /\ Is(r, "served")
  /\ \/ S!IssueTokenPair(r) /\ Reply(r, "ok", Len(token) + 1) /\ changed' = FALSE
     \/ S!ReplacePassword(r) /\ Reply(r, "ok", 0) /\ changed' = TRUE
     \/ /\ \/ S!Rotate(r) /\ Reply(r, "ok", Len(token) + 1)
           \/ S!RevokeOne(r) /\ Reply(r, "ok", 0)
           \/ S!ReadLiveTokens(r) /\ UNCHANGED http
           \/ S!RevokeAllForUser(r) /\ Reply(r, "refused", 0)
        /\ UNCHANGED changed
  /\ UNCHANGED <<cookie, status, disturbed>>

-----------------------------------------------------------------------------
(* What comes back *)

\* What a page makes of an outcome.  A refresh that failed ends its session,
\* and one that did not may: the fetch client cannot repeat a call whose body
\* it has sent.  A logout ends it even if it failed; a login that failed and a
\* new password only show a message.
Outcomes(call, ok) ==
  IF call.by \in {"bootstrap", "login"} /\ ok THEN {"authenticated"}
  ELSE IF call.by \in {"login", "change", "reset"} THEN {status[call.tab]}
  ELSE IF call.by = "call" /\ ok THEN {status[call.tab], "unauthenticated"}
  ELSE {"unauthenticated"}

\* The page that sent the request takes its outcome, if it is still there.
Take(r, ok) ==
  IF http[r].tab # NoTab
  THEN \E new \in Outcomes(http[r], ok) : SetStatus(http[r].tab, new)
  ELSE UNCHANGED status

\* A refresh and a login set the cookie, a logout deletes it; a refusal and a
\* new password leave it.
Deliver(r) ==
  /\ Is(r, "ok") \/ Is(r, "refused")
  /\ cookie' = IF Is(r, "ok") /\ ~SetsPassword(r) THEN http[r].answer ELSE cookie
  /\ Take(r, Is(r, "ok"))
  /\ http' = [http EXCEPT ![r] = NoCall]
  /\ UNCHANGED <<disturbed, changed, server>>

\* The request, or its response, is lost, or the server stops.
Lose(r) ==
  /\ ~Is(r, "none")
  /\ disturbed' = TRUE
  /\ Take(r, FALSE)
  /\ http' = [http EXCEPT ![r] = NoCall]
  /\ \/ S!StopRequest(r)
     \/ ~Is(r, "served") /\ UNCHANGED server
  /\ UNCHANGED <<cookie, changed>>

\* The refresh token expires.
Expire ==
  /\ \E k \in DOMAIN token : S!ExpireRefreshToken(k)
  /\ disturbed' = TRUE
  /\ UNCHANGED <<cookie, status, http, changed>>

-----------------------------------------------------------------------------

BrowserNext ==
  \/ \E t \in Tabs :
       Load(t) \/ RejectedCall(t) \/ Login(t) \/ Logout(t) \/ ChangePassword(t)
  \/ \E r \in Requests : Serve(r) \/ Respond(r) \/ Deliver(r) \/ Lose(r)
  \/ Expire

BrowserSpec == BrowserInit /\ [][BrowserNext]_browserVars

-----------------------------------------------------------------------------
(* Properties *)

\* The type invariant: tabs and requests have the values the frontend gives
\* them, and the token a cookie or a response carries exists.
BrowserTypeOK ==
  /\ cookie \in {0} \cup DOMAIN token
  /\ status \in [Tabs -> {"loading", "authenticated", "unauthenticated"}]
  /\ http \in [Requests -> Call]
  /\ \A r \in Requests : {http[r].cookie, http[r].answer} \ {0} \subseteq DOMAIN token
  /\ disturbed \in BOOLEAN /\ changed \in BOOLEAN
  /\ S!SessionsTypeOK

\* The browser and the server keep in step - unless, since the login,
\* requests of several tabs or pages overlapped, one was lost, or the token
\* expired.  Between requests the cookie is the one refresh token that is not
\* revoked, or there is none of either; once this browser has set a new
\* password no token is left, whatever the cookie holds.  That is also the
\* only case in which a refresh with a cookie is taken for a theft.  However
\* many calls a page makes, they do not overlap.
KeepsInStep ==
  ~disturbed =>
    /\ UnderWay = {} => Live = IF changed THEN {} ELSE {cookie} \ {0}
    /\ \A r \in Requests : Is(r, "refused") => changed \/ http[r].cookie = 0

=============================================================================
