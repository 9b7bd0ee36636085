------------------------------ MODULE Sessions ------------------------------
(***************************************************************************)
(* Sessions of a user in backend/app/modules/auth/service.py: login with   *)
(* and without a second factor, rotation of the refresh token and the      *)
(* detection of its reuse, logout, change and reset of the password, and   *)
(* enrolment in TOTP.  Each handler reads what it decides on without a     *)
(* lock, and writes everything in one flush and commit at its end: the     *)
(* session is created with autoflush off, so the SELECT of the live tokens *)
(* in revoke_all_for_user comes before any write.  Hence one action per    *)
(* SELECT and one for the commit.                                          *)
(*                                                                         *)
(* Passwords and TOTP secrets are numbered in the order they are set; 0 is *)
(* the first password, and no secret.  There is no clock: a JWT may be used*)
(* at any time after it was signed, or never.  No code of the repository   *)
(* sets is_blocked, is_active or deleted_at of a user, so their tests      *)
(* always pass and are left out.                                           *)
(***************************************************************************)
EXTENDS Naturals, Sequences, FiniteSets

CONSTANTS
  Users,
  Requests,      \* sessions of the web API
  MaxSecrets,    \* bound: TOTP secrets drawn for a user
  MaxTokens,     \* bound: refresh tokens of a behaviour
  MaxPassword,   \* bound: password versions of a user
  NoUser

VARIABLES
  registered,    \* users that have a row, see Registration
  verified,      \* users whose email_verified is set, see Registration
  account,       \* users rows: password, TOTP secret, totp_enabled
  token,         \* refresh_tokens rows in the order of their insertion
  challenges,    \* users an MFA challenge token was signed for
  drawn,         \* how many TOTP secrets were drawn for a user
  proven,        \* ghost: the last secret /2fa/enable took a code of
  clobbered,     \* ghost: users whose enrolment was written on a stale read
  req            \* the local state of each session

sessionVars ==
  <<account, token, challenges, drawn, proven, clobbered, req>>

AccountRow == [password : Nat, secret : Nat, enabled : BOOLEAN]

(* A session is a login and the rotations that descend from it.  login: the*)
(* number of its first token; password: the one the login found; forked:   *)
(* one of its tokens was issued by a refresh whose own token had been      *)
(* revoked since it was read; escaped: the last password whose setting did *)
(* not reach it, because its token was inserted after the SELECT of the    *)
(* tokens to revoke.                                                       *)
Session == [login : Nat, password : Nat, forked : BOOLEAN, escaped : Nat]
NoSession == [login |-> 0, password |-> 0, forked |-> FALSE, escaped |-> 0]

(* status: revoked_at is set, or else whether expires_at has passed.       *)
(* session: a ghost, of tokens that are not revoked.  replaced_by_token_id *)
(* is left out, as no code reads it.                                       *)
TokenRow ==
  [owner : Users, status : {"valid", "expired", "revoked"}, session : Session]

Revokers == {"refresh", "logout", "change", "reset"}
Enrolments == {"setup", "enable", "disable"}

(* seen: ghost, the number of tokens when live was read.  Of a reset,      *)
(* session.password is the fingerprint in its token.                       *)
RequestState ==
  [op : {"none", "login", "mfa"} \cup Revokers \cup Enrolments,
   pc : {"idle", "issue", "rotate", "readLive", "revoke", "logout", "save"},
   user : Users \cup {NoUser}, token : Nat, live : SUBSET Nat,
   seen : Nat, session : Session, secret : Nat]

IdleRequest ==
  [op |-> "none", pc |-> "idle", user |-> NoUser, token |-> 0, live |-> {},
   seen |-> 0, session |-> NoSession, secret |-> 0]

SessionsInit ==
  /\ account = [u \in Users |->
                  [password |-> 0, secret |-> 0, enabled |-> FALSE]]
  /\ token = << >>
  /\ challenges = {}
  /\ drawn = [u \in Users |-> 0] /\ proven = [u \in Users |-> 0]
  /\ clobbered = {}
  /\ req = [r \in Requests |-> IdleRequest]

-----------------------------------------------------------------------------
(* Helpers *)

IsRevoked(k) == token[k].status = "revoked"
IsValid(k) == token[k].status = "valid"
LiveTokens(u) == {k \in DOMAIN token : token[k].owner = u /\ ~IsRevoked(k)}
HoldsAccessToken(u) == \E k \in DOMAIN token : token[k].owner = u
Revoke(ids) ==
  [k \in DOMAIN token |->
     IF k \in ids
     THEN [token[k] EXCEPT !.status = "revoked", !.session = NoSession]
     ELSE token[k]]

Waits(r, pc) == req[r].pc = pc
End(r) == req' = [req EXCEPT ![r] = IdleRequest]

Begin(r, new) == Waits(r, "idle") /\ req' = [req EXCEPT ![r] = new]

-----------------------------------------------------------------------------
(* POST /auth/login and /auth/2fa/verify-login *)

\* Faulty variant: login does not ask whether the e-mail is verified.
LoginUnverified(r, u) ==
  /\ u \in registered
  /\ ~account[u].enabled
  /\ Begin(r, [IdleRequest EXCEPT !.op = "login", !.pc = "issue", !.user = u,
                 !.session.password = account[u].password])
  /\ UNCHANGED <<account, token, challenges, drawn, proven, clobbered>>

\* The caller knows the current password.
Login(r, u) ==
  /\ u \in registered /\ u \in verified
  /\ ~account[u].enabled
  /\ Begin(r, [IdleRequest EXCEPT !.op = "login", !.pc = "issue", !.user = u,
                 !.session.password = account[u].password])
  /\ UNCHANGED <<account, token, challenges, drawn, proven, clobbered>>

\* With 2FA the answer is a challenge, which records nothing but the user.
LoginChallenge(u) ==
  /\ u \in registered /\ u \in verified
  /\ account[u].enabled
  /\ challenges' = challenges \cup {u}
  /\ UNCHANGED <<account, token, drawn, proven, clobbered, req>>

\* The caller answers with a code of the secret the row holds now.
VerifyMfaLogin(r, u) ==
  /\ u \in challenges
  /\ account[u].enabled /\ account[u].secret # 0
  /\ Begin(r, [IdleRequest EXCEPT !.op = "mfa", !.pc = "issue", !.user = u,
                 !.session.password = account[u].password])
  /\ UNCHANGED <<account, token, challenges, drawn, proven, clobbered>>

\* mark_login, _issue_token_pair and the commit.
IssueTokenPair(r) ==
  /\ Waits(r, "issue")
  /\ Len(token) < MaxTokens  \* bound
  /\ token' = Append(token,
       [owner |-> req[r].user, status |-> "valid",
        session |-> [req[r].session EXCEPT !.login = Len(token) + 1]])
  /\ End(r)
  /\ UNCHANGED <<account, challenges, drawn, proven, clobbered>>

-----------------------------------------------------------------------------
(* POST /auth/refresh and /auth/logout *)

\* A revoked or expired token is taken for a theft: every live token goes.
\* The read of the token's owner decides nothing, and is left out.
Refresh(r, k) ==
  /\ k \in DOMAIN token
  /\ Begin(r, [IdleRequest EXCEPT !.op = "refresh", !.user = token[k].owner,
                 !.token = k, !.session = token[k].session,
                 !.pc = IF IsValid(k) THEN "rotate" ELSE "readLive"])
  /\ UNCHANGED <<account, token, challenges, drawn, proven, clobbered>>

\* Faulty variant: the old token is not revoked when its successor is made.
RotateWithoutRevoking(r) ==
  /\ Waits(r, "rotate")
  /\ Len(token) < MaxTokens
  /\ token' = Append(token, [owner |-> req[r].user, status |-> "valid",
                             session |-> req[r].session])
  /\ End(r)
  /\ UNCHANGED <<account, challenges, drawn, proven, clobbered>>

\* The successor is inserted and the token read earlier is revoked, whatever
\* became of it in between.
Rotate(r) ==
  LET Fork(session) ==
        [session EXCEPT !.forked = @ \/ IsRevoked(req[r].token)]
  IN
  /\ Waits(r, "rotate")
  /\ Len(token) < MaxTokens  \* bound
  /\ token' = Append(Revoke({req[r].token}),
                     [owner |-> req[r].user, status |-> "valid",
                      session |-> Fork(req[r].session)])
  /\ End(r)
  /\ UNCHANGED <<account, challenges, drawn, proven, clobbered>>

\* A logout with a token that is not valid changes nothing.
Logout(r, k) ==
  /\ k \in DOMAIN token /\ IsValid(k)
  /\ Begin(r, [IdleRequest EXCEPT !.op = "logout", !.pc = "logout",
                 !.user = token[k].owner, !.token = k])
  /\ UNCHANGED <<account, token, challenges, drawn, proven, clobbered>>

RevokeOne(r) ==
  /\ Waits(r, "logout")
  /\ token' = Revoke({req[r].token})
  /\ End(r)
  /\ UNCHANGED <<account, challenges, drawn, proven, clobbered>>

-----------------------------------------------------------------------------
(* POST /auth/password/change, /reset-request and /reset-confirm *)

\* The caller holds an access token and knows the current password.
ChangePassword(r, u) ==
  /\ HoldsAccessToken(u)
  /\ account[u].password < MaxPassword  \* bound
  /\ Begin(r, [IdleRequest EXCEPT !.op = "change", !.pc = "readLive",
                 !.user = u])
  /\ UNCHANGED <<account, token, challenges, drawn, proven, clobbered>>

\* What request_password_reset has signed for u, or could sign now: it
\* records nothing, and puts the fingerprint of the password in the token.
ResetTokens(u) == 0 .. account[u].password

\* The fingerprint in the token must be that of the password read here.
ConfirmPasswordReset(r, u) ==
  \E fingerprint \in ResetTokens(u) :
    /\ u \in registered
    /\ fingerprint = account[u].password
    /\ account[u].password < MaxPassword  \* bound
    /\ Begin(r, [IdleRequest EXCEPT !.op = "reset", !.pc = "readLive",
                   !.user = u, !.session.password = fingerprint])
    /\ UNCHANGED <<account, token, challenges, drawn, proven, clobbered>>

\* revoke_all_for_user reads the tokens to revoke; what is inserted later
\* is not among them.
ReadLiveTokens(r) ==
  /\ Waits(r, "readLive")
  /\ req' = [req EXCEPT ![r].pc = "revoke", ![r].seen = Len(token),
                        ![r].live = LiveTokens(req[r].user)]
  /\ UNCHANGED <<account, token, challenges, drawn, proven, clobbered>>

\* After a reuse the commit is of the revocations alone.
RevokeAllForUser(r) ==
  /\ Waits(r, "revoke") /\ req[r].op = "refresh"
  /\ token' = Revoke(req[r].live)
  /\ End(r)
  /\ UNCHANGED <<account, challenges, drawn, proven, clobbered>>

\* Faulty variant: a new password leaves the sessions alone.
ReplacePasswordOnly(r) ==
  /\ Waits(r, "revoke") /\ req[r].op \in {"change", "reset"}
  /\ account' = [account EXCEPT ![req[r].user].password = @ + 1]
  /\ End(r)
  /\ UNCHANGED <<token, challenges, drawn, proven, clobbered>>

\* The commit of a new password and the revocations.  The ghost is set of the
\* tokens that came after the SELECT, and of those still to come from
\* requests that are past their own reads.
ReplacePassword(r) ==
  LET u == req[r].user
      new == account[u].password + 1
      late == {k \in LiveTokens(u) : k > req[r].seen}
      Issues(q) == req[q].user = u /\ req[q].pc \in {"issue", "rotate"}
  IN
  /\ Waits(r, "revoke") /\ req[r].op \in {"change", "reset"}
  /\ account' = [account EXCEPT ![u].password = new]
  /\ token' = [k \in DOMAIN token |->
       IF k \in late THEN [token[k] EXCEPT !.session.escaped = new]
       ELSE Revoke(req[r].live)[k]]
  /\ req' = [q \in Requests |->
       IF q = r THEN IdleRequest
       ELSE IF Issues(q) THEN [req[q] EXCEPT !.session.escaped = new]
       ELSE req[q]]
  /\ UNCHANGED <<challenges, drawn, proven, clobbered>>

-----------------------------------------------------------------------------
(* POST /auth/2fa/setup, /enable and /disable *)

BeginEnrolment(r, op, u) ==
  /\ HoldsAccessToken(u)
  /\ account[u].enabled = (op = "disable")
  /\ Begin(r, [IdleRequest EXCEPT !.op = op, !.pc = "save", !.user = u,
                 !.secret = account[u].secret])
  /\ UNCHANGED <<account, token, challenges, drawn, clobbered>>

SetupTwoFactor(r, u) ==
  /\ drawn[u] < MaxSecrets  \* bound
  /\ BeginEnrolment(r, "setup", u)
  /\ UNCHANGED proven

\* Faulty variant: the code is not checked, so that nothing is proven.
EnableOnTrust(r, u) ==
  /\ account[u].secret # 0
  /\ BeginEnrolment(r, "enable", u)
  /\ UNCHANGED proven

\* The caller gives a code of the secret read here.
EnableTwoFactor(r, u) ==
  /\ account[u].secret # 0
  /\ BeginEnrolment(r, "enable", u)
  /\ proven' = [proven EXCEPT ![u] = account[u].secret]

\* The caller gives the current password and a code of the secret.
DisableTwoFactor(r, u) ==
  /\ account[u].secret # 0
  /\ BeginEnrolment(r, "disable", u)
  /\ UNCHANGED proven

\* The row is no longer what the session read and decided on.
StaleEnrolment(r) ==
  LET row == account[req[r].user] IN
  \/ row.secret # req[r].secret
  \/ row.enabled # (req[r].op = "disable")

NoteEnrolment(r) ==
  LET u == req[r].user IN
  clobbered' = IF StaleEnrolment(r) THEN clobbered \cup {u}
               ELSE IF req[r].op = "disable" THEN clobbered \ {u}
               ELSE clobbered

\* Only the columns a handler assigns are written: a setup commits its new
\* secret under whatever totp_enabled has become.
SaveSecret(r) ==
  LET u == req[r].user IN
  /\ Waits(r, "save") /\ req[r].op = "setup"
  /\ drawn' = [drawn EXCEPT ![u] = @ + 1]
  /\ account' = [account EXCEPT ![u].secret = drawn[u] + 1]
  /\ NoteEnrolment(r)
  /\ End(r)
  /\ UNCHANGED <<token, challenges, proven>>

SaveEnabled(r) ==
  /\ Waits(r, "save") /\ req[r].op = "enable"
  /\ account' = [account EXCEPT ![req[r].user].enabled = TRUE]
  /\ NoteEnrolment(r)
  /\ End(r)
  /\ UNCHANGED <<token, challenges, drawn, proven>>

SaveDisabled(r) ==
  /\ Waits(r, "save") /\ req[r].op = "disable"
  /\ account' = [account EXCEPT ![req[r].user].enabled = FALSE,
                               ![req[r].user].secret = 0]
  /\ NoteEnrolment(r)
  /\ End(r)
  /\ UNCHANGED <<token, challenges, drawn, proven>>

-----------------------------------------------------------------------------
(* Time and failure *)

ExpireRefreshToken(k) ==
  /\ k \in DOMAIN token /\ IsValid(k)
  /\ token' = [token EXCEPT ![k].status = "expired"]
  /\ UNCHANGED <<account, challenges, drawn, proven, clobbered, req>>

\* The process stops before the commit, and with it the open transaction.
StopRequest(r) ==
  /\ ~Waits(r, "idle")
  /\ End(r)
  /\ UNCHANGED <<account, token, challenges, drawn, proven, clobbered>>

-----------------------------------------------------------------------------

RequestNext(r) ==
  \/ \E u \in Users :
       \/ Login(r, u) \/ VerifyMfaLogin(r, u)
       \/ ChangePassword(r, u) \/ ConfirmPasswordReset(r, u)
       \/ SetupTwoFactor(r, u) \/ EnableTwoFactor(r, u)
       \/ DisableTwoFactor(r, u)
  \/ \E k \in DOMAIN token : Refresh(r, k) \/ Logout(r, k)
  \/ IssueTokenPair(r) \/ Rotate(r) \/ RevokeOne(r)
  \/ ReadLiveTokens(r) \/ RevokeAllForUser(r) \/ ReplacePassword(r)
  \/ SaveSecret(r) \/ SaveEnabled(r) \/ SaveDisabled(r)
  \/ StopRequest(r)

SessionsNext ==
  \/ \E r \in Requests : RequestNext(r)
  \/ \E u \in Users : LoginChallenge(u)
  \/ \E k \in DOMAIN token : ExpireRefreshToken(k)

-----------------------------------------------------------------------------
(* Properties *)

\* The type invariant: rows and session states have the columns and values
\* of the models in auth and users, and the ids they name exist.
SessionsTypeOK ==
  /\ account \in [Users -> AccountRow]
  /\ token \in Seq(TokenRow)
  /\ challenges \subseteq Users
  /\ drawn \in [Users -> Nat]
  /\ proven \in [Users -> Nat]
  /\ clobbered \subseteq Users
  /\ req \in [Requests -> RequestState]

\* A login and the rotations that descend from it are one session: it has
\* at most one refresh token that is not revoked, whatever logins, refreshes,
\* logouts, revocations and expiries ran.  The only way to a second one is a
\* refresh whose token was revoked between its read and its commit.
OneLiveTokenPerSession ==
  \A j, k \in DOMAIN token :
    (j < k /\ ~IsRevoked(j) /\ ~IsRevoked(k)
        /\ token[j].session.login = token[k].session.login) =>
      token[j].session.forked \/ token[k].session.forked

\* A session holds a token that is not revoked only if it was opened with the
\* password the user has now, or if this very password's setting missed it:
\* its token was inserted, or about to be, between the SELECT of the tokens
\* to revoke and the commit.  Every later setting ends it again.
OldPasswordsOpenNothing ==
  \A k \in DOMAIN token :
    LET now == account[token[k].owner].password IN
    ~IsRevoked(k) =>
      token[k].session.password = now \/ token[k].session.escaped = now

\* 2FA is on only with a secret a code was accepted for, unless two requests
\* of the user's enrolment overlapped.
ActiveSecretIsProven ==
  \A u \in Users \ clobbered :
    account[u].enabled => account[u].secret = proven[u]

=============================================================================
