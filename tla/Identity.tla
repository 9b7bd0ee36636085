------------------------------ MODULE Identity ------------------------------
(***************************************************************************)
(* Sign-up and sessions together: the users rows that Registration inserts *)
(* and verifies are those that Sessions logs in.  The two handle different *)
(* columns and share no row lock, so they interleave freely.               *)
(***************************************************************************)
EXTENDS Registration, Sequences

CONSTANTS
  Requests, MaxTokens, MaxSecrets, MaxPassword  \* see Sessions

ASSUME IdentityAssumption ==
  MaxTokens \in Nat /\ MaxSecrets \in Nat /\ MaxPassword \in Nat

VARIABLES account, token, challenges, drawn, proven, clobbered, req

S == INSTANCE Sessions
       WITH registered <- {u \in Users : Exists(u)},
            verified <- {u \in Users : user[u].verified}

sessions == <<account, token, challenges, drawn, proven, clobbered, req>>
identityVars == <<registrationVars, sessions>>

IdentityInit == RegistrationInit /\ S!SessionsInit

SignUp == RegistrationNext /\ UNCHANGED sessions
UseSession == S!SessionsNext /\ UNCHANGED registrationVars

IdentityNext == SignUp \/ UseSession

IdentitySpec == IdentityInit /\ [][IdentityNext]_identityVars

-----------------------------------------------------------------------------
(* Properties *)

\* The type invariant of both parts.
IdentityTypeOK == RegistrationTypeOK /\ S!SessionsTypeOK

\* Nobody holds a refresh token, or is half-way to one, before the e-mail of
\* the user was verified: by its code, or in person by the admin who created
\* the customer.  Neither a password reset nor an MFA challenge is a way in.
NoSessionBeforeVerification ==
  /\ \A k \in DOMAIN token : user[token[k].owner].verified
  /\ \A u \in challenges : user[u].verified
  /\ \A r \in Requests : S!Waits(r, "issue") => user[req[r].user].verified

\* What Sessions says of refresh tokens, passwords and TOTP secrets, of the
\* users that sign up here.
OneLiveTokenPerSession == S!OneLiveTokenPerSession
OldPasswordsOpenNothing == S!OldPasswordsOpenNothing
ActiveSecretIsProven == S!ActiveSecretIsProven

=============================================================================
