---------------------------- MODULE Registration ----------------------------
(***************************************************************************)
(* Sign-up in backend/app/modules/auth/service.py: registration, the e-mail*)
(* code, its resend, and the customer an admin creates in person.  A       *)
(* registration commits twice, first the user and customer rows and then   *)
(* the code, then hands the code to the broker and answers; a process may  *)
(* stop, and the broker refuse, in between.  Nothing here locks a row:     *)
(* every check reads the last commit and every write is decided on what    *)
(* was read, so the database's UNIQUE constraints are the only guard       *)
(* between two requests.                                                   *)
(***************************************************************************)
EXTENDS Integers, FiniteSets

CONSTANTS
  Users,         \* ids of the rows that may be inserted
  Emails,        \* e-mail addresses, in lower case
  NationalIds,
  Clients,       \* sessions of the web API
  MaxAttempts,   \* registration_confirmations.max_attempts
  MaxCodes,      \* bound: codes issued to one user
  NoUser, NoEmail, NoId

VARIABLES
  user,          \* users and customers rows of a registration
  confirmation,  \* registration_confirmations rows; code 0: no row
  told,          \* users whose id was returned by POST /auth/register
  lost,          \* ghost: users whose registration ended without an answer
  guesses,       \* ghost: wrong codes tried against the current code
  raced,         \* ghost: users whose code row was written on a stale read
  client         \* the local state of each session

registrationVars ==
  <<user, confirmation, told, lost, guesses, raced, client>>

ASSUME RegistrationAssumption ==
  /\ MaxAttempts \in Nat \ {0} /\ MaxCodes \in Nat
  /\ NoUser \notin Users /\ NoEmail \notin Emails /\ NoId \notin NationalIds

UserRow ==
  [email : Emails \cup {NoEmail}, nationalId : NationalIds \cup {NoId},
   verified : BOOLEAN]

CodeRow == [code : Nat, attempts : Nat, expired : BOOLEAN, verified : BOOLEAN]
CodeView == [code : Nat, attempts : Nat]

ClientState ==
  [op : {"none", "register", "create", "confirm", "resend"},
   pc : {"idle", "insert", "issue", "answer", "readCode", "wrong", "right",
         "reissue"},
   row : UserRow, user : Users \cup {NoUser}, view : CodeView]

NoRow == [email |-> NoEmail, nationalId |-> NoId, verified |-> FALSE]
NoCode == [code |-> 0, attempts |-> 0, expired |-> FALSE, verified |-> FALSE]
IdleClient ==
  [op |-> "none", pc |-> "idle", row |-> NoRow, user |-> NoUser,
   view |-> [code |-> 0, attempts |-> 0]]

RegistrationInit ==
  /\ user = [u \in Users |-> NoRow]
  /\ confirmation = [u \in Users |-> NoCode]
  /\ told = {} /\ lost = {} /\ raced = {}
  /\ guesses = [u \in Users |-> 0]
  /\ client = [r \in Clients |-> IdleClient]

Exists(u) == user[u].email # NoEmail
EmailExists(e) == \E u \in Users : user[u].email = e
NationalIdExists(n) == n # NoId /\ \E u \in Users : user[u].nationalId = n
AttemptsExhausted(row) == row.attempts >= MaxAttempts
Done(r) == client' = [client EXCEPT ![r] = IdleClient]
AtStep(r, pc) == client[r].pc = pc

\* A registration whose user row is committed and that has not answered yet.
Unanswered(r) == AtStep(r, "issue") \/ AtStep(r, "answer")

-----------------------------------------------------------------------------
(* POST /auth/register and POST /admin/customers *)

\* Both handlers look the e-mail and the national id up before they insert;
\* an admin has seen the customer, whose e-mail needs no code.
CheckNewUser(r, op, e, n) ==
  /\ AtStep(r, "idle")
  /\ ~EmailExists(e) /\ ~NationalIdExists(n)
  /\ client' = [client EXCEPT
       ![r] = [IdleClient EXCEPT !.op = op, !.pc = "insert",
                 !.row = [email |-> e, nationalId |-> n,
                          verified |-> op = "create"]]]
  /\ UNCHANGED <<user, confirmation, told, lost, guesses, raced>>

Register(r, e, n) == CheckNewUser(r, "register", e, n)
CreateCustomer(r, e, n) == n # NoId /\ CheckNewUser(r, "create", e, n)

\* Faulty variant: the pre-check alone is trusted, no UNIQUE constraint.
InsertUnchecked(r) ==
  /\ AtStep(r, "insert")
  /\ \E u \in {v \in Users : ~Exists(v)} :
       /\ user' = [user EXCEPT ![u] = client[r].row]
       /\ client' = [client EXCEPT
            ![r] = IF client[r].op = "create" THEN IdleClient
                   ELSE [client[r] EXCEPT !.pc = "issue", !.user = u]]
  /\ UNCHANGED <<confirmation, told, lost, guesses, raced>>

\* Faulty variant: the user row is committed on its own, so that the customer
\* row's conflict leaves it behind.
InsertUserAlone(r) ==
  LET row == client[r].row
      conflict == NationalIdExists(row.nationalId)
  IN
  /\ AtStep(r, "insert")
  /\ ~EmailExists(row.email)
  /\ \E u \in {v \in Users : ~Exists(v)} :
       /\ user' = [user EXCEPT
            ![u] = IF conflict THEN [row EXCEPT !.nationalId = NoId] ELSE row]
       /\ client' = [client EXCEPT
            ![r] = IF conflict \/ client[r].op = "create" THEN IdleClient
                   ELSE [client[r] EXCEPT !.pc = "issue", !.user = u]]
  /\ UNCHANGED <<confirmation, told, lost, guesses, raced>>

\* The flush inserts the user, the commit the customer; either may meet a
\* UNIQUE constraint, which rolls both back and answers 409.
InsertUser(r) ==
  LET row == client[r].row IN
  /\ AtStep(r, "insert")
  /\ \/ /\ EmailExists(row.email) \/ NationalIdExists(row.nationalId)
        /\ Done(r)
        /\ UNCHANGED user
     \/ /\ ~EmailExists(row.email) /\ ~NationalIdExists(row.nationalId)
        /\ \E u \in {v \in Users : ~Exists(v)} :
             /\ user' = [user EXCEPT ![u] = row]
             /\ client' = [client EXCEPT
                  ![r] = IF client[r].op = "create" THEN IdleClient
                         ELSE [client[r] EXCEPT !.pc = "issue", !.user = u]]
  /\ UNCHANGED <<confirmation, told, lost, guesses, raced>>

\* The second commit of a registration: the first code.
IssueFirstCode(r) ==
  /\ AtStep(r, "issue")
  /\ confirmation' =
       [confirmation EXCEPT ![client[r].user] = [NoCode EXCEPT !.code = 1]]
  /\ client' = [client EXCEPT ![r].pc = "answer"]
  /\ UNCHANGED <<user, told, lost, guesses, raced>>

\* The broker takes the code for each channel, and the request answers: the
\* answer is the only message that carries the user's id.
AnswerRegistration(r) ==
  /\ AtStep(r, "answer")
  /\ told' = told \cup {client[r].user}
  /\ Done(r)
  /\ UNCHANGED <<user, confirmation, lost, guesses, raced>>

\* The process stops, or the broker refuses the audit task ahead of the second
\* commit or a notification behind it: what is not committed is rolled back
\* and nobody is answered.
Stop(r) ==
  /\ ~AtStep(r, "idle")
  /\ lost' = IF Unanswered(r) THEN lost \cup {client[r].user} ELSE lost
  /\ Done(r)
  /\ UNCHANGED <<user, confirmation, told, guesses, raced>>

-----------------------------------------------------------------------------
(* POST /auth/register/confirm and POST /auth/register/resend-otp *)

\* Both handlers read the user row first; the caller names it by its id.
ReadUser(r, op, u) ==
  /\ AtStep(r, "idle")
  /\ u \in told /\ ~user[u].verified
  /\ client' = [client EXCEPT
       ![r] = [IdleClient EXCEPT !.op = op, !.pc = "readCode", !.user = u]]
  /\ UNCHANGED <<user, confirmation, told, lost, guesses, raced>>

View(u) ==
  [code |-> confirmation[u].code, attempts |-> confirmation[u].attempts]

\* The writes of a session are stale when the row is no longer what it read.
Stale(r, u) == client[r].view # View(u)

ConfirmRegistration(r, u) == ReadUser(r, "confirm", u)

\* The code row is read next: expired or exhausted, the request is refused,
\* otherwise the caller's code (an earlier one, or 0 for a guess) is compared.
CompareCode(r, c) ==
  LET u == client[r].user
      row == confirmation[u]
  IN
  /\ AtStep(r, "readCode") /\ client[r].op = "confirm"
  /\ c <= row.code
  /\ client' = [client EXCEPT
       ![r] = IF row.expired \/ AttemptsExhausted(row) THEN IdleClient
              ELSE [client[r] EXCEPT
                      !.pc = IF c = row.code THEN "right" ELSE "wrong",
                      !.view = View(u)]]
  /\ UNCHANGED <<user, confirmation, told, lost, guesses, raced>>

\* Faulty variant: the request is refused without counting the attempt.
CountNothing(r) ==
  LET u == client[r].user IN
  /\ AtStep(r, "wrong")
  /\ guesses' = [guesses EXCEPT ![u] = @ + 1]
  /\ Done(r)
  /\ UNCHANGED <<user, confirmation, told, lost, raced>>

\* Faulty variant: the column counts the attempts that are left.
CountDown(r) ==
  LET u == client[r].user
      view == client[r].view
  IN
  /\ AtStep(r, "wrong")
  /\ confirmation' =
       [confirmation EXCEPT ![u].attempts = view.attempts - 1]
  /\ guesses' = [guesses EXCEPT ![u] = @ + 1]
  /\ Done(r)
  /\ UNCHANGED <<user, told, lost, raced>>

\* attempts = attempts read + 1, committed before the request is refused.
RegisterFailedAttempt(r) ==
  LET u == client[r].user
      view == client[r].view
  IN
  /\ AtStep(r, "wrong")
  /\ confirmation' =
       [confirmation EXCEPT ![u].attempts = view.attempts + 1]
  /\ guesses' = [guesses EXCEPT
       ![u] = IF view.code = confirmation[u].code THEN @ + 1 ELSE @]
  /\ raced' = IF Stale(r, u) THEN raced \cup {u} ELSE raced
  /\ Done(r)
  /\ UNCHANGED <<user, told, lost>>

\* Faulty variant: the code row is not marked as used.
VerifyWithoutMark(r) ==
  /\ AtStep(r, "right")
  /\ user' = [user EXCEPT ![client[r].user].verified = TRUE]
  /\ Done(r)
  /\ UNCHANGED <<confirmation, told, lost, guesses, raced>>

VerifyEmail(r) ==
  LET u == client[r].user IN
  /\ AtStep(r, "right")
  /\ user' = [user EXCEPT ![u].verified = TRUE]
  /\ confirmation' = [confirmation EXCEPT ![u].verified = TRUE]
  /\ Done(r)
  /\ UNCHANGED <<told, lost, guesses, raced>>

ResendRegistrationOtp(r, u) ==
  /\ confirmation[u].code < MaxCodes  \* bound
  /\ ReadUser(r, "resend", u)

ReadCodeRow(r) ==
  /\ AtStep(r, "readCode") /\ client[r].op = "resend"
  /\ client' = [client EXCEPT ![r] =
       [@ EXCEPT !.pc = "reissue", !.view = View(client[r].user)]]
  /\ UNCHANGED <<user, confirmation, told, lost, guesses, raced>>

\* The ORM writes the columns that changed: attempts = 0 is not sent when 0
\* is what the session read, whatever the row holds by then.  The caller knows
\* its id already: what fails after this commit strands nobody.
Reissue(r) ==
  LET u == client[r].user
      view == client[r].view
  IN
  /\ AtStep(r, "reissue")
  /\ confirmation' = [confirmation EXCEPT
       ![u].code = @ + 1, ![u].expired = FALSE,
       ![u].attempts = IF view.attempts = 0 THEN @ ELSE 0]
  /\ guesses' = [guesses EXCEPT ![u] = 0]
  /\ raced' = IF Stale(r, u) THEN raced \cup {u} ELSE raced \ {u}
  /\ Done(r)
  /\ UNCHANGED <<user, told, lost>>

\* expires_at passes.
ExpireCode(u) ==
  /\ confirmation[u].code > 0 /\ ~confirmation[u].expired
  /\ confirmation' = [confirmation EXCEPT ![u].expired = TRUE]
  /\ UNCHANGED <<user, told, lost, guesses, raced, client>>

-----------------------------------------------------------------------------

ClientNext(r) ==
  \/ \E e \in Emails, n \in NationalIds \cup {NoId} :
       Register(r, e, n) \/ CreateCustomer(r, e, n)
  \/ InsertUser(r) \/ IssueFirstCode(r) \/ AnswerRegistration(r) \/ Stop(r)
  \/ \E u \in Users : ConfirmRegistration(r, u) \/ ResendRegistrationOtp(r, u)
  \/ \E c \in 0 .. MaxCodes : CompareCode(r, c)
  \/ RegisterFailedAttempt(r) \/ VerifyEmail(r)
  \/ ReadCodeRow(r) \/ Reissue(r)

RegistrationNext ==
  \/ \E r \in Clients : ClientNext(r)
  \/ \E u \in Users : ExpireCode(u)

RegistrationSpec == RegistrationInit /\ [][RegistrationNext]_registrationVars

-----------------------------------------------------------------------------
(* Properties *)

\* The type invariant: rows and session states have the columns and values
\* of the models in auth, users and customers.
RegistrationTypeOK ==
  /\ user \in [Users -> UserRow]
  /\ confirmation \in [Users -> CodeRow]
  /\ told \subseteq Users /\ lost \subseteq Users /\ raced \subseteq Users
  /\ guesses \in [Users -> Nat]
  /\ client \in [Clients -> ClientState]

\* However registrations and admin creations interleave between their check
\* and their insert, no e-mail and no national id ends up with two users.
OneUserPerIdentity ==
  \A u, v \in Users :
    (u # v /\ Exists(u) /\ Exists(v)) =>
      /\ user[u].email # user[v].email
      /\ user[u].nationalId # user[v].nationalId \/ user[u].nationalId = NoId

\* A self-registered user is verified exactly when its own code row is: the
\* two rows are written by one commit, and no other request undoes either.
VerifiedByItsCode ==
  \A u \in Users : confirmation[u].code > 0 =>
    (user[u].verified <=> confirmation[u].verified)

\* Every wrong code is counted, and no code takes more wrong guesses than
\* max_attempts, unless two requests on the code row overlapped.
GuessesAreCounted ==
  \A u \in Users \ raced :
    /\ guesses[u] = confirmation[u].attempts
    /\ guesses[u] <= MaxAttempts

\* A user that is neither verified nor known by its id to the person who
\* registered is being answered, or its registration was cut off after its
\* first commit.  Nothing else strands an e-mail address, and nothing frees
\* one: whoever was not answered can neither confirm nor ask for a code.
OnlyAStopStrands ==
  /\ \A u \in Users : Exists(u) =>
       \/ user[u].verified \/ u \in told \/ u \in lost
       \/ \E r \in Clients : Unanswered(r) /\ client[r].user = u
  /\ \A u \in lost : u \notin told /\ ~user[u].verified

=============================================================================
