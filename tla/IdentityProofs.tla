--------------------------- MODULE IdentityProofs ---------------------------
(***************************************************************************)
(* Theorems about Identity, for every value of its constants.  The heart   *)
(* of the invariant is what a request still knows of the rows it has read  *)
(* (Knows): a rotation whose token has not been revoked meanwhile has that *)
(* token's session, and a revocation misses no token inserted before its   *)
(* SELECT.                                                                 *)
(***************************************************************************)
EXTENDS Identity, SequenceTheorems, TLAPS

-----------------------------------------------------------------------------
(* Registration *)

InCode(r) == client[r].pc \in {"readCode", "wrong", "right", "reissue"}

\* What a session knows of the rows it works on.
SessionKnows(r) ==
  /\ AtStep(r, "insert") =>
       /\ client[r].row.email \in Emails
       /\ client[r].op \in {"register", "create"}
       /\ client[r].row.verified <=> client[r].op = "create"
  /\ Unanswered(r) =>
       /\ client[r].user \in Users \ (told \cup lost)
       /\ Exists(client[r].user)
       /\ ~user[client[r].user].verified
  /\ AtStep(r, "answer") => confirmation[client[r].user].code > 0
  /\ InCode(r) => client[r].user \in told
  /\ AtStep(r, "wrong") => client[r].view.attempts < MaxAttempts

\* Whoever was told an id can use the code row; nobody else works on it.
RowsAgree ==
  \A u \in Users :
    /\ u \in told => confirmation[u].code > 0
    /\ confirmation[u].code > 0 => Exists(u)
    /\ u \notin told => guesses[u] = 0
    /\ u \in lost => Exists(u) /\ u \notin told /\ ~user[u].verified

\* No two sessions register one user.
IssuersDiffer ==
  \A q, r \in Clients :
    (Unanswered(q) /\ Unanswered(r) /\ client[q].user = client[r].user)
      => q = r

RInv ==
  /\ RegistrationTypeOK
  /\ \A r \in Clients : SessionKnows(r)
  /\ RowsAgree
  /\ IssuersDiffer

\* An idle session is a well-formed one.
LEMMA IdleClientType == IdleClient \in ClientState /\ IdleClient.pc = "idle"
BY DEF IdleClient, ClientState, NoRow, UserRow, CodeView

\* A step of one session that leaves the rows alone.
LEMMA SessionMoves ==
  ASSUME RInv, NEW r \in Clients, NEW new \in ClientState,
         client' = [client EXCEPT ![r] = new],
         new.pc \notin {"issue", "answer"},
         UNCHANGED <<user, confirmation, told, lost, guesses, raced>>,
         new.pc = "insert" =>
           /\ new.row.email \in Emails /\ new.op \in {"register", "create"}
           /\ new.row.verified <=> new.op = "create",
         new.pc \in {"readCode", "wrong", "right", "reissue"} => new.user \in told,
         new.pc = "wrong" => new.view.attempts < MaxAttempts
  PROVE  RInv'
<1>1. RegistrationTypeOK'
  BY DEF RInv, RegistrationTypeOK
<1>2. client'[r] = new /\ \A q \in Clients \ {r} : client'[q] = client[q]
  BY DEF RInv, RegistrationTypeOK
<1>3. \A q \in Clients : SessionKnows(q)'
  <2> SUFFICES ASSUME NEW q \in Clients PROVE SessionKnows(q)'
    OBVIOUS
  <2>1. CASE q = r
    BY <1>2, <2>1 DEF SessionKnows, Unanswered, AtStep, InCode, Exists
  <2>2. CASE q # r
    BY <1>2, <2>2 DEF RInv, SessionKnows, Unanswered, AtStep, InCode, Exists
  <2> QED
    BY <2>1, <2>2
<1>4. RowsAgree'
  BY DEF RInv, RowsAgree, Exists
<1>5. IssuersDiffer'
  BY <1>2 DEF RInv, IssuersDiffer, Unanswered, AtStep
<1> QED
  BY <1>1, <1>3, <1>4, <1>5 DEF RInv

\* A session that ends, after it has written of a user that was told its id
\* what keeps the rows in shape.
LEMMA SessionEnds ==
  ASSUME RInv, NEW r \in Clients, Done(r), RegistrationTypeOK',
         UNCHANGED <<told, lost>>, RowsAgree',
         \A u \in Users \ told : /\ user'[u] = user[u]
                                 /\ confirmation'[u] = confirmation[u]
  PROVE  RInv'
<1>1. /\ client'[r].pc = "idle"
      /\ \A q \in Clients \ {r} : client'[q] = client[q]
  BY IdleClientType DEF RInv, RegistrationTypeOK, Done
<1>2. \A q \in Clients : SessionKnows(q)'
  <2> SUFFICES ASSUME NEW q \in Clients PROVE SessionKnows(q)'
    OBVIOUS
  <2>1. CASE q = r
    BY <1>1, <2>1 DEF SessionKnows, Unanswered, AtStep, InCode
  <2>2. CASE q # r
    BY <1>1, <2>2 DEF RInv, SessionKnows, Unanswered, AtStep, InCode, Exists
  <2> QED
    BY <2>1, <2>2
<1>3. IssuersDiffer'
  BY <1>1 DEF RInv, IssuersDiffer, Unanswered, AtStep
<1> QED
  BY <1>2, <1>3 DEF RInv

\* The empty database satisfies the invariant.
LEMMA RInvInit == RegistrationInit => RInv
<1> SUFFICES ASSUME RegistrationInit PROVE RInv
  OBVIOUS
<1>1. RegistrationTypeOK
  BY IdleClientType
  DEF RegistrationInit, RegistrationTypeOK, NoRow, UserRow, NoCode, CodeRow
<1>2. \A r \in Clients : client[r].pc = "idle"
  BY IdleClientType DEF RegistrationInit
<1> QED
  BY <1>1, <1>2
  DEF RegistrationInit, RInv, SessionKnows, Unanswered, AtStep, InCode,
      RowsAgree, IssuersDiffer, NoCode

\* Looking up an e-mail, or a user, and nothing more.
LEMMA CheckNewUserStep ==
  ASSUME RInv, NEW r \in Clients, NEW op \in {"register", "create"},
         NEW e \in Emails, NEW n \in NationalIds \cup {NoId},
         CheckNewUser(r, op, e, n)
  PROVE  RInv'
<1> DEFINE row == [email |-> e, nationalId |-> n, verified |-> op = "create"]
           new == [IdleClient EXCEPT !.op = op, !.pc = "insert", !.row = row]
<1>1. /\ row \in UserRow /\ row.email = e
      /\ row.verified <=> op = "create"
  BY DEF UserRow
<1>2. client' = [client EXCEPT ![r] = new]
  BY DEF CheckNewUser
<1> HIDE DEF row
<1>3. new \in ClientState /\ new.pc = "insert" /\ new.op = op /\ new.row = row
  BY <1>1, IdleClientType DEF IdleClient, ClientState
<1> HIDE DEF new
<1> QED
  BY <1>1, <1>2, <1>3, SessionMoves DEF CheckNewUser, RInv, RegistrationTypeOK

\* Reading the user row of a confirmation or a resend.
LEMMA ReadUserStep ==
  ASSUME RInv, NEW r \in Clients, NEW op \in {"confirm", "resend"},
         NEW u \in Users, ReadUser(r, op, u)
  PROVE  RInv'
<1> DEFINE new == [IdleClient EXCEPT !.op = op, !.pc = "readCode", !.user = u]
<1>1. new \in ClientState /\ new.pc = "readCode" /\ new.user = u
  BY IdleClientType DEF IdleClient, ClientState
<1>2. client' = [client EXCEPT ![r] = new]
  BY DEF ReadUser
<1> HIDE DEF new
<1> QED
  BY <1>1, <1>2, SessionMoves DEF ReadUser, RInv, RegistrationTypeOK

\* What a session keeps of a code row.
LEMMA ViewType ==
  ASSUME RInv, NEW u \in Users
  PROVE  View(u) \in CodeView /\ View(u).attempts = confirmation[u].attempts
BY DEF RInv, RegistrationTypeOK, CodeRow, CodeView, View

\* The first commit of a registration, refused or not.
LEMMA InsertUserStep ==
  ASSUME RInv, NEW r \in Clients, InsertUser(r)
  PROVE  RInv'
<1> DEFINE row == client[r].row
<1>1. /\ client[r] \in ClientState /\ row \in UserRow
      /\ row.email \in Emails /\ row.email # NoEmail
      /\ client[r].op \in {"register", "create"}
      /\ row.verified <=> client[r].op = "create"
  BY RegistrationAssumption
  DEF RInv, RegistrationTypeOK, ClientState, InsertUser, SessionKnows, AtStep
<1>2. CASE Done(r) /\ UNCHANGED user
  BY <1>2, SessionMoves, IdleClientType
  DEF InsertUser, Done, RInv, RegistrationTypeOK
<1>3. ASSUME NEW u \in Users, ~Exists(u), user' = [user EXCEPT ![u] = row],
             client' = [client EXCEPT
               ![r] = IF client[r].op = "create" THEN IdleClient
                      ELSE [client[r] EXCEPT !.pc = "issue", !.user = u]]
      PROVE  RInv'
  <2> DEFINE new == IF client[r].op = "create" THEN IdleClient
                    ELSE [client[r] EXCEPT !.pc = "issue", !.user = u]
  <2>1. /\ new \in ClientState
        /\ \/ new.pc = "idle"
           \/ new.pc = "issue" /\ new.user = u /\ ~row.verified
    BY <1>1, IdleClientType DEF ClientState
  <2>2. client' = [client EXCEPT ![r] = new]
    BY <1>3
  <2> HIDE DEF new, row
  <2>3. client'[r] = new /\ \A q \in Clients \ {r} : client'[q] = client[q]
    BY <2>2 DEF RInv, RegistrationTypeOK
  <2>4. /\ user'[u] = row /\ \A v \in Users \ {u} : user'[v] = user[v]
        /\ UNCHANGED <<confirmation, told, lost, guesses, raced>>
    BY <1>3 DEF RInv, RegistrationTypeOK, InsertUser
  <2>5. u \notin told \cup lost
    BY <1>3 DEF RInv, RowsAgree
  <2>6. RegistrationTypeOK'
    BY <1>1, <1>3, <2>1, <2>2, <2>4 DEF RInv, RegistrationTypeOK
  <2>7. ASSUME NEW q \in Clients PROVE SessionKnows(q)'
    <3>1. CASE q = r
      BY <1>1, <2>1, <2>3, <2>4, <2>5, <3>1
      DEF SessionKnows, Unanswered, AtStep, InCode, Exists
    <3>2. CASE q # r
      <4>1. Unanswered(q) => client[q].user # u
        BY <1>3 DEF RInv, SessionKnows
      <4> QED
        BY <2>3, <2>4, <3>2, <4>1
        DEF RInv, SessionKnows, Unanswered, AtStep, InCode, Exists
    <3> QED
      BY <3>1, <3>2
  <2>8. RowsAgree'
    BY <1>1, <2>4, <2>5 DEF RInv, RowsAgree, Exists
  <2>9. IssuersDiffer'
    <3>1. \A q \in Clients : Unanswered(q) => client[q].user # u
      BY <1>3 DEF RInv, SessionKnows
    <3> QED
      BY <2>1, <2>3, <3>1 DEF RInv, IssuersDiffer, Unanswered, AtStep
  <2> QED
    BY <2>6, <2>7, <2>8, <2>9 DEF RInv
<1> QED
  BY <1>2, <1>3 DEF InsertUser

\* The second commit of a registration.
LEMMA IssueFirstCodeStep ==
  ASSUME RInv, NEW r \in Clients, IssueFirstCode(r)
  PROVE  RInv'
<1> DEFINE u == client[r].user
           first == [NoCode EXCEPT !.code = 1]
           new == [client[r] EXCEPT !.pc = "answer"]
<1>1. /\ u \in Users \ (told \cup lost) /\ Exists(u) /\ ~user[u].verified
      /\ Unanswered(r) /\ client[r] \in ClientState
  BY DEF RInv, SessionKnows, Unanswered, IssueFirstCode, RegistrationTypeOK
<1>2. first \in CodeRow /\ first.code = 1
  BY DEF NoCode, CodeRow
<1>3. new \in ClientState /\ new.pc = "answer" /\ new.user = u
  BY <1>1 DEF ClientState
<1>4. /\ confirmation' = [confirmation EXCEPT ![u] = first]
      /\ client' = [client EXCEPT ![r] = new]
      /\ UNCHANGED <<user, told, lost, guesses, raced>>
  BY DEF IssueFirstCode
<1> HIDE DEF u, first, new
<1>5. RegistrationTypeOK'
  BY <1>1, <1>2, <1>3, <1>4 DEF RInv, RegistrationTypeOK
<1>6. /\ client'[r] = new /\ confirmation'[u] = first
      /\ \A q \in Clients \ {r} : client'[q] = client[q]
      /\ \A v \in Users \ {u} : confirmation'[v] = confirmation[v]
  BY <1>1, <1>4 DEF RInv, RegistrationTypeOK
<1>7. ASSUME NEW q \in Clients PROVE SessionKnows(q)'
  <2>1. CASE q = r
    BY <1>1, <1>2, <1>3, <1>4, <1>6, <2>1
    DEF SessionKnows, Unanswered, AtStep, InCode, Exists
  <2>2. CASE q # r
    BY <1>2, <1>4, <1>6, <2>2
    DEF RInv, SessionKnows, Unanswered, AtStep, InCode, Exists
  <2> QED
    BY <2>1, <2>2
<1>8. RowsAgree'
  BY <1>1, <1>2, <1>4, <1>6 DEF RInv, RowsAgree, Exists
<1>9. IssuersDiffer'
  BY <1>1, <1>3, <1>6 DEF RInv, IssuersDiffer, Unanswered, AtStep, u
<1> QED
  BY <1>5, <1>7, <1>8, <1>9 DEF RInv

\* The end of a registration, which tells its user's id or loses it.
LEMMA RegistrationEnds ==
  ASSUME RInv, NEW r \in Clients, Unanswered(r), Done(r),
         UNCHANGED <<user, confirmation, guesses, raced>>,
         \/ /\ told' = told \cup {client[r].user} /\ UNCHANGED lost
            /\ confirmation[client[r].user].code > 0
         \/ lost' = lost \cup {client[r].user} /\ UNCHANGED told
  PROVE  RInv'
<1> DEFINE u == client[r].user
<1>1. u \in Users \ (told \cup lost) /\ Exists(u) /\ ~user[u].verified
  BY DEF RInv, SessionKnows
<1>2. \A q \in Clients \ {r} : Unanswered(q) => client[q].user # u
  BY DEF RInv, IssuersDiffer
<1>3. /\ client'[r].pc = "idle" /\ client' \in [Clients -> ClientState]
      /\ \A q \in Clients \ {r} : client'[q] = client[q]
  BY IdleClientType DEF RInv, RegistrationTypeOK, Done
<1>4. told' \cup lost' = told \cup lost \cup {u} /\ told \subseteq told'
  OBVIOUS
<1>5. ASSUME NEW q \in Clients PROVE SessionKnows(q)'
  <2>1. CASE q = r
    BY <1>3, <2>1 DEF SessionKnows, Unanswered, AtStep, InCode
  <2>2. CASE q # r
    <3>1. SessionKnows(q) /\ client'[q] = client[q]
      BY <1>3, <2>2 DEF RInv
    <3> QED
      BY <1>2, <1>4, <2>2, <3>1
      DEF SessionKnows, Unanswered, AtStep, InCode, Exists
  <2> QED
    BY <2>1, <2>2
<1>6. RowsAgree'
  BY <1>1 DEF RInv, RowsAgree, Exists
<1>7. IssuersDiffer'
  BY <1>3 DEF RInv, IssuersDiffer, Unanswered, AtStep
<1>8. RegistrationTypeOK'
  BY <1>1, <1>3 DEF RInv, RegistrationTypeOK
<1> QED
  BY <1>5, <1>6, <1>7, <1>8 DEF RInv

\* The answer of a registration.
LEMMA AnswerRegistrationStep ==
  ASSUME RInv, NEW r \in Clients, AnswerRegistration(r)
  PROVE  RInv'
BY RegistrationEnds DEF AnswerRegistration, Unanswered, RInv, SessionKnows

\* A confirmation compares a code.
LEMMA CompareCodeStep ==
  ASSUME RInv, NEW r \in Clients, NEW c \in Nat, CompareCode(r, c)
  PROVE  RInv'
<1> DEFINE u == client[r].user
           next == IF c = confirmation[u].code THEN "right" ELSE "wrong"
           new == [client[r] EXCEPT !.pc = next, !.view = View(u)]
<1>1. u \in told /\ u \in Users /\ client[r] \in ClientState
  BY DEF RInv, SessionKnows, InCode, AtStep, CompareCode, RegistrationTypeOK
<1>2. CASE client' = [client EXCEPT ![r] = IdleClient]
  BY <1>2, SessionMoves, IdleClientType
  DEF CompareCode, RInv, RegistrationTypeOK
<1>3. CASE /\ client' = [client EXCEPT ![r] = new]
           /\ ~AttemptsExhausted(confirmation[u])
  <2>1. /\ new \in ClientState /\ new.pc = next /\ new.user = u
        /\ new.view.attempts = confirmation[u].attempts
    BY <1>1, ViewType DEF ClientState
  <2>2. confirmation[u].attempts < MaxAttempts
    BY <1>1, <1>3, RegistrationAssumption
    DEF AttemptsExhausted, RInv, RegistrationTypeOK, CodeRow
  <2>3. next \in {"right", "wrong"}
    OBVIOUS
  <2>4. client' = [client EXCEPT ![r] = new]
    BY <1>3
  <2> HIDE DEF new, next
  <2> QED
    BY <1>1, <2>1, <2>2, <2>3, <2>4, SessionMoves
    DEF CompareCode, RInv, RegistrationTypeOK
<1> QED
  BY <1>2, <1>3 DEF CompareCode

\* A resend reads the code row.
LEMMA ReadCodeRowStep ==
  ASSUME RInv, NEW r \in Clients, ReadCodeRow(r)
  PROVE  RInv'
<1> DEFINE u == client[r].user
           new == [client[r] EXCEPT !.pc = "reissue", !.view = View(u)]
<1>1. u \in told /\ u \in Users /\ client[r] \in ClientState
  BY DEF RInv, SessionKnows, InCode, AtStep, ReadCodeRow, RegistrationTypeOK
<1>2. new \in ClientState /\ new.pc = "reissue" /\ new.user = u
  BY <1>1, ViewType DEF ClientState
<1>3. client' = [client EXCEPT ![r] = new]
  BY DEF ReadCodeRow, RInv, RegistrationTypeOK
<1> HIDE DEF new
<1> QED
  BY <1>1, <1>2, <1>3, SessionMoves DEF ReadCodeRow, RInv, RegistrationTypeOK

\* What a session that has read a code row knows when it writes.
LEMMA Writer ==
  ASSUME RInv, NEW r \in Clients, InCode(r)
  PROVE  /\ client[r] \in ClientState /\ client[r].view \in CodeView
         /\ client[r].user \in told /\ client[r].user \in Users
         /\ confirmation[client[r].user] \in CodeRow
         /\ user[client[r].user] \in UserRow
         /\ guesses[client[r].user] \in Nat
         /\ confirmation[client[r].user].code > 0
         /\ Exists(client[r].user)
BY DEF RInv, SessionKnows, RegistrationTypeOK, ClientState, RowsAgree

\* A wrong code is counted.
LEMMA RegisterFailedAttemptStep ==
  ASSUME RInv, NEW r \in Clients, RegisterFailedAttempt(r)
  PROVE  RInv'
<1> DEFINE u == client[r].user
           row == [confirmation[u] EXCEPT !.attempts = client[r].view.attempts + 1]
<1>0. InCode(r)
  BY DEF RegisterFailedAttempt, InCode, AtStep
<1>1. row \in CodeRow /\ row.code = confirmation[u].code
  BY <1>0, Writer DEF CodeRow, CodeView
<1>2. confirmation' = [confirmation EXCEPT ![u] = row]
  BY <1>0, Writer DEF RegisterFailedAttempt, RInv, RegistrationTypeOK
<1>3. /\ guesses' \in [Users -> Nat]
      /\ \A v \in Users \ {u} : guesses'[v] = guesses[v]
  BY <1>0, Writer DEF RegisterFailedAttempt, RInv, RegistrationTypeOK
<1>4. raced' \subseteq raced \cup {u} /\ UNCHANGED <<user, told, lost>>
  BY DEF RegisterFailedAttempt
<1> HIDE DEF row
<1>5. RegistrationTypeOK'
  BY <1>0, <1>1, <1>2, <1>3, <1>4, Writer, IdleClientType
  DEF RInv, RegistrationTypeOK, RegisterFailedAttempt, Done
<1>6. RowsAgree'
  BY <1>0, <1>1, <1>2, <1>3, <1>4, Writer
  DEF RInv, RegistrationTypeOK, RowsAgree, Exists
<1>7. \A v \in Users \ told : confirmation'[v] = confirmation[v]
  BY <1>0, <1>2, Writer DEF RInv, RegistrationTypeOK
<1> QED
  BY <1>4, <1>5, <1>6, <1>7, SessionEnds DEF RegisterFailedAttempt

\* The right code verifies user and row.
LEMMA VerifyEmailStep ==
  ASSUME RInv, NEW r \in Clients, VerifyEmail(r)
  PROVE  RInv'
<1> DEFINE u == client[r].user
           row == [confirmation[u] EXCEPT !.verified = TRUE]
           person == [user[u] EXCEPT !.verified = TRUE]
<1>0. InCode(r)
  BY DEF VerifyEmail, InCode, AtStep
<1>1. row \in CodeRow /\ row.code = confirmation[u].code
  BY <1>0, Writer DEF CodeRow
<1>2. person \in UserRow /\ person.email = user[u].email
  BY <1>0, Writer DEF UserRow
<1>3. /\ confirmation' = [confirmation EXCEPT ![u] = row]
      /\ user' = [user EXCEPT ![u] = person]
      /\ UNCHANGED <<told, lost, guesses, raced>>
  BY <1>0, Writer DEF VerifyEmail, RInv, RegistrationTypeOK
<1> HIDE DEF row, person
<1>4. RegistrationTypeOK'
  BY <1>0, <1>1, <1>2, <1>3, Writer, IdleClientType
  DEF RInv, RegistrationTypeOK, VerifyEmail, Done
<1>5. RowsAgree' /\ \A v \in Users \ told : /\ user'[v] = user[v]
                                              /\ confirmation'[v] = confirmation[v]
  BY <1>0, <1>1, <1>2, <1>3, Writer
  DEF RInv, RegistrationTypeOK, RowsAgree, Exists
<1> QED
  BY <1>3, <1>4, <1>5, SessionEnds DEF VerifyEmail

\* A resend writes a new code.
LEMMA ReissueStep ==
  ASSUME RInv, NEW r \in Clients, Reissue(r)
  PROVE  RInv'
<1> DEFINE u == client[r].user
           attempts == IF client[r].view.attempts = 0
                       THEN confirmation[u].attempts ELSE 0
           code == confirmation[u].code + 1
           row == [confirmation[u] EXCEPT !.code = code, !.expired = FALSE,
                                          !.attempts = attempts]
<1>0. InCode(r)
  BY DEF Reissue, InCode, AtStep
<1>1. /\ u \in Users /\ u \in told /\ confirmation[u] \in CodeRow
      /\ attempts \in Nat /\ code \in Nat /\ code > 0
  BY <1>0, Writer DEF CodeRow
<1>2. confirmation' = [confirmation EXCEPT ![u] = row]
  BY <1>1 DEF Reissue, RInv, RegistrationTypeOK, CodeRow
<1>3. /\ guesses' = [guesses EXCEPT ![u] = 0] /\ raced' \subseteq raced \cup {u}
      /\ UNCHANGED <<user, told, lost>>
  BY DEF Reissue
<1> HIDE DEF attempts, code
<1>4. row \in CodeRow /\ row.code = code
  BY <1>1 DEF CodeRow
<1> HIDE DEF row
<1>5. RegistrationTypeOK'
  BY <1>0, <1>1, <1>2, <1>3, <1>4, Writer, IdleClientType
  DEF RInv, RegistrationTypeOK, Reissue, Done
<1>6. RowsAgree'
  BY <1>0, <1>1, <1>2, <1>3, <1>4, Writer
  DEF RInv, RegistrationTypeOK, RowsAgree, Exists
<1>7. \A v \in Users \ told : confirmation'[v] = confirmation[v]
  BY <1>1, <1>2 DEF RInv, RegistrationTypeOK
<1> QED
  BY <1>3, <1>5, <1>6, <1>7, SessionEnds DEF Reissue

\* A code expires.
LEMMA ExpireCodeStep ==
  ASSUME RInv, NEW u \in Users, ExpireCode(u)
  PROVE  RInv'
<1> DEFINE row == [confirmation[u] EXCEPT !.expired = TRUE]
<1>1. row \in CodeRow /\ row.code = confirmation[u].code
  BY DEF RInv, RegistrationTypeOK, CodeRow
<1>2. confirmation' = [confirmation EXCEPT ![u] = row]
  BY DEF ExpireCode, RInv, RegistrationTypeOK
<1>3. UNCHANGED <<user, told, lost, guesses, raced, client>>
  BY DEF ExpireCode
<1> HIDE DEF row
<1>5. RegistrationTypeOK'
  BY <1>1, <1>2, <1>3 DEF RInv, RegistrationTypeOK
<1>6. RowsAgree'
  BY <1>1, <1>2, <1>3 DEF RInv, RegistrationTypeOK, RowsAgree, Exists
<1>4. \A v \in Users : confirmation'[v].code = confirmation[v].code
  BY <1>1, <1>2 DEF RInv, RegistrationTypeOK
<1>7. \A r \in Clients : SessionKnows(r)'
  BY <1>3, <1>4 DEF RInv, SessionKnows, Unanswered, AtStep, InCode, Exists
<1> QED
  BY <1>3, <1>5, <1>6, <1>7 DEF RInv, IssuersDiffer, Unanswered, AtStep

\* A process stops, and its session rolls back.
LEMMA StopStep ==
  ASSUME RInv, NEW r \in Clients, Stop(r)
  PROVE  RInv'
<1>1. CASE Unanswered(r)
  BY <1>1, RegistrationEnds DEF Stop
<1>2. CASE ~Unanswered(r)
  BY <1>2, SessionMoves, IdleClientType DEF Stop, Done
<1> QED
  BY <1>1, <1>2

\* RInv is inductive.
LEMMA RInvNext == RInv /\ [RegistrationNext]_registrationVars => RInv'
<1> SUFFICES ASSUME RInv, [RegistrationNext]_registrationVars PROVE RInv'
  OBVIOUS
<1>1. ASSUME NEW r \in Clients, ClientNext(r) PROVE RInv'
  <2>1. ASSUME NEW e \in Emails, NEW n \in NationalIds \cup {NoId},
               Register(r, e, n) \/ CreateCustomer(r, e, n)
        PROVE  RInv'
    BY <2>1, CheckNewUserStep DEF Register, CreateCustomer
  <2>2. CASE InsertUser(r)
    BY <2>2, InsertUserStep
  <2>3. CASE IssueFirstCode(r)
    BY <2>3, IssueFirstCodeStep
  <2>4. CASE Stop(r)
    BY <2>4, StopStep
  <2>11. CASE AnswerRegistration(r)
    BY <2>11, AnswerRegistrationStep
  <2>5. ASSUME NEW u \in Users,
               ConfirmRegistration(r, u) \/ ResendRegistrationOtp(r, u)
        PROVE  RInv'
    BY <2>5, ReadUserStep DEF ConfirmRegistration, ResendRegistrationOtp
  <2>6. ASSUME NEW c \in 0 .. MaxCodes, CompareCode(r, c) PROVE RInv'
    BY <2>6, CompareCodeStep, RegistrationAssumption
  <2>7. CASE RegisterFailedAttempt(r)
    BY <2>7, RegisterFailedAttemptStep
  <2>8. CASE VerifyEmail(r)
    BY <2>8, VerifyEmailStep
  <2>9. CASE ReadCodeRow(r)
    BY <2>9, ReadCodeRowStep
  <2>10. CASE Reissue(r)
    BY <2>10, ReissueStep
  <2> QED
    BY <1>1, <2>1, <2>2, <2>3, <2>4, <2>5, <2>6, <2>7, <2>8, <2>9, <2>10,
       <2>11
    DEF ClientNext
<1>2. ASSUME NEW u \in Users, ExpireCode(u) PROVE RInv'
  BY <1>2, ExpireCodeStep
<1>3. CASE UNCHANGED registrationVars
  BY <1>3
  DEF registrationVars, RInv, RegistrationTypeOK, SessionKnows, Unanswered,
      AtStep, InCode, Exists, RowsAgree, IssuersDiffer
<1> QED
  BY <1>1, <1>2, <1>3 DEF RegistrationNext

\* Sign-up keeps its shape: the type invariant of auth, users and customers
\* rows, with what each session knows of the rows it read.
THEOREM SignUpIsOrderly == RegistrationSpec => []RInv
BY RInvInit, RInvNext, PTL DEF RegistrationSpec

\* Rows and session states have the columns and values of the models in
\* auth, users and customers, for any number of users, sessions and codes.
THEOREM RegistrationTypeCorrect == RegistrationSpec => []RegistrationTypeOK
<1>1. RInv => RegistrationTypeOK
  BY DEF RInv
<1> QED
  BY <1>1, SignUpIsOrderly, PTL

-----------------------------------------------------------------------------
(* The safety properties, each by a step lemma that starts from RInv. *)

\* No step but the insert changes the e-mail or the national id of a user.
LEMMA IdentitiesMove ==
  ASSUME RInv, [RegistrationNext]_registrationVars
  PROVE  \/ \A u \in Users : /\ user'[u].email = user[u].email
                             /\ user'[u].nationalId = user[u].nationalId
         \/ \E r \in Clients, u \in Users :
              /\ user' = [user EXCEPT ![u] = client[r].row]
              /\ ~EmailExists(client[r].row.email)
              /\ ~NationalIdExists(client[r].row.nationalId)
<1>1. CASE UNCHANGED user
  BY <1>1
<1>2. ASSUME NEW r \in Clients, InsertUser(r), user' # user
      PROVE  \E u \in Users :
               /\ user' = [user EXCEPT ![u] = client[r].row]
               /\ ~EmailExists(client[r].row.email)
               /\ ~NationalIdExists(client[r].row.nationalId)
  BY <1>2 DEF InsertUser
<1>3. ASSUME NEW r \in Clients, VerifyEmail(r)
      PROVE  \A u \in Users : /\ user'[u].email = user[u].email
                              /\ user'[u].nationalId = user[u].nationalId
  BY <1>3 DEF VerifyEmail, RInv, RegistrationTypeOK, UserRow
<1> QED
  BY <1>1, <1>2, <1>3
  DEF RegistrationNext, ClientNext, Register, CreateCustomer, CheckNewUser,
      IssueFirstCode, AnswerRegistration, Stop, ConfirmRegistration,
      ResendRegistrationOtp, ReadUser, CompareCode, RegisterFailedAttempt,
      ReadCodeRow, Reissue, ExpireCode, registrationVars

\* Two users never come to share an e-mail or a national id.
LEMMA OneUserPerIdentityStep ==
  ASSUME RInv, OneUserPerIdentity, [RegistrationNext]_registrationVars
  PROVE  OneUserPerIdentity'
<1>1. CASE \A u \in Users : /\ user'[u].email = user[u].email
                            /\ user'[u].nationalId = user[u].nationalId
  BY <1>1 DEF OneUserPerIdentity, Exists
<1>2. ASSUME NEW r \in Clients, NEW u \in Users,
             user' = [user EXCEPT ![u] = client[r].row],
             ~EmailExists(client[r].row.email),
             ~NationalIdExists(client[r].row.nationalId)
      PROVE  OneUserPerIdentity'
  <2>1. user'[u] = client[r].row /\ \A v \in Users \ {u} : user'[v] = user[v]
    BY <1>2 DEF RInv, RegistrationTypeOK
  <2>2. \A v \in Users \ {u} :
          /\ user'[v].email # user'[u].email
          /\ \/ user'[v].nationalId # user'[u].nationalId
             \/ user'[u].nationalId = NoId
    BY <1>2, <2>1 DEF EmailExists, NationalIdExists
  <2> QED
    BY <2>1, <2>2 DEF OneUserPerIdentity, Exists
<1> QED
  BY <1>1, <1>2, IdentitiesMove

\* However registrations and admin creations interleave between their check
\* and their insert, no e-mail and no national id ends up with two users.
THEOREM IdentitiesAreUnique == RegistrationSpec => []OneUserPerIdentity
<1>1. RegistrationInit => OneUserPerIdentity
  BY DEF RegistrationInit, OneUserPerIdentity, Exists, NoRow
<1> QED
  BY <1>1, OneUserPerIdentityStep, SignUpIsOrderly, PTL DEF RegistrationSpec

\* The user and its code row stay verified together.
LEMMA VerifiedByItsCodeStep ==
  ASSUME RInv, VerifiedByItsCode, [RegistrationNext]_registrationVars
  PROVE  VerifiedByItsCode'
<1>1. CASE UNCHANGED <<user, confirmation>>
  BY <1>1 DEF VerifiedByItsCode
<1>2. ASSUME NEW r \in Clients, InsertUser(r) PROVE VerifiedByItsCode'
  <2>1. \A u \in Users : confirmation[u].code > 0 => Exists(u)
    BY DEF RInv, RowsAgree
  <2> QED
    BY <1>2, <2>1
    DEF InsertUser, VerifiedByItsCode, RInv, RegistrationTypeOK
<1>3. ASSUME NEW r \in Clients, IssueFirstCode(r) PROVE VerifiedByItsCode'
  <2>1. ~user[client[r].user].verified /\ ~[NoCode EXCEPT !.code = 1].verified
    BY <1>3 DEF RInv, SessionKnows, Unanswered, IssueFirstCode, NoCode
  <2> QED
    BY <1>3, <2>1
    DEF IssueFirstCode, VerifiedByItsCode, RInv, RegistrationTypeOK
<1>4. ASSUME NEW r \in Clients, RegisterFailedAttempt(r)
      PROVE  VerifiedByItsCode'
  BY <1>4 DEF RegisterFailedAttempt, VerifiedByItsCode, RInv,
              RegistrationTypeOK, CodeRow
<1>5. ASSUME NEW r \in Clients, VerifyEmail(r) PROVE VerifiedByItsCode'
  BY <1>5 DEF VerifyEmail, VerifiedByItsCode, RInv, RegistrationTypeOK,
              CodeRow, UserRow
<1>6. ASSUME NEW r \in Clients, Reissue(r) PROVE VerifiedByItsCode'
  <2>1. InCode(r)
    BY <1>6 DEF Reissue, InCode, AtStep
  <2>2. confirmation[client[r].user].code > 0
    BY <2>1, Writer
  <2>3. \A u \in Users : confirmation'[u].verified = confirmation[u].verified
    BY <1>6 DEF Reissue, RInv, RegistrationTypeOK, CodeRow
  <2>4. \A u \in Users : u # client[r].user => confirmation'[u] = confirmation[u]
    BY <1>6 DEF Reissue, RInv, RegistrationTypeOK
  <2>5. UNCHANGED user
    BY <1>6 DEF Reissue
  <2> QED
    BY <2>2, <2>3, <2>4, <2>5 DEF VerifiedByItsCode
<1>7. ASSUME NEW u \in Users, ExpireCode(u) PROVE VerifiedByItsCode'
  BY <1>7 DEF ExpireCode, VerifiedByItsCode, RInv, RegistrationTypeOK, CodeRow
<1> QED
  BY <1>1, <1>2, <1>3, <1>4, <1>5, <1>6, <1>7
  DEF RegistrationNext, ClientNext, Register, CreateCustomer, CheckNewUser,
      AnswerRegistration, Stop, ConfirmRegistration, ResendRegistrationOtp,
      ReadUser, CompareCode, ReadCodeRow, registrationVars

\* A self-registered user is verified exactly when its own code row is,
\* however confirmations and resends of several sessions overlap.
THEOREM VerificationIsByCode == RegistrationSpec => []VerifiedByItsCode
<1>1. RegistrationInit => VerifiedByItsCode
  BY DEF RegistrationInit, VerifiedByItsCode, NoCode
<1> QED
  BY <1>1, VerifiedByItsCodeStep, SignUpIsOrderly, PTL DEF RegistrationSpec

\* A write that is not stale counts exactly the guess it refuses.
LEMMA GuessesAreCountedStep ==
  ASSUME RInv, GuessesAreCounted, [RegistrationNext]_registrationVars
  PROVE  GuessesAreCounted'
<1>1. CASE UNCHANGED <<confirmation, guesses, raced>>
  BY <1>1 DEF GuessesAreCounted
<1>2. ASSUME NEW r \in Clients, IssueFirstCode(r) PROVE GuessesAreCounted'
  <2>1. /\ client[r].user \in Users /\ guesses[client[r].user] = 0
        /\ [NoCode EXCEPT !.code = 1].attempts = 0
    BY <1>2 DEF RInv, SessionKnows, RowsAgree, Unanswered, IssueFirstCode, NoCode
  <2> QED
    BY <1>2, <2>1, RegistrationAssumption
    DEF IssueFirstCode, GuessesAreCounted, RInv, RegistrationTypeOK
<1>3. ASSUME NEW r \in Clients, RegisterFailedAttempt(r)
      PROVE  GuessesAreCounted'
  <2> DEFINE u == client[r].user
             view == client[r].view
  <2>1. /\ InCode(r) /\ view.attempts < MaxAttempts
    BY <1>3 DEF RegisterFailedAttempt, InCode, AtStep, RInv, SessionKnows
  <2>2. /\ u \in Users /\ view \in CodeView
        /\ guesses[u] \in Nat /\ confirmation[u] \in CodeRow
    BY <2>1, Writer
  <2>3. confirmation'[u].attempts = view.attempts + 1
    BY <1>3, <2>2 DEF RegisterFailedAttempt, RInv, RegistrationTypeOK, CodeRow
  <2>4. \A v \in Users \ {u} : /\ confirmation'[v] = confirmation[v]
                               /\ guesses'[v] = guesses[v]
    BY <1>3, <2>2 DEF RegisterFailedAttempt, RInv, RegistrationTypeOK
  <2>5. ASSUME u \notin raced'
        PROVE  /\ view.attempts = confirmation[u].attempts
               /\ guesses'[u] = guesses[u] + 1 /\ u \notin raced
    BY <1>3, <2>2, <2>5
    DEF RegisterFailedAttempt, Stale, View, RInv, RegistrationTypeOK
  <2>6. raced \subseteq raced'
    BY <1>3 DEF RegisterFailedAttempt
  <2>7. u \notin raced' => /\ guesses'[u] = confirmation'[u].attempts
                           /\ guesses'[u] <= MaxAttempts
    BY <2>1, <2>2, <2>3, <2>5, RegistrationAssumption
    DEF GuessesAreCounted, CodeView
  <2> HIDE DEF u, view
  <2> QED
    BY <2>4, <2>6, <2>7 DEF GuessesAreCounted
<1>4. ASSUME NEW r \in Clients, VerifyEmail(r) PROVE GuessesAreCounted'
  BY <1>4 DEF VerifyEmail, GuessesAreCounted, RInv, RegistrationTypeOK, CodeRow
<1>5. ASSUME NEW r \in Clients, Reissue(r) PROVE GuessesAreCounted'
  <2> DEFINE u == client[r].user
             view == client[r].view
  <2>1. InCode(r)
    BY <1>5 DEF Reissue, InCode, AtStep
  <2>2. u \in Users /\ confirmation[u] \in CodeRow
    BY <2>1, Writer
  <2>3. confirmation'[u].attempts =
          IF view.attempts = 0 THEN confirmation[u].attempts ELSE 0
    BY <1>5, <2>2 DEF Reissue, RInv, RegistrationTypeOK, CodeRow
  <2>4. /\ guesses'[u] = 0
        /\ \A v \in Users \ {u} : /\ confirmation'[v] = confirmation[v]
                                  /\ guesses'[v] = guesses[v]
    BY <1>5, <2>2 DEF Reissue, RInv, RegistrationTypeOK
  <2>5. u \notin raced' => view.attempts = confirmation[u].attempts
    BY <1>5 DEF Reissue, Stale, View
  <2>6. raced \subseteq raced' \cup {u}
    BY <1>5 DEF Reissue
  <2> HIDE DEF u, view
  <2> QED
    BY <2>2, <2>3, <2>4, <2>5, <2>6, RegistrationAssumption
    DEF GuessesAreCounted
<1>6. ASSUME NEW u \in Users, ExpireCode(u) PROVE GuessesAreCounted'
  BY <1>6 DEF ExpireCode, GuessesAreCounted, RInv, RegistrationTypeOK, CodeRow
<1> QED
  BY <1>1, <1>2, <1>3, <1>4, <1>5, <1>6
  DEF RegistrationNext, ClientNext, Register, CreateCustomer, CheckNewUser,
      InsertUser, AnswerRegistration, Stop, ConfirmRegistration,
      ResendRegistrationOtp, ReadUser, CompareCode, ReadCodeRow,
      registrationVars

\* Every wrong code is counted and no code takes more wrong guesses than
\* max_attempts, for any number of sessions whose writes are not stale.
THEOREM AttemptsAreBounded == RegistrationSpec => []GuessesAreCounted
<1>1. RegistrationInit => GuessesAreCounted
  BY RegistrationAssumption DEF RegistrationInit, GuessesAreCounted, NoCode
<1> QED
  BY <1>1, GuessesAreCountedStep, SignUpIsOrderly, PTL DEF RegistrationSpec

\* A step that strands nobody: each user it leaves unverified, unknown and
\* not lost is still being registered, and none it adds to lost is known.
LEMMA OnlyAStopStrandsStep ==
  ASSUME RInv, OnlyAStopStrands, [RegistrationNext]_registrationVars
  PROVE  OnlyAStopStrands'
<1>0. \A u \in lost' : u \notin told' /\ ~user'[u].verified
  <2>1. RInv'
    BY RInvNext
  <2> QED
    BY <2>1 DEF RInv, RegistrationTypeOK, RowsAgree
<1>1. CASE UNCHANGED <<user, told, lost, client>>
  BY <1>0, <1>1 DEF OnlyAStopStrands, Exists, Unanswered, AtStep
<1>2. ASSUME NEW r \in Clients, ~Unanswered(r),
             UNCHANGED <<user, told, lost>>,
             \A q \in Clients \ {r} : client'[q] = client[q]
      PROVE  OnlyAStopStrands'
  BY <1>0, <1>2 DEF OnlyAStopStrands, Exists, Unanswered, AtStep
<1>3. ASSUME NEW r \in Clients, InsertUser(r), user' # user
      PROVE  OnlyAStopStrands'
  <2> DEFINE row == client[r].row
             new(u) == [client[r] EXCEPT !.pc = "issue", !.user = u]
  <2>1. PICK u \in Users :
          /\ ~Exists(u) /\ user' = [user EXCEPT ![u] = row]
          /\ client' = [client EXCEPT
               ![r] = IF client[r].op = "create" THEN IdleClient ELSE new(u)]
    BY <1>3 DEF InsertUser
  <2>2. /\ AtStep(r, "insert") /\ UNCHANGED <<told, lost>>
        /\ row.verified <=> client[r].op = "create"
    BY <1>3 DEF InsertUser, RInv, SessionKnows
  <2>3. new(u).pc = "issue" /\ new(u).user = u
    BY DEF RInv, RegistrationTypeOK, ClientState
  <2> HIDE DEF row, new
  <2>4. \/ user'[u].verified
        \/ Unanswered(r)' /\ client'[r].user = u
    BY <2>1, <2>2, <2>3 DEF RInv, RegistrationTypeOK, Unanswered, AtStep
  <2>5. /\ \A v \in Users \ {u} : user'[v] = user[v]
        /\ \A q \in Clients \ {r} : client'[q] = client[q]
    BY <2>1 DEF RInv, RegistrationTypeOK
  <2> QED
    BY <1>0, <2>2, <2>4, <2>5 DEF OnlyAStopStrands, Exists, Unanswered, AtStep
<1>4. ASSUME NEW r \in Clients, AnswerRegistration(r) \/ Stop(r), Unanswered(r)
      PROVE  OnlyAStopStrands'
  <2>1. /\ client[r].user \in told' \cup lost' /\ UNCHANGED user
        /\ told \subseteq told' /\ lost \subseteq lost'
    BY <1>4 DEF AnswerRegistration, Stop
  <2>2. \A q \in Clients \ {r} : client'[q] = client[q]
    BY <1>4 DEF AnswerRegistration, Stop, Done, RInv, RegistrationTypeOK
  <2> QED
    BY <1>0, <2>1, <2>2 DEF OnlyAStopStrands, Exists, Unanswered, AtStep
<1>5. ASSUME NEW r \in Clients, IssueFirstCode(r) PROVE OnlyAStopStrands'
  <2>1. /\ UNCHANGED <<user, told, lost>>
        /\ \A q \in Clients \ {r} : client'[q] = client[q]
        /\ Unanswered(r)' /\ client'[r].user = client[r].user
    BY <1>5 DEF IssueFirstCode, Unanswered, AtStep, RInv, RegistrationTypeOK,
                ClientState
  <2> QED
    BY <1>0, <2>1 DEF OnlyAStopStrands, Exists, Unanswered, AtStep
<1>6. ASSUME NEW r \in Clients, VerifyEmail(r) PROVE OnlyAStopStrands'
  <2>1. /\ UNCHANGED <<told, lost>>
        /\ \A q \in Clients \ {r} : client'[q] = client[q]
        /\ ~Unanswered(r)
    BY <1>6 DEF VerifyEmail, Done, Unanswered, AtStep, RInv, RegistrationTypeOK
  <2>2. \A u \in Users : /\ user'[u].email = user[u].email
                         /\ user[u].verified => user'[u].verified
    BY <1>6 DEF VerifyEmail, RInv, RegistrationTypeOK, UserRow
  <2> QED
    BY <1>0, <2>1, <2>2 DEF OnlyAStopStrands, Exists, Unanswered, AtStep
<1>7. ASSUME NEW r \in Clients, ClientNext(r), ~VerifyEmail(r),
             user' = user, ~Unanswered(r)
      PROVE  OnlyAStopStrands'
  <2>1. UNCHANGED <<told, lost>>
    BY <1>7 DEF ClientNext, Register, CreateCustomer, CheckNewUser, InsertUser,
      IssueFirstCode, AnswerRegistration, Unanswered, Stop, ConfirmRegistration,
      ResendRegistrationOtp, ReadUser, CompareCode, RegisterFailedAttempt,
      ReadCodeRow, Reissue
  <2>2. \A q \in Clients \ {r} : client'[q] = client[q]
    BY <1>7 DEF ClientNext, Register, CreateCustomer, CheckNewUser, InsertUser,
      IssueFirstCode, AnswerRegistration, Stop, ConfirmRegistration,
      ResendRegistrationOtp, ReadUser, CompareCode, RegisterFailedAttempt,
      ReadCodeRow, Reissue, Done, RInv, RegistrationTypeOK
  <2> QED
    BY <1>2, <1>7, <2>1, <2>2
<1>8. ASSUME NEW r \in Clients, ClientNext(r) PROVE OnlyAStopStrands'
  <2>1. user' # user => InsertUser(r) \/ VerifyEmail(r)
    BY <1>8 DEF ClientNext, Register, CreateCustomer, CheckNewUser,
      IssueFirstCode, AnswerRegistration, Stop, ConfirmRegistration,
      ResendRegistrationOtp, ReadUser, CompareCode, RegisterFailedAttempt,
      ReadCodeRow, Reissue
  <2>2. Unanswered(r) => IssueFirstCode(r) \/ AnswerRegistration(r) \/ Stop(r)
    BY <1>8 DEF ClientNext, Register, CreateCustomer, CheckNewUser, InsertUser,
      VerifyEmail, ConfirmRegistration, ResendRegistrationOtp, ReadUser,
      CompareCode, RegisterFailedAttempt, ReadCodeRow, Reissue, Unanswered,
      AtStep
  <2> QED
    BY <1>3, <1>4, <1>5, <1>6, <1>7, <1>8, <2>1, <2>2
<1> QED
  BY <1>1, <1>8 DEF RegistrationNext, ExpireCode, registrationVars

\* Only a registration that ends without its answer, before its second commit
\* or in the dispatch behind it, leaves an e-mail taken by a user that can
\* neither sign in nor ask for another code, and it does: such a user stays
\* unknown and unverified.
THEOREM OnlyStopsStrand == RegistrationSpec => []OnlyAStopStrands
<1>1. RegistrationInit => OnlyAStopStrands
  BY DEF RegistrationInit, OnlyAStopStrands, Exists, NoRow
<1> QED
  BY <1>1, OnlyAStopStrandsStep, SignUpIsOrderly, PTL DEF RegistrationSpec

-----------------------------------------------------------------------------
(* Sessions, and the two together *)

\* Where a request is fits what it is.
Shape(s) ==
  /\ s.pc # "idle" => s.user \in Users
  /\ s.op \in S!Enrolments => s.pc = "save"

Live(k) == k \in DOMAIN token /\ ~S!IsRevoked(k)

\* A rotation continues the session of its token, if that is still live.
KnowsToken(s) ==
  s.pc = "rotate" =>
    /\ s.token \in DOMAIN token /\ token[s.token].owner = s.user
    /\ s.session.login <= Len(token)
    /\ Live(s.token) => token[s.token].session = s.session

\* A token of the user that escapes a revocation came after its SELECT.
KnowsLive(s) ==
  s.pc = "revoke" =>
    /\ s.seen <= Len(token)
    /\ \A k \in DOMAIN token :
         Live(k) /\ token[k].owner = s.user /\ k <= s.seen => k \in s.live

\* A request that issues a token knows the current password, or was past its
\* reads when this password was set.
KnowsPassword(s) ==
  s.pc \in {"issue", "rotate"} =>
    \/ s.session.password = account[s.user].password
    \/ s.session.escaped = account[s.user].password

\* The secret a code was taken of is the proven one, if it still is the user's.
KnowsSecret(s) ==
  s.op = "enable" =>
    /\ s.secret # 0 /\ s.secret <= drawn[s.user]
    /\ account[s.user].secret = s.secret => proven[s.user] = s.secret

Knows(s) ==
  Shape(s) /\ KnowsToken(s) /\ KnowsLive(s) /\ KnowsPassword(s) /\ KnowsSecret(s)

\* Sessions are numbered by tokens that exist.
LoginsExist == \A k \in DOMAIN token : Live(k) => token[k].session.login <= Len(token)

SecretsAreDrawn == \A u \in Users : account[u].secret <= drawn[u]

QInv ==
  /\ S!SessionsTypeOK
  /\ \A r \in Requests : Knows(req[r])
  /\ LoginsExist
  /\ SecretsAreDrawn
  /\ OneLiveTokenPerSession
  /\ OldPasswordsOpenNothing
  /\ ActiveSecretIsProven

\* What every step but a new password does to the tokens there are: it may
\* revoke some, and nothing else.
TokensKeep ==
  /\ token' \in Seq(S!TokenRow) /\ Len(token) <= Len(token')
  /\ \A k \in DOMAIN token :
       /\ k \in DOMAIN token' /\ token'[k].owner = token[k].owner
       /\ Live(k)' => Live(k) /\ token'[k].session = token[k].session

PasswordsKeep == \A u \in Users : account'[u].password = account[u].password

-----------------------------------------------------------------------------
(* Requests and tokens *)

\* The idle request knows nothing.
LEMMA IdleKnows ==
  /\ S!IdleRequest \in S!RequestState /\ S!IdleRequest.pc = "idle"
  /\ S!IdleRequest.op = "none" /\ S!IdleRequest.user = NoUser
BY DEF S!IdleRequest, S!RequestState, S!NoSession, S!Session

\* Ids of rows.
LEMMA TokenIds ==
  ASSUME S!SessionsTypeOK
  PROVE  /\ Len(token) \in Nat /\ DOMAIN token = 1 .. Len(token)
         /\ \A k \in DOMAIN token : token[k] \in S!TokenRow
<1>1. token \in Seq(S!TokenRow)
  BY DEF S!SessionsTypeOK
<1> QED
  BY <1>1, LenProperties, ElementOfSeq

\* What a request that is under way knows, and its type.
LEMMA UnderWay ==
  ASSUME QInv, NEW r \in Requests
  PROVE  /\ req[r] \in S!RequestState /\ Knows(req[r])
         /\ req[r].session \in S!Session
         /\ Len(token) \in Nat /\ DOMAIN token = 1 .. Len(token)
BY TokenIds DEF QInv, S!SessionsTypeOK, S!RequestState

\* Of an account.
LEMMA AccountFields ==
  ASSUME S!SessionsTypeOK, NEW u \in Users
  PROVE  /\ account[u].password \in Nat /\ account[u].secret \in Nat
         /\ account[u].enabled \in BOOLEAN
         /\ drawn[u] \in Nat /\ proven[u] \in Nat
BY DEF S!SessionsTypeOK, S!AccountRow

\* One request moves, and the others stay.
LEMMA OneMoves ==
  ASSUME S!SessionsTypeOK, NEW r \in Requests, NEW new \in S!RequestState,
         req' = [req EXCEPT ![r] = new]
  PROVE  /\ req' \in [Requests -> S!RequestState] /\ req'[r] = new
         /\ \A q \in Requests \ {r} : req'[q] = req[q]
BY DEF S!SessionsTypeOK

\* Tokens may be revoked and inserted under a request without its knowing.
LEMMA KnowsKept ==
  ASSUME QInv, NEW s \in S!RequestState, Knows(s), TokensKeep, PasswordsKeep,
         KnowsSecret(s)'
  PROVE  Knows(s)'
<1>0. /\ Len(token) \in Nat /\ DOMAIN token = 1 .. Len(token)
      /\ Len(token') \in Nat /\ DOMAIN token' = 1 .. Len(token')
      /\ s.session.login \in Nat /\ s.seen \in Nat
      /\ Len(token) <= Len(token')
  BY TokenIds, LenProperties
  DEF QInv, TokensKeep, S!RequestState, S!Session
<1>1. KnowsToken(s)'
  <2> SUFFICES ASSUME s.pc = "rotate" PROVE KnowsToken(s)'
    BY DEF KnowsToken
  <2>1. /\ s.token \in DOMAIN token /\ token[s.token].owner = s.user
        /\ s.session.login <= Len(token)
        /\ Live(s.token) => token[s.token].session = s.session
    BY DEF Knows, KnowsToken
  <2>2. /\ s.token \in DOMAIN token' /\ token'[s.token].owner = s.user
        /\ Live(s.token)' => token'[s.token].session = s.session
    BY <2>1 DEF TokensKeep
  <2>3. s.session.login <= Len(token')
    BY <1>0, <2>1
  <2> QED
    BY <2>2, <2>3 DEF KnowsToken
<1>2. KnowsLive(s)'
  <2> SUFFICES ASSUME s.pc = "revoke" PROVE KnowsLive(s)'
    BY DEF KnowsLive
  <2>1. /\ s.seen <= Len(token)
        /\ \A k \in DOMAIN token :
             Live(k) /\ token[k].owner = s.user /\ k <= s.seen => k \in s.live
    BY DEF Knows, KnowsLive
  <2>2. ASSUME NEW k \in DOMAIN token', Live(k)', token'[k].owner = s.user,
               k <= s.seen
        PROVE  k \in s.live
    <3>1. k \in DOMAIN token
      BY <1>0, <2>1, <2>2
    <3> QED
      BY <2>1, <2>2, <3>1 DEF TokensKeep
  <2>3. s.seen <= Len(token')
    BY <1>0, <2>1
  <2> QED
    BY <2>2, <2>3 DEF KnowsLive
<1>3. KnowsPassword(s)'
  BY DEF Knows, Shape, KnowsPassword, PasswordsKeep
<1> QED
  BY <1>1, <1>2, <1>3 DEF Knows, Shape

\* One request moves while tokens are revoked and inserted.
LEMMA RequestMoves ==
  ASSUME QInv, NEW r \in Requests, NEW new \in S!RequestState,
         req' = [req EXCEPT ![r] = new], TokensKeep, PasswordsKeep,
         Knows(new)', \A q \in Requests \ {r} : KnowsSecret(req[q])'
  PROVE  /\ req' \in [Requests -> S!RequestState]
         /\ \A q \in Requests : Knows(req[q])'
<1>1. /\ req' \in [Requests -> S!RequestState] /\ req'[r] = new
      /\ \A q \in Requests \ {r} : req'[q] = req[q]
  BY OneMoves DEF QInv
<1>2. ASSUME NEW q \in Requests PROVE Knows(req[q])'
  <2>1. CASE q = r
    BY <1>1, <2>1 DEF Knows, Shape, KnowsToken, KnowsLive, KnowsPassword,
                      KnowsSecret
  <2>2. CASE q # r
    <3>1. PICK s \in S!RequestState : s = req[q] /\ Knows(s)
      BY UnderWay
    <3>2. s = req'[q]
      BY <1>1, <2>2, <3>1
    <3>3. KnowsSecret(s)'
      BY <2>2, <3>2 DEF KnowsSecret
    <3>4. Knows(s)'
      BY <3>1, <3>3, KnowsKept
    <3> QED
      BY <3>2, <3>4 DEF Knows, Shape, KnowsToken, KnowsLive, KnowsPassword,
                        KnowsSecret
  <2> QED
    BY <2>1, <2>2
<1> QED
  BY <1>1, <1>2

\* The idle request knows nothing after a step either.
LEMMA IdleKnowsLater == Knows(S!IdleRequest)' /\ Knows(S!IdleRequest)
<1>1. PICK s : s = S!IdleRequest /\ s.pc = "idle" /\ s.op = "none"
  BY IdleKnows
<1>2. Knows(s)' /\ Knows(s)
  BY <1>1 DEF Knows, Shape, KnowsToken, KnowsLive, KnowsPassword, KnowsSecret,
              S!Enrolments
<1> QED
  BY <1>1, <1>2 DEF S!IdleRequest, S!NoSession

\* Where no token is inserted, what is said of the tokens stays true.
LEMMA FewerTokens ==
  ASSUME QInv, TokensKeep, Len(token') = Len(token)
  PROVE  /\ LoginsExist' /\ OneLiveTokenPerSession'
         /\ PasswordsKeep => OldPasswordsOpenNothing'
<1>0. /\ DOMAIN token' = DOMAIN token
      /\ \A k \in DOMAIN token : token[k].owner \in Users
  BY TokenIds, LenProperties DEF QInv, TokensKeep, S!TokenRow
<1>1. LoginsExist'
  BY <1>0 DEF QInv, LoginsExist, TokensKeep
<1>2. OneLiveTokenPerSession'
  <2>1. ASSUME NEW j \in DOMAIN token, NEW k \in DOMAIN token, j < k,
               Live(j)', Live(k)',
               token'[j].session.login = token'[k].session.login
        PROVE  token'[j].session.forked \/ token'[k].session.forked
    BY <2>1
    DEF QInv, OneLiveTokenPerSession, S!OneLiveTokenPerSession, Live, TokensKeep
  <2> QED
    BY <1>0, <2>1 DEF OneLiveTokenPerSession, S!OneLiveTokenPerSession, Live
<1>3. ASSUME PasswordsKeep PROVE OldPasswordsOpenNothing'
  <2>1. ASSUME NEW k \in DOMAIN token, Live(k)'
        PROVE  \/ token'[k].session.password = account'[token'[k].owner].password
               \/ token'[k].session.escaped = account'[token'[k].owner].password
    <3>1. /\ Live(k) /\ token'[k].session = token[k].session
          /\ token'[k].owner = token[k].owner
      BY <2>1 DEF TokensKeep
    <3> QED
      BY <1>0, <1>3, <3>1
      DEF QInv, OldPasswordsOpenNothing, S!OldPasswordsOpenNothing, Live,
          PasswordsKeep
  <2> QED
    BY <1>0, <2>1 DEF OldPasswordsOpenNothing, S!OldPasswordsOpenNothing, Live
<1> QED
  BY <1>1, <1>2, <1>3

\* A step that inserts no token and sets no password.
LEMMA QInvKept ==
  ASSUME QInv, TokensKeep, Len(token') = Len(token), PasswordsKeep,
         challenges' \subseteq Users, clobbered' \subseteq Users,
         account' \in [Users -> S!AccountRow],
         drawn' \in [Users -> Nat], proven' \in [Users -> Nat],
         req' \in [Requests -> S!RequestState],
         \A q \in Requests : Knows(req[q])',
         SecretsAreDrawn', ActiveSecretIsProven'
  PROVE  QInv'
<1>1. S!SessionsTypeOK'
  BY DEF TokensKeep, S!SessionsTypeOK
<1> QED
  BY <1>1, FewerTokens DEF QInv

\* Tokens that are left alone are kept.
LEMMA SameTokens ==
  ASSUME S!SessionsTypeOK, UNCHANGED token
  PROVE  TokensKeep /\ Len(token') = Len(token)
BY TokenIds DEF TokensKeep, S!SessionsTypeOK, Live, S!IsRevoked

\* Revoking rows changes no other.
LEMMA Revoking ==
  ASSUME S!SessionsTypeOK, NEW ids
  PROVE  /\ S!Revoke(ids) \in Seq(S!TokenRow)
         /\ Len(S!Revoke(ids)) = Len(token)
         /\ \A k \in DOMAIN token :
              /\ S!Revoke(ids)[k].owner = token[k].owner
              /\ k \in ids => S!Revoke(ids)[k].status = "revoked"
              /\ k \notin ids => S!Revoke(ids)[k] = token[k]
<1> DEFINE n == Len(token)
           t == S!Revoke(ids)
           gone(k) == [token[k] EXCEPT !.status = "revoked", !.session = S!NoSession]
<1>1. n \in Nat /\ DOMAIN token = 1 .. n
      /\ \A k \in 1 .. n : token[k] \in S!TokenRow
  BY TokenIds
<1> HIDE DEF n
<1>2. ASSUME NEW k \in 1 .. n
      PROVE  /\ gone(k) \in S!TokenRow /\ gone(k).owner = token[k].owner
             /\ gone(k).status = "revoked"
  <2>1. S!NoSession \in S!Session
    BY DEF S!NoSession, S!Session
  <2>2. token[k] \in S!TokenRow
    BY <1>1
  <2> QED
    BY <2>1, <2>2 DEF S!TokenRow
<1>3. t = [k \in 1 .. n |-> IF k \in ids THEN gone(k) ELSE token[k]]
  BY <1>1 DEF S!Revoke
<1> HIDE DEF t, gone
<1>4. t \in [1 .. n -> S!TokenRow]
  BY <1>1, <1>2, <1>3
<1>5. t \in Seq(S!TokenRow)
  BY <1>1, <1>4, SeqDef
<1>6. Len(t) = n
  <2>1. Len(t) \in Nat /\ 1 .. Len(t) = 1 .. n
    BY <1>4, <1>5, LenProperties
  <2> QED
    BY <1>1, <2>1
<1> QED
  BY <1>1, <1>2, <1>3, <1>5, <1>6 DEF t, n

\* A revocation leaves what it does not revoke.
LEMMA RevokedTokens ==
  ASSUME S!SessionsTypeOK, NEW ids, token' = S!Revoke(ids)
  PROVE  /\ TokensKeep /\ Len(token') = Len(token)
         /\ DOMAIN token' = DOMAIN token
<1>1. /\ token' \in Seq(S!TokenRow) /\ Len(token') = Len(token)
      /\ \A k \in DOMAIN token :
           /\ token'[k].owner = token[k].owner
           /\ k \in ids => token'[k].status = "revoked"
           /\ k \notin ids => token'[k] = token[k]
  BY Revoking
<1>2. DOMAIN token' = DOMAIN token /\ Len(token) \in Nat
  BY <1>1, TokenIds, LenProperties
<1>3. \A k \in DOMAIN token :
        Live(k)' => Live(k) /\ token'[k].session = token[k].session
  BY <1>1, <1>2 DEF Live, S!IsRevoked
<1> QED
  BY <1>1, <1>2, <1>3 DEF TokensKeep

\* A row that is inserted has the next id.
LEMMA Inserting ==
  ASSUME NEW t \in Seq(S!TokenRow), NEW row \in S!TokenRow
  PROVE  /\ Append(t, row) \in Seq(S!TokenRow)
         /\ Len(Append(t, row)) = Len(t) + 1
         /\ Append(t, row)[Len(t) + 1] = row
         /\ \A k \in 1 .. Len(t) : Append(t, row)[k] = t[k]
BY AppendProperties

-----------------------------------------------------------------------------
(* Requests that start *)

\* A start that leaves tokens and accounts alone keeps the invariant.
LEMMA BeginQInv ==
  ASSUME QInv, NEW r \in Requests, NEW new \in S!RequestState,
         S!Begin(r, new), Knows(new),
         UNCHANGED <<account, token, challenges, drawn, proven, clobbered>>
  PROVE  QInv'
<1>1. TokensKeep /\ Len(token') = Len(token) /\ PasswordsKeep
  BY SameTokens DEF QInv, PasswordsKeep
<1>2. req' = [req EXCEPT ![r] = new]
  BY DEF S!Begin
<1>3. Knows(new)'
  BY DEF Knows, Shape, KnowsToken, KnowsLive, KnowsPassword, KnowsSecret,
         Live, S!IsRevoked
<1>4. \A q \in Requests \ {r} : KnowsSecret(req[q])'
  BY <1>2, OneMoves DEF QInv, Knows, KnowsSecret
<1>5. /\ req' \in [Requests -> S!RequestState]
      /\ \A q \in Requests : Knows(req[q])'
  BY <1>1, <1>2, <1>3, <1>4, RequestMoves
<1>6. SecretsAreDrawn' /\ ActiveSecretIsProven'
  BY DEF QInv, SecretsAreDrawn, ActiveSecretIsProven, S!ActiveSecretIsProven
<1> QED
  BY <1>1, <1>5, <1>6, QInvKept DEF QInv, S!SessionsTypeOK

\* A login, or the answer to an MFA challenge, read the current password.
LEMMA LoginStep ==
  ASSUME QInv, NEW r \in Requests, NEW u \in Users,
         S!Login(r, u) \/ S!VerifyMfaLogin(r, u)
  PROVE  QInv'
<1>1. PICK op \in {"login", "mfa"} :
        S!Begin(r, [S!IdleRequest EXCEPT !.op = op, !.pc = "issue", !.user = u,
                      !.session.password = account[u].password])
  BY DEF S!Login, S!VerifyMfaLogin
<1> DEFINE new == [S!IdleRequest EXCEPT !.op = op, !.pc = "issue", !.user = u,
                     !.session.password = account[u].password]
<1>2. /\ new \in S!RequestState /\ new.op = op /\ new.pc = "issue"
      /\ new.user = u /\ new.session.password = account[u].password
  <2>1. account[u].password \in Nat
    BY AccountFields DEF QInv
  <2> QED
    BY <2>1 DEF S!IdleRequest, S!RequestState, S!NoSession, S!Session
<1>3. S!Begin(r, new)
  BY <1>1
<1> HIDE DEF new
<1>4. Knows(new)
  BY <1>2 DEF Knows, Shape, KnowsToken, KnowsLive, KnowsPassword, KnowsSecret,
              S!Enrolments
<1> QED
  BY <1>2, <1>3, <1>4, BeginQInv DEF S!Login, S!VerifyMfaLogin

\* A refresh read the token that it rotates.
LEMMA RefreshStep ==
  ASSUME QInv, NEW r \in Requests, NEW k \in DOMAIN token, S!Refresh(r, k)
  PROVE  QInv'
<1>t. /\ token[k] \in S!TokenRow /\ k \in Nat
  BY TokenIds DEF QInv
<1>1. PICK pc \in {"rotate", "readLive"} : pc = IF S!IsValid(k) THEN "rotate" ELSE "readLive"
  OBVIOUS
<1> DEFINE new == [S!IdleRequest EXCEPT !.op = "refresh", !.user = token[k].owner,
                     !.token = k, !.session = token[k].session, !.pc = pc]
<1>2. /\ new \in S!RequestState /\ new.op = "refresh" /\ new.pc = pc
      /\ new.user = token[k].owner /\ new.token = k
      /\ new.session = token[k].session
  BY <1>t DEF S!IdleRequest, S!RequestState, S!TokenRow, S!Revokers
<1>3. S!Begin(r, new)
  BY <1>1 DEF S!Refresh
<1> HIDE DEF new
<1>u. token[k].owner \in Users
  BY <1>t DEF S!TokenRow
<1>4. Shape(new) /\ KnowsLive(new) /\ KnowsSecret(new)
  BY <1>1, <1>2, <1>u DEF Shape, KnowsLive, KnowsSecret, S!Enrolments
<1>5. pc = "rotate" => Live(k)
  BY <1>1 DEF Live, S!IsValid, S!IsRevoked
<1>6. KnowsToken(new)
  BY <1>2, <1>5 DEF KnowsToken, QInv, LoginsExist
<1>7. KnowsPassword(new)
  BY <1>1, <1>2, <1>5 DEF KnowsPassword, QInv, OldPasswordsOpenNothing,
     S!OldPasswordsOpenNothing, Live
<1> QED
  BY <1>2, <1>3, <1>4, <1>6, <1>7, BeginQInv DEF S!Refresh, Knows

\* A logout read the token that it revokes.
LEMMA LogoutStep ==
  ASSUME QInv, NEW r \in Requests, NEW k \in DOMAIN token, S!Logout(r, k)
  PROVE  QInv'
<1>t. token[k] \in S!TokenRow /\ k \in Nat
  BY TokenIds DEF QInv
<1>u. token[k].owner \in Users
  BY <1>t DEF S!TokenRow
<1> DEFINE new == [S!IdleRequest EXCEPT !.op = "logout", !.pc = "logout",
                     !.user = token[k].owner, !.token = k]
<1>2. /\ new \in S!RequestState /\ new.op = "logout" /\ new.pc = "logout"
      /\ new.user = token[k].owner
  BY <1>t, <1>u, IdleKnows DEF S!RequestState, S!Revokers
<1>3. S!Begin(r, new)
  BY DEF S!Logout
<1> HIDE DEF new
<1>4. Knows(new)
  BY <1>2, <1>u DEF Knows, Shape, KnowsToken, KnowsLive, KnowsPassword,
     KnowsSecret, S!Enrolments
<1> QED
  BY <1>2, <1>3, <1>4, BeginQInv DEF S!Logout

\* A change of the password starts with the read of the live tokens.
LEMMA ChangePasswordStep ==
  ASSUME QInv, NEW r \in Requests, NEW u \in Users, S!ChangePassword(r, u)
  PROVE  QInv'
<1> DEFINE new == [S!IdleRequest EXCEPT !.op = "change", !.pc = "readLive",
                     !.user = u]
<1>2. /\ new \in S!RequestState /\ new.op = "change" /\ new.pc = "readLive"
      /\ new.user = u
  BY IdleKnows DEF S!RequestState, S!Revokers
<1>3. S!Begin(r, new)
  BY DEF S!ChangePassword
<1> HIDE DEF new
<1>4. Knows(new)
  BY <1>2 DEF Knows, Shape, KnowsToken, KnowsLive, KnowsPassword,
     KnowsSecret, S!Enrolments
<1> QED
  BY <1>2, <1>3, <1>4, BeginQInv DEF S!ChangePassword

\* So does a reset.
LEMMA ConfirmPasswordResetStep ==
  ASSUME QInv, NEW r \in Requests, NEW u \in Users, S!ConfirmPasswordReset(r, u)
  PROVE  QInv'
<1>1. PICK fingerprint : /\ fingerprint = account[u].password
        /\ S!Begin(r, [S!IdleRequest EXCEPT !.op = "reset", !.pc = "readLive",
                         !.user = u, !.session.password = fingerprint])
  BY DEF S!ConfirmPasswordReset
<1> DEFINE new == [S!IdleRequest EXCEPT !.op = "reset", !.pc = "readLive",
                     !.user = u, !.session.password = fingerprint]
<1>2. /\ new \in S!RequestState /\ new.op = "reset" /\ new.pc = "readLive"
      /\ new.user = u
  <2>1. fingerprint \in Nat
    BY <1>1, AccountFields DEF QInv
  <2> QED
    BY <1>1, <2>1
    DEF S!IdleRequest, S!RequestState, S!NoSession, S!Session, S!Revokers
<1>3. S!Begin(r, new)
  BY <1>1
<1> HIDE DEF new
<1>4. Knows(new)
  BY <1>2 DEF Knows, Shape, KnowsToken, KnowsLive, KnowsPassword,
     KnowsSecret, S!Enrolments
<1> QED
  BY <1>2, <1>3, <1>4, BeginQInv DEF S!ConfirmPasswordReset

\* An enrolment step starts with a read of the user's secret; to enable 2FA
\* the caller proves that it has the secret that was read.
LEMMA EnrolmentStep ==
  ASSUME QInv, NEW r \in Requests, NEW u \in Users,
         \/ S!SetupTwoFactor(r, u) \/ S!EnableTwoFactor(r, u)
         \/ S!DisableTwoFactor(r, u)
  PROVE  QInv'
<1>1. PICK op \in S!Enrolments :
        /\ S!BeginEnrolment(r, op, u)
        /\ \/ op = "enable" /\ S!EnableTwoFactor(r, u)
           \/ op # "enable" /\ UNCHANGED proven
  BY DEF S!SetupTwoFactor, S!EnableTwoFactor, S!DisableTwoFactor, S!Enrolments
<1>a. /\ account[u].password \in Nat /\ account[u].secret \in Nat
      /\ account[u].enabled \in BOOLEAN /\ account[u].secret <= drawn[u]
  BY AccountFields DEF QInv, SecretsAreDrawn
<1> DEFINE new == [S!IdleRequest EXCEPT !.op = op, !.pc = "save", !.user = u,
                     !.secret = account[u].secret]
<1>2. /\ new \in S!RequestState /\ new.op = op /\ new.pc = "save"
      /\ new.user = u /\ new.secret = account[u].secret
  BY <1>a, IdleKnows DEF S!RequestState
<1>3. /\ S!Begin(r, new)
      /\ UNCHANGED <<account, token, challenges, drawn, clobbered>>
  BY <1>1 DEF S!BeginEnrolment
<1> HIDE DEF new
<1>4. Shape(new) /\ KnowsToken(new) /\ KnowsLive(new) /\ KnowsPassword(new)
  BY <1>2 DEF Shape, KnowsToken, KnowsLive, KnowsPassword
<1>5. CASE op # "enable"
  <2>1. Knows(new)
    BY <1>2, <1>4, <1>5 DEF Knows, KnowsSecret
  <2> QED
    BY <1>1, <1>2, <1>3, <1>5, <2>1, BeginQInv
<1>6. CASE op = "enable"
  <2>1. /\ account[u].secret # 0 /\ account[u].enabled = FALSE
        /\ proven' = [proven EXCEPT ![u] = account[u].secret]
    BY <1>1, <1>6 DEF S!EnableTwoFactor, S!BeginEnrolment
  <2>2. /\ proven' \in [Users -> Nat] /\ proven'[u] = account[u].secret
        /\ \A v \in Users \ {u} : proven'[v] = proven[v]
    BY <1>a, <2>1 DEF QInv, S!SessionsTypeOK
  <2>3. req' = [req EXCEPT ![r] = new]
    BY <1>3 DEF S!Begin
  <2>4. ASSUME NEW q \in Requests \ {r} PROVE KnowsSecret(req[q])'
    <3>1. req'[q] = req[q] /\ Knows(req[q])
      BY <1>2, <2>3, OneMoves DEF QInv
    <3>2. req[q].op = "enable" => req[q].user \in Users
      BY <3>1 DEF Knows, Shape, S!Enrolments
    <3> QED
      BY <1>3, <2>2, <3>1, <3>2 DEF Knows, KnowsSecret
  <2>5. PICK n \in S!RequestState : n = new
    BY <1>2
  <2>6. Knows(n)'
    <3>0. /\ n.op = op /\ n.pc = "save" /\ n.user = u
          /\ n.secret = account[u].secret
      BY <1>2, <2>5
    <3>1. KnowsSecret(n)'
      BY <1>3, <1>a, <2>1, <2>2, <3>0 DEF KnowsSecret
    <3>2. Shape(n)' /\ KnowsToken(n)' /\ KnowsLive(n)' /\ KnowsPassword(n)'
      BY <1>6, <3>0 DEF Shape, KnowsToken, KnowsLive, KnowsPassword
    <3> QED
      BY <3>1, <3>2 DEF Knows
  <2>7. TokensKeep /\ Len(token') = Len(token) /\ PasswordsKeep
    BY <1>3, SameTokens DEF QInv, PasswordsKeep
  <2>8. /\ req' \in [Requests -> S!RequestState]
        /\ \A q \in Requests : Knows(req[q])'
    <3>1. req' = [req EXCEPT ![r] = n]
      BY <2>3, <2>5
    <3> QED
      BY <2>4, <2>6, <2>7, <3>1, RequestMoves
  <2>9. SecretsAreDrawn'
    BY <1>3 DEF QInv, SecretsAreDrawn
  <2>10. ActiveSecretIsProven'
    BY <1>3, <2>1, <2>2 DEF QInv, ActiveSecretIsProven, S!ActiveSecretIsProven
  <2> QED
    BY <1>3, <2>2, <2>7, <2>8, <2>9, <2>10, QInvKept DEF QInv, S!SessionsTypeOK
<1> QED
  BY <1>5, <1>6

-----------------------------------------------------------------------------
(* Requests that go on or end *)

\* The tokens to revoke are all that live when they are read.
LEMMA ReadLiveTokensStep ==
  ASSUME QInv, NEW r \in Requests, S!ReadLiveTokens(r)
  PROVE  QInv'
<1> DEFINE u == req[r].user
           new == [req[r] EXCEPT !.pc = "revoke", !.seen = Len(token),
                                 !.live = S!LiveTokens(u)]
<1>0. /\ DOMAIN token = 1 .. Len(token) /\ Len(token) \in Nat
      /\ req[r] \in S!RequestState /\ Knows(req[r]) /\ req[r].pc = "readLive"
  BY UnderWay DEF S!ReadLiveTokens, S!Waits
<1>1. UNCHANGED <<account, token, challenges, drawn, proven, clobbered>>
  BY DEF S!ReadLiveTokens
<1>2. req' = [req EXCEPT ![r] = new]
  BY DEF S!ReadLiveTokens, QInv, S!SessionsTypeOK
<1>3. S!LiveTokens(u) \in SUBSET Nat
  BY <1>0 DEF S!LiveTokens
<1>4. /\ new \in S!RequestState /\ new.pc = "revoke" /\ new.user = u
      /\ new.op = req[r].op /\ new.live = S!LiveTokens(u)
      /\ new.seen = Len(token) /\ new.secret = req[r].secret
  BY <1>0, <1>3 DEF S!RequestState
<1> HIDE DEF new
<1>5. Knows(new)
  <2>1. Shape(new) /\ KnowsSecret(new) /\ KnowsToken(new) /\ KnowsPassword(new)
    BY <1>0, <1>4
    DEF Knows, Shape, KnowsToken, KnowsSecret, KnowsPassword
  <2>2. KnowsLive(new)
    BY <1>0, <1>4 DEF KnowsLive, S!LiveTokens, Live
  <2> QED
    BY <2>1, <2>2 DEF Knows
<1>6. PICK n \in S!RequestState : n = new /\ Knows(n)
  BY <1>4, <1>5
<1>7. Knows(n)'
  BY <1>1, <1>6 DEF Knows, Shape, KnowsToken, KnowsLive, KnowsPassword,
                    KnowsSecret, Live, S!IsRevoked
<1>8. TokensKeep /\ Len(token') = Len(token) /\ PasswordsKeep
  BY <1>1, SameTokens DEF QInv, PasswordsKeep
<1>9. req' = [req EXCEPT ![r] = n]
  BY <1>2, <1>6
<1>10. \A q \in Requests \ {r} : KnowsSecret(req[q])'
  BY <1>1, <1>9, OneMoves DEF QInv, Knows, KnowsSecret
<1>11. /\ req' \in [Requests -> S!RequestState]
       /\ \A q \in Requests : Knows(req[q])'
  BY <1>7, <1>8, <1>9, <1>10, RequestMoves
<1>12. SecretsAreDrawn' /\ ActiveSecretIsProven'
  BY <1>1 DEF QInv, SecretsAreDrawn, ActiveSecretIsProven, S!ActiveSecretIsProven
<1> QED
  BY <1>1, <1>8, <1>11, <1>12, QInvKept DEF QInv, S!SessionsTypeOK

\* A request that ends, and leaves the secrets alone.
LEMMA EndKnows ==
  ASSUME QInv, NEW r \in Requests, S!End(r), TokensKeep, PasswordsKeep,
         \A q \in Requests \ {r} : KnowsSecret(req[q])'
  PROVE  /\ req' \in [Requests -> S!RequestState]
         /\ \A q \in Requests : Knows(req[q])'
<1>1. req' = [req EXCEPT ![r] = S!IdleRequest]
  BY DEF S!End
<1> QED
  BY <1>1, IdleKnows, IdleKnowsLater, RequestMoves

\* Where a request ends and accounts stay, the others know their secrets.
LEMMA SecretsStay ==
  ASSUME QInv, NEW r \in Requests, S!End(r), UNCHANGED <<account, drawn, proven>>
  PROVE  /\ \A q \in Requests \ {r} : KnowsSecret(req[q])'
         /\ PasswordsKeep /\ SecretsAreDrawn'
<1>1. \A q \in Requests \ {r} : req'[q] = req[q]
  BY IdleKnows, OneMoves DEF S!End, QInv
<1> QED
  BY <1>1 DEF QInv, Knows, KnowsSecret, PasswordsKeep, SecretsAreDrawn

\* The commit of a login inserts the first token of a new session.
LEMMA IssueTokenPairStep ==
  ASSUME QInv, NEW r \in Requests, S!IssueTokenPair(r)
  PROVE  QInv'
<1> DEFINE n == Len(token)
           s == req[r]
           row == [owner |-> s.user, status |-> "valid",
                   session |-> [s.session EXCEPT !.login = n + 1]]
<1>0. /\ s \in S!RequestState /\ Knows(s) /\ s.session \in S!Session
      /\ n \in Nat /\ DOMAIN token = 1 .. n /\ s.pc = "issue"
  BY UnderWay DEF S!IssueTokenPair, S!Waits
<1>1. /\ token' = Append(token, row) /\ S!End(r)
      /\ UNCHANGED <<account, challenges, drawn, proven, clobbered>>
  BY DEF S!IssueTokenPair
<1>2. /\ s.user \in Users
      /\ \/ s.session.password = account[s.user].password
         \/ s.session.escaped = account[s.user].password
  BY <1>0 DEF Knows, Shape, KnowsPassword
<1>3. /\ row \in S!TokenRow /\ row.owner = s.user /\ row.status = "valid"
      /\ row.session.login = n + 1
      /\ row.session.password = s.session.password
      /\ row.session.escaped = s.session.escaped
  BY <1>0, <1>2 DEF S!TokenRow, S!Session
<1> HIDE DEF n, s, row
<1>4. /\ token' \in Seq(S!TokenRow) /\ Len(token') = n + 1
      /\ token'[n + 1] = row /\ \A k \in 1 .. n : token'[k] = token[k]
  BY <1>1, <1>3, Inserting DEF QInv, S!SessionsTypeOK, n
<1>5. DOMAIN token' = 1 .. n + 1
  BY <1>4, LenProperties
<1>6. /\ \A k \in 1 .. n : Live(k)' <=> Live(k)
      /\ \A k \in DOMAIN token' : k \in 1 .. n \/ k = n + 1
      /\ \A k \in 1 .. n : /\ token[k].session.login \in Nat
                           /\ Live(k) => token[k].session.login <= n
  <2>1. \A k \in 1 .. n : /\ token[k].session.login \in Nat
                          /\ Live(k) => token[k].session.login <= n
    BY <1>0, TokenIds DEF QInv, LoginsExist, n, S!TokenRow, S!Session
  <2> QED
    BY <1>0, <1>4, <1>5, <2>1 DEF Live, S!IsRevoked
<1>7. TokensKeep
  BY <1>0, <1>4, <1>5, <1>6 DEF TokensKeep, n
<1>8. /\ req' \in [Requests -> S!RequestState]
      /\ \A q \in Requests : Knows(req[q])'
      /\ SecretsAreDrawn'
  BY <1>1, <1>7, SecretsStay, EndKnows
<1>9. S!SessionsTypeOK'
  BY <1>1, <1>4, <1>8 DEF QInv, S!SessionsTypeOK
<1>10. LoginsExist'
  <2>1. ASSUME NEW k \in DOMAIN token', Live(k)'
        PROVE  token'[k].session.login <= n + 1
    <3>1. CASE k = n + 1
      BY <1>0, <1>3, <1>4, <3>1
    <3>2. CASE k \in 1 .. n
      <4>1. token'[k] = token[k] /\ Live(k)
        BY <1>4, <1>6, <2>1, <3>2
      <4> QED
        BY <1>0, <1>6, <3>2, <4>1
    <3> QED
      BY <1>6, <3>1, <3>2
  <2> QED
    BY <1>4, <2>1 DEF LoginsExist
<1>11. OneLiveTokenPerSession'
  <2>1. ASSUME NEW j \in 1 .. n, Live(j)' PROVE token'[j].session.login # n + 1
    BY <1>0, <1>4, <1>6, <2>1
  <2>2. ASSUME NEW j \in DOMAIN token', NEW k \in DOMAIN token', j < k,
               Live(j)', Live(k)',
               token'[j].session.login = token'[k].session.login
        PROVE  token'[j].session.forked \/ token'[k].session.forked
    <3>1. CASE k = n + 1
      BY <1>0, <1>3, <1>4, <1>5, <2>1, <2>2, <3>1
    <3>2. CASE k # n + 1
      <4>1. j \in 1 .. n /\ k \in 1 .. n
        BY <1>0, <1>5, <2>2, <3>2
      <4>2. Live(j) /\ Live(k) /\ token'[j] = token[j] /\ token'[k] = token[k]
        BY <1>4, <1>6, <2>2, <4>1
      <4> QED
        BY <1>0, <2>2, <4>1, <4>2
        DEF QInv, OneLiveTokenPerSession, S!OneLiveTokenPerSession, Live
    <3> QED
      BY <3>1, <3>2
  <2> QED
    BY <2>2 DEF OneLiveTokenPerSession, S!OneLiveTokenPerSession, Live
<1>12. OldPasswordsOpenNothing'
  <2>1. ASSUME NEW k \in DOMAIN token', Live(k)'
        PROVE  \/ token'[k].session.password = account'[token'[k].owner].password
               \/ token'[k].session.escaped = account'[token'[k].owner].password
    <3>1. CASE k = n + 1
      BY <1>1, <1>2, <1>3, <1>4, <3>1
    <3>2. CASE k \in 1 .. n
      BY <1>0, <1>1, <1>4, <1>6, <2>1, <3>2
      DEF QInv, OldPasswordsOpenNothing, S!OldPasswordsOpenNothing, Live
    <3> QED
      BY <1>6, <3>1, <3>2
  <2> QED
    BY <2>1 DEF OldPasswordsOpenNothing, S!OldPasswordsOpenNothing, Live
<1>13. ActiveSecretIsProven'
  BY <1>1 DEF QInv, ActiveSecretIsProven, S!ActiveSecretIsProven
<1> QED
  BY <1>8, <1>9, <1>10, <1>11, <1>12, <1>13 DEF QInv

\* A rotation inserts the successor of a token and revokes the token; where
\* the token was revoked before, the session has forked.
LEMMA RotateStep ==
  ASSUME QInv, NEW r \in Requests, S!Rotate(r)
  PROVE  QInv'
<1> DEFINE n == Len(token)
           s == req[r]
           t == S!Revoke({s.token})
           session == [s.session EXCEPT !.forked = @ \/ S!IsRevoked(s.token)]
           row == [owner |-> s.user, status |-> "valid", session |-> session]
<1>0. /\ s \in S!RequestState /\ Knows(s) /\ s.session \in S!Session
      /\ n \in Nat /\ DOMAIN token = 1 .. n /\ s.pc = "rotate"
  BY UnderWay DEF S!Rotate, S!Waits
<1>1. /\ token' = Append(t, row) /\ S!End(r)
      /\ UNCHANGED <<account, challenges, drawn, proven, clobbered>>
  BY DEF S!Rotate
<1>2. /\ s.user \in Users
      /\ s.token \in DOMAIN token /\ token[s.token].owner = s.user
      /\ s.session.login <= n /\ s.session.login \in Nat
      /\ \/ s.session.password = account[s.user].password
         \/ s.session.escaped = account[s.user].password
      /\ Live(s.token) => token[s.token].session = s.session
  BY <1>0 DEF Knows, Shape, KnowsToken, KnowsPassword, S!Session, n
<1>s. /\ session \in S!Session /\ session.login = s.session.login
      /\ session.password = s.session.password
      /\ session.escaped = s.session.escaped
      /\ s.session.forked => session.forked
      /\ ~Live(s.token) => session.forked
  <2>1. ~Live(s.token) => S!IsRevoked(s.token)
    BY <1>2 DEF Live
  <2> QED
    BY <1>0, <2>1 DEF S!Session
<1> HIDE DEF session
<1>3. /\ row \in S!TokenRow /\ row.owner = s.user /\ row.status = "valid"
      /\ row.session = session
  BY <1>2, <1>s DEF S!TokenRow
<1>r. /\ t \in Seq(S!TokenRow) /\ Len(t) = n
      /\ \A k \in DOMAIN token :
           /\ t[k].owner = token[k].owner
           /\ k = s.token => t[k].status = "revoked"
           /\ k # s.token => t[k] = token[k]
  BY Revoking DEF QInv, n
<1> HIDE DEF n, s, row, t
<1>4. /\ token' \in Seq(S!TokenRow) /\ Len(token') = n + 1
      /\ token'[n + 1] = row /\ \A k \in 1 .. n : token'[k] = t[k]
  BY <1>1, <1>3, <1>r, Inserting
<1>5. DOMAIN token' = 1 .. n + 1
  BY <1>4, LenProperties
<1>6. /\ \A k \in 1 .. n :
           /\ Live(k)' <=> Live(k) /\ k # s.token
           /\ token'[k].owner = token[k].owner
           /\ Live(k)' => token'[k] = token[k]
      /\ \A k \in DOMAIN token' : k \in 1 .. n \/ k = n + 1
  BY <1>0, <1>4, <1>5, <1>r DEF Live, S!IsRevoked
<1>7. TokensKeep
  BY <1>0, <1>4, <1>5, <1>6 DEF TokensKeep, n
<1>8. /\ req' \in [Requests -> S!RequestState]
      /\ \A q \in Requests : Knows(req[q])'
      /\ SecretsAreDrawn'
  BY <1>1, <1>7, SecretsStay, EndKnows
<1>9. S!SessionsTypeOK'
  BY <1>1, <1>4, <1>8 DEF QInv, S!SessionsTypeOK
<1>10. LoginsExist'
  <2>1. \A k \in 1 .. n : Live(k) => token[k].session.login <= n
                                     /\ token[k].session.login \in Nat
    BY <1>0, TokenIds DEF QInv, LoginsExist, n, S!TokenRow, S!Session
  <2>2. ASSUME NEW k \in DOMAIN token', Live(k)'
        PROVE  token'[k].session.login <= n + 1
    <3>1. CASE k = n + 1
      BY <1>0, <1>2, <1>3, <1>4, <1>s, <3>1
    <3>2. CASE k \in 1 .. n
      BY <1>0, <1>6, <2>1, <2>2, <3>2
    <3> QED
      BY <1>6, <3>1, <3>2
  <2> QED
    BY <1>4, <2>2 DEF LoginsExist
<1>11. OneLiveTokenPerSession'
  <2>1. ASSUME NEW j \in 1 .. n, Live(j)',
               token'[j].session.login = session.login, ~session.forked
        PROVE  token'[j].session.forked
    <3>1. /\ Live(j) /\ j # s.token /\ token'[j] = token[j]
      BY <1>6, <2>1
    <3>2. /\ Live(s.token) /\ ~token[s.token].session.forked
          /\ token[s.token].session.login = session.login
          /\ s.token \in 1 .. n
      BY <1>0, <1>2, <1>s, <2>1
    <3>3. j < s.token \/ s.token < j
      BY <1>0, <3>1, <3>2
    <3> QED
      BY <1>0, <2>1, <3>1, <3>2, <3>3
      DEF QInv, OneLiveTokenPerSession, S!OneLiveTokenPerSession, Live
  <2>2. ASSUME NEW j \in DOMAIN token', NEW k \in DOMAIN token', j < k,
               Live(j)', Live(k)',
               token'[j].session.login = token'[k].session.login
        PROVE  token'[j].session.forked \/ token'[k].session.forked
    <3>1. CASE k = n + 1
      <4>1. j \in 1 .. n
        BY <1>0, <1>5, <2>2, <3>1
      <4> QED
        BY <1>3, <1>4, <2>1, <2>2, <3>1, <4>1
    <3>2. CASE k # n + 1
      <4>1. j \in 1 .. n /\ k \in 1 .. n
        BY <1>0, <1>5, <2>2, <3>2
      <4>2. Live(j) /\ Live(k) /\ token'[j] = token[j] /\ token'[k] = token[k]
        BY <1>6, <2>2, <4>1
      <4> QED
        BY <1>0, <2>2, <4>1, <4>2
        DEF QInv, OneLiveTokenPerSession, S!OneLiveTokenPerSession, Live
    <3> QED
      BY <3>1, <3>2
  <2> QED
    BY <2>2 DEF OneLiveTokenPerSession, S!OneLiveTokenPerSession, Live
<1>12. OldPasswordsOpenNothing'
  <2>1. ASSUME NEW k \in DOMAIN token', Live(k)'
        PROVE  \/ token'[k].session.password = account'[token'[k].owner].password
               \/ token'[k].session.escaped = account'[token'[k].owner].password
    <3>1. CASE k = n + 1
      BY <1>1, <1>2, <1>3, <1>4, <1>s, <3>1
    <3>2. CASE k \in 1 .. n
      BY <1>0, <1>1, <1>6, <2>1, <3>2
      DEF QInv, OldPasswordsOpenNothing, S!OldPasswordsOpenNothing, Live
    <3> QED
      BY <1>6, <3>1, <3>2
  <2> QED
    BY <2>1 DEF OldPasswordsOpenNothing, S!OldPasswordsOpenNothing, Live
<1>13. ActiveSecretIsProven'
  BY <1>1 DEF QInv, ActiveSecretIsProven, S!ActiveSecretIsProven
<1> QED
  BY <1>8, <1>9, <1>10, <1>11, <1>12, <1>13 DEF QInv

\* A logout revokes one token, and the answer to a reuse what was read.
LEMMA RevokeStep ==
  ASSUME QInv, NEW r \in Requests, S!RevokeOne(r) \/ S!RevokeAllForUser(r)
  PROVE  QInv'
<1>1. PICK ids : token' = S!Revoke(ids)
  BY DEF S!RevokeOne, S!RevokeAllForUser
<1>2. /\ S!End(r)
      /\ UNCHANGED <<account, challenges, drawn, proven, clobbered>>
  BY DEF S!RevokeOne, S!RevokeAllForUser
<1>3. TokensKeep /\ Len(token') = Len(token)
  BY <1>1, RevokedTokens DEF QInv
<1>4. /\ req' \in [Requests -> S!RequestState]
      /\ \A q \in Requests : Knows(req[q])'
      /\ PasswordsKeep /\ SecretsAreDrawn'
  BY <1>2, <1>3, SecretsStay, EndKnows
<1>5. ActiveSecretIsProven'
  BY <1>2 DEF QInv, ActiveSecretIsProven, S!ActiveSecretIsProven
<1> QED
  BY <1>2, <1>3, <1>4, <1>5, QInvKept DEF QInv, S!SessionsTypeOK

\* The commit of a new password revokes what was read, and what it does not
\* revoke it marks: the tokens that came later and those still to come.
LEMMA ReplacePasswordStep ==
  ASSUME QInv, NEW r \in Requests, S!ReplacePassword(r)
  PROVE  QInv'
<1> DEFINE s == req[r]
           n == Len(token)
           new == account[s.user].password + 1
           late(k) == k \in S!LiveTokens(s.user) /\ k > s.seen
           revoked == S!Revoke(s.live)
           Mark(x) == [x EXCEPT !.session.escaped = new]
           Issues(q) == req[q].user = s.user /\ req[q].pc \in {"issue", "rotate"}
<1>0. /\ Knows(s) /\ s.pc = "revoke" /\ n \in Nat /\ DOMAIN token = 1 .. n
      /\ token \in Seq(S!TokenRow)
      /\ \A k \in 1 .. n : token[k] \in S!TokenRow
  BY UnderWay, TokenIds
  DEF QInv, S!SessionsTypeOK, S!ReplacePassword, S!Waits
<1>1. /\ s.user \in Users /\ s.seen <= n /\ s.seen \in Nat
      /\ \A k \in DOMAIN token :
           Live(k) /\ token[k].owner = s.user /\ k <= s.seen => k \in s.live
  BY <1>0, UnderWay DEF Knows, Shape, KnowsLive, S!RequestState
<1>2. new \in Nat /\ new # account[s.user].password
  BY <1>1, AccountFields DEF QInv
<1>3. /\ account' = [account EXCEPT ![s.user].password = new]
      /\ token' = [k \in DOMAIN token |->
                     IF late(k) THEN Mark(token[k]) ELSE revoked[k]]
      /\ req' = [q \in Requests |-> IF q = r THEN S!IdleRequest
                                    ELSE IF Issues(q) THEN Mark(req[q])
                                    ELSE req[q]]
      /\ UNCHANGED <<challenges, drawn, proven, clobbered>>
  BY DEF S!ReplacePassword
<1>a. /\ account' \in [Users -> S!AccountRow]
      /\ \A u \in Users : /\ account'[u].secret = account[u].secret
                          /\ account'[u].enabled = account[u].enabled
      /\ account'[s.user].password = new
      /\ \A u \in Users \ {s.user} : account'[u] = account[u]
  <2> DEFINE a == [account[s.user] EXCEPT !.password = new]
  <2>1. account \in [Users -> S!AccountRow] /\ account[s.user] \in S!AccountRow
    BY <1>1 DEF QInv, S!SessionsTypeOK
  <2> HIDE DEF new
  <2>2. /\ a \in S!AccountRow /\ a.secret = account[s.user].secret
        /\ a.enabled = account[s.user].enabled /\ a.password = new
    BY <1>2, <2>1 DEF S!AccountRow
  <2>3. account' = [account EXCEPT ![s.user] = a]
    BY <1>3
  <2> HIDE DEF a, s
  <2> QED
    BY <1>1, <2>1, <2>2, <2>3
<1> HIDE DEF new
<1>m. ASSUME NEW x \in S!TokenRow
      PROVE  /\ Mark(x) \in S!TokenRow /\ Mark(x).owner = x.owner
             /\ Mark(x).status = x.status
             /\ Mark(x).session = [x.session EXCEPT !.escaped = new]
             /\ Mark(x).session.login = x.session.login
             /\ Mark(x).session.forked = x.session.forked
             /\ Mark(x).session.escaped = new
  <2>1. x.session \in S!Session
    BY DEF S!TokenRow
  <2>2. /\ [x.session EXCEPT !.escaped = new] \in S!Session
        /\ [x.session EXCEPT !.escaped = new].login = x.session.login
        /\ [x.session EXCEPT !.escaped = new].forked = x.session.forked
        /\ [x.session EXCEPT !.escaped = new].escaped = new
    BY <1>2, <2>1 DEF S!Session
  <2>3. Mark(x) = [x EXCEPT !.session = [x.session EXCEPT !.escaped = new]]
    OBVIOUS
  <2> QED
    BY <2>2, <2>3 DEF S!TokenRow
<1>q. ASSUME NEW x \in S!RequestState
      PROVE  /\ Mark(x) \in S!RequestState /\ Mark(x).op = x.op
             /\ Mark(x).pc = x.pc /\ Mark(x).user = x.user
             /\ Mark(x).token = x.token /\ Mark(x).live = x.live
             /\ Mark(x).seen = x.seen /\ Mark(x).secret = x.secret
             /\ Mark(x).session = [x.session EXCEPT !.escaped = new]
             /\ Mark(x).session.login = x.session.login
             /\ Mark(x).session.escaped = new
  <2>1. x.session \in S!Session
    BY DEF S!RequestState
  <2>2. /\ [x.session EXCEPT !.escaped = new] \in S!Session
        /\ [x.session EXCEPT !.escaped = new].login = x.session.login
        /\ [x.session EXCEPT !.escaped = new].escaped = new
    BY <1>2, <2>1 DEF S!Session
  <2>3. Mark(x) = [x EXCEPT !.session = [x.session EXCEPT !.escaped = new]]
    OBVIOUS
  <2> QED
    BY <2>2, <2>3 DEF S!RequestState
<1>r. /\ revoked \in Seq(S!TokenRow) /\ Len(revoked) = n
      /\ \A k \in DOMAIN token :
           /\ revoked[k].owner = token[k].owner
           /\ k \in s.live => revoked[k].status = "revoked"
           /\ k \notin s.live => revoked[k] = token[k]
  BY Revoking DEF QInv
<1>b. \A k \in 1 .. n : revoked[k] \in S!TokenRow
  BY <1>r, ElementOfSeq
<1>4. /\ DOMAIN token' = 1 .. n
      /\ \A k \in 1 .. n :
           token'[k] = IF late(k) THEN Mark(token[k]) ELSE revoked[k]
  BY <1>0, <1>3
<1> HIDE DEF Mark, revoked
<1>5. token' \in Seq(S!TokenRow) /\ Len(token') = n
  <2>1. token' \in [1 .. n -> S!TokenRow]
    BY <1>0, <1>3, <1>b, <1>m
  <2>2. token' \in Seq(S!TokenRow)
    BY <1>0, <2>1, SeqDef
  <2>3. Len(token') \in Nat /\ 1 .. Len(token') = 1 .. n
    BY <2>1, <2>2, LenProperties
  <2> QED
    BY <1>0, <2>2, <2>3
<1>l. ASSUME NEW k \in 1 .. n
      PROVE  late(k) <=> /\ Live(k) /\ token[k].owner = s.user /\ k > s.seen
  BY <1>0 DEF S!LiveTokens, Live
<1> HIDE DEF late
<1>6. ASSUME NEW k \in 1 .. n
      PROVE  /\ token'[k].owner = token[k].owner
             /\ Live(k)' => Live(k)
             /\ Live(k)' => token'[k].session.login = token[k].session.login
             /\ Live(k)' => token'[k].session.forked = token[k].session.forked
             /\ Live(k)' /\ token[k].owner = s.user =>
                  /\ token'[k].session =
                       [token[k].session EXCEPT !.escaped = new]
                  /\ token'[k].session.escaped = new
             /\ Live(k)' /\ token[k].owner # s.user => token'[k] = token[k]
  <2>1. CASE late(k)
    <3>1. token'[k] = Mark(token[k]) /\ Live(k) /\ token[k].owner = s.user
      BY <1>4, <1>l, <2>1
    <3> QED
      BY <1>0, <1>m, <3>1
  <2>2. CASE ~late(k)
    <3>1. token'[k] = revoked[k]
      BY <1>4, <2>2
    <3>2. CASE k \in s.live
      BY <1>0, <1>4, <1>r, <3>1, <3>2 DEF Live, S!IsRevoked
    <3>3. CASE k \notin s.live
      <4>1. token'[k] = token[k]
        BY <1>0, <1>r, <3>1, <3>3
      <4>2. Live(k)' <=> Live(k)
        BY <1>0, <1>4, <4>1 DEF Live, S!IsRevoked
      <4>3. Live(k) => token[k].owner # s.user
        BY <1>0, <1>1, <1>l, <2>2, <3>3
      <4> QED
        BY <4>1, <4>2, <4>3
    <3> QED
      BY <3>2, <3>3
  <2> QED
    BY <2>1, <2>2
<1>7. /\ req' \in [Requests -> S!RequestState]
      /\ req'[r] = S!IdleRequest
      /\ \A q \in Requests \ {r} :
           req'[q] = IF Issues(q) THEN Mark(req[q]) ELSE req[q]
  <2>1. /\ req'[r] = S!IdleRequest
        /\ \A q \in Requests \ {r} :
             req'[q] = IF Issues(q) THEN Mark(req[q]) ELSE req[q]
    BY <1>3
  <2>2. \A q \in Requests : req[q] \in S!RequestState
    BY UnderWay
  <2>3. DOMAIN req' = Requests /\ req' = [q \in Requests |-> req'[q]]
    BY <1>3
  <2>4. \A q \in Requests : req'[q] \in S!RequestState
    BY <1>q, <2>1, <2>2, IdleKnows
  <2> QED
    BY <2>1, <2>3, <2>4
<1>k. ASSUME NEW x \in S!RequestState, Knows(x), NEW y,
             y.op = x.op, y.pc = x.pc, y.user = x.user, y.token = x.token,
             y.live = x.live, y.seen = x.seen, y.secret = x.secret,
             y.session.login = x.session.login,
             x.user = s.user /\ x.pc \in {"issue", "rotate"} =>
               /\ y.session = [x.session EXCEPT !.escaped = new]
               /\ y.session.escaped = new,
             x.user # s.user => y.session = x.session
      PROVE  Knows(y)'
  <2>1. Shape(y)'
    BY <1>k DEF Knows, Shape
  <2>2. KnowsToken(y)'
    <3> SUFFICES ASSUME y.pc = "rotate" PROVE KnowsToken(y)'
      BY DEF KnowsToken
    <3>1. /\ x.token \in 1 .. n /\ token[x.token].owner = x.user
          /\ x.session.login <= n
          /\ Live(x.token) => token[x.token].session = x.session
      BY <1>0, <1>k DEF Knows, KnowsToken, n
    <3>2. /\ y.token \in DOMAIN token' /\ token'[y.token].owner = y.user
          /\ y.session.login <= Len(token')
      BY <1>4, <1>5, <1>6, <1>k, <3>1
    <3>3. ASSUME Live(y.token)' PROVE token'[y.token].session = y.session
      <4>1. y.token = x.token /\ y.token \in 1 .. n /\ x.pc = "rotate"
        BY <1>k, <3>1
      <4>2. Live(x.token) /\ token[x.token].session = x.session
        BY <1>6, <3>1, <3>3, <4>1
      <4>3. CASE x.user = s.user
        BY <1>6, <1>k, <3>1, <3>3, <4>1, <4>2, <4>3
      <4>4. CASE x.user # s.user
        BY <1>6, <1>k, <3>1, <3>3, <4>1, <4>2, <4>4
      <4> QED
        BY <4>3, <4>4
    <3> QED
      BY <3>2, <3>3 DEF KnowsToken
  <2>3. KnowsLive(y)'
    <3> SUFFICES ASSUME y.pc = "revoke" PROVE KnowsLive(y)'
      BY DEF KnowsLive
    <3>1. /\ y.seen <= n
          /\ \A k \in 1 .. n :
               Live(k) /\ token[k].owner = y.user /\ k <= y.seen => k \in y.live
      BY <1>0, <1>k DEF Knows, KnowsLive, n
    <3> QED
      BY <1>4, <1>5, <1>6, <3>1 DEF KnowsLive
  <2>4. KnowsPassword(y)'
    <3> SUFFICES ASSUME y.pc \in {"issue", "rotate"} PROVE KnowsPassword(y)'
      BY DEF KnowsPassword
    <3>1. y.user \in Users
      BY <1>k DEF Knows, Shape
    <3>2. CASE y.user = s.user
      BY <1>a, <1>k, <3>2 DEF KnowsPassword
    <3>3. CASE y.user # s.user
      BY <1>a, <1>k, <3>1, <3>3 DEF Knows, KnowsPassword
    <3> QED
      BY <3>2, <3>3
  <2>5. KnowsSecret(y)'
    <3>1. y.op = "enable" => y.user \in Users
      BY <1>k DEF Knows, Shape, S!Enrolments
    <3> QED
      BY <1>3, <1>a, <1>k, <3>1 DEF Knows, KnowsSecret
  <2> QED
    BY <2>1, <2>2, <2>3, <2>4, <2>5 DEF Knows
<1>8. ASSUME NEW q \in Requests PROVE Knows(req[q])'
  <2>1. CASE q = r
    <3>1. req'[q].pc = "idle" /\ req'[q].op = "none"
      BY <1>7, <2>1, IdleKnows
    <3> QED
      BY <3>1 DEF Knows, Shape, KnowsToken, KnowsLive, KnowsPassword,
                  KnowsSecret, S!Enrolments
  <2>2. CASE q # r
    <3>1. PICK x \in S!RequestState : x = req[q] /\ Knows(x)
      BY UnderWay
    <3>2. PICK y : y = IF Issues(q) THEN Mark(x) ELSE x
      OBVIOUS
    <3>3. y = req'[q]
      BY <1>7, <2>2, <3>1, <3>2
    <3>4. Issues(q) <=> x.user = s.user /\ x.pc \in {"issue", "rotate"}
      BY <3>1
    <3> HIDE DEF Issues, s
    <3>5. Knows(y)'
      <4>1. CASE Issues(q)
        <5>1. y = Mark(x)
          BY <3>2, <4>1
        <5> QED
          BY <1>k, <1>q, <3>1, <3>4, <4>1, <5>1
      <4>2. CASE ~Issues(q)
        <5>1. y = x
          BY <3>2, <4>2
        <5> QED
          BY <1>k, <3>1, <3>4, <4>2, <5>1
      <4> QED
        BY <4>1, <4>2
    <3> QED
      BY <3>3, <3>5 DEF Knows, Shape, KnowsToken, KnowsLive, KnowsPassword,
                        KnowsSecret
  <2> QED
    BY <2>1, <2>2
<1>9. S!SessionsTypeOK'
  BY <1>3, <1>5, <1>7, <1>a DEF QInv, S!SessionsTypeOK
<1>10. LoginsExist'
  BY <1>0, <1>4, <1>5, <1>6 DEF QInv, LoginsExist, n
<1>11. OneLiveTokenPerSession'
  <2>1. ASSUME NEW j \in 1 .. n, NEW k \in 1 .. n, j < k, Live(j)', Live(k)',
               token'[j].session.login = token'[k].session.login
        PROVE  token'[j].session.forked \/ token'[k].session.forked
    <3>1. /\ Live(j) /\ Live(k)
          /\ token[j].session.login = token[k].session.login
      BY <1>6, <2>1
    <3>2. token[j].session.forked \/ token[k].session.forked
      BY <1>0, <2>1, <3>1
      DEF QInv, OneLiveTokenPerSession, S!OneLiveTokenPerSession, Live
    <3> QED
      BY <1>6, <2>1, <3>2
  <2> QED
    BY <1>4, <2>1 DEF OneLiveTokenPerSession, S!OneLiveTokenPerSession, Live
<1>12. OldPasswordsOpenNothing'
  <2>1. ASSUME NEW k \in 1 .. n, Live(k)'
        PROVE  \/ token'[k].session.password = account'[token'[k].owner].password
               \/ token'[k].session.escaped = account'[token'[k].owner].password
    <3>1. token[k].owner \in Users /\ Live(k) /\ token'[k].owner = token[k].owner
      BY <1>0, <1>6, <2>1 DEF S!TokenRow
    <3>2. CASE token[k].owner = s.user
      BY <1>6, <1>a, <2>1, <3>1, <3>2
    <3>3. CASE token[k].owner # s.user
      <4>1. token'[k] = token[k]
        BY <1>6, <2>1, <3>3
      <4> QED
        BY <1>0, <1>a, <3>1, <3>3, <4>1
        DEF QInv, OldPasswordsOpenNothing, S!OldPasswordsOpenNothing, Live
    <3> QED
      BY <3>2, <3>3
  <2> QED
    BY <1>4, <2>1 DEF OldPasswordsOpenNothing, S!OldPasswordsOpenNothing, Live
<1>13. SecretsAreDrawn' /\ ActiveSecretIsProven'
  BY <1>3, <1>a
  DEF QInv, SecretsAreDrawn, ActiveSecretIsProven, S!ActiveSecretIsProven
<1> QED
  BY <1>8, <1>9, <1>10, <1>11, <1>12, <1>13 DEF QInv

\* A request that ends and leaves the tokens and the passwords alone.
LEMMA SaveKeeps ==
  ASSUME QInv, NEW r \in Requests, S!End(r), UNCHANGED token,
         challenges' \subseteq Users, clobbered' \subseteq Users,
         account' \in [Users -> S!AccountRow],
         drawn' \in [Users -> Nat], proven' \in [Users -> Nat],
         PasswordsKeep, \A q \in Requests \ {r} : KnowsSecret(req[q])',
         SecretsAreDrawn', ActiveSecretIsProven'
  PROVE  QInv'
<1>1. TokensKeep /\ Len(token') = Len(token)
  BY SameTokens DEF QInv
<1>2. /\ req' \in [Requests -> S!RequestState]
      /\ \A q \in Requests : Knows(req[q])'
  BY <1>1, EndKnows
<1> QED
  BY <1>1, <1>2, QInvKept

\* An enrolment step commits on the row as it is by then: what it decided on
\* may be stale, and is then noted.
LEMMA SaveStep ==
  ASSUME QInv, NEW r \in Requests,
         S!SaveSecret(r) \/ S!SaveEnabled(r) \/ S!SaveDisabled(r)
  PROVE  QInv'
<1> DEFINE s == req[r]
           u == req[r].user
<1>0. /\ Knows(s) /\ s.pc = "save" /\ S!End(r) /\ S!NoteEnrolment(r)
      /\ UNCHANGED <<token, challenges, proven>>
  BY UnderWay DEF S!SaveSecret, S!SaveEnabled, S!SaveDisabled, S!Waits
<1>1. u \in Users /\ KnowsSecret(s)
  BY <1>0 DEF Knows, Shape
<1>t. /\ account \in [Users -> S!AccountRow] /\ drawn \in [Users -> Nat]
      /\ proven \in [Users -> Nat] /\ clobbered \subseteq Users
      /\ challenges \subseteq Users
      /\ account[u] \in S!AccountRow
  BY <1>1 DEF QInv, S!SessionsTypeOK
<1>2. PICK a \in S!AccountRow :
        /\ account' = [account EXCEPT ![u] = a]
        /\ a.password = account[u].password
        /\ \/ /\ s.op = "setup" /\ a.secret = drawn[u] + 1
              /\ a.enabled = account[u].enabled
              /\ drawn' = [drawn EXCEPT ![u] = @ + 1]
           \/ /\ s.op = "enable" /\ a.secret = account[u].secret /\ a.enabled
              /\ drawn' = drawn
           \/ /\ s.op = "disable" /\ a.secret = 0 /\ ~a.enabled
              /\ drawn' = drawn
  <2>n. drawn[u] + 1 \in Nat
    BY <1>1, <1>t
  <2>1. CASE S!SaveSecret(r)
    <3> DEFINE b == [account[u] EXCEPT !.secret = drawn[u] + 1]
    <3>1. /\ b \in S!AccountRow /\ b.password = account[u].password
          /\ b.secret = drawn[u] + 1 /\ b.enabled = account[u].enabled
      BY <1>t, <2>n DEF S!AccountRow
    <3>2. /\ account' = [account EXCEPT ![u] = b] /\ s.op = "setup"
          /\ drawn' = [drawn EXCEPT ![u] = @ + 1]
      BY <2>1, <1>t DEF S!SaveSecret
    <3> QED
      BY <3>1, <3>2
  <2>2. CASE S!SaveEnabled(r)
    <3> DEFINE b == [account[u] EXCEPT !.enabled = TRUE]
    <3>1. /\ b \in S!AccountRow /\ b.password = account[u].password
          /\ b.secret = account[u].secret /\ b.enabled
      BY <1>t DEF S!AccountRow
    <3>2. /\ account' = [account EXCEPT ![u] = b] /\ s.op = "enable"
          /\ drawn' = drawn
      BY <2>2, <1>t DEF S!SaveEnabled
    <3> QED
      BY <3>1, <3>2
  <2>3. CASE S!SaveDisabled(r)
    <3> DEFINE b == [account[u] EXCEPT !.enabled = FALSE, !.secret = 0]
    <3>1. /\ b \in S!AccountRow /\ b.password = account[u].password
          /\ b.secret = 0 /\ ~b.enabled
      BY <1>t DEF S!AccountRow
    <3>2. /\ account' = [account EXCEPT ![u] = b] /\ s.op = "disable"
          /\ drawn' = drawn
      BY <2>3, <1>t DEF S!SaveDisabled
    <3> QED
      BY <3>1, <3>2
  <2> QED
    BY <2>1, <2>2, <2>3
<1>3. /\ account' \in [Users -> S!AccountRow] /\ account'[u] = a
      /\ \A v \in Users \ {u} : account'[v] = account[v]
      /\ drawn' \in [Users -> Nat]
      /\ \A v \in Users \ {u} : drawn'[v] = drawn[v]
      /\ a.secret \in Nat /\ drawn[u] \in Nat
      /\ s.op = "setup" => drawn'[u] = drawn[u] + 1
      /\ s.op # "setup" => drawn'[u] = drawn[u]
  BY <1>1, <1>2, <1>t DEF S!AccountRow
<1>4. /\ clobbered' \subseteq Users
      /\ \A v \in Users \ {u} : v \notin clobbered' => v \notin clobbered
      /\ u \notin clobbered' =>
           /\ account[u].secret = s.secret
           /\ account[u].enabled = (s.op = "disable")
           /\ s.op # "disable" => u \notin clobbered
  BY <1>0, <1>1, <1>t DEF S!NoteEnrolment, S!StaleEnrolment
<1>5. ASSUME NEW q \in Requests \ {r} PROVE KnowsSecret(req[q])'
  <2>1. /\ req'[q] = req[q] /\ Knows(req[q]) /\ req[q] \in S!RequestState
    BY <1>0, OneMoves, IdleKnows, UnderWay DEF QInv, S!End
  <2>2. req[q].op = "enable" => req[q].user \in Users
    BY <2>1 DEF Knows, Shape, S!Enrolments
  <2>3. req[q].secret \in Nat
    BY <2>1 DEF S!RequestState
  <2>4. CASE req[q].user # u
    BY <1>0, <1>3, <2>1, <2>2, <2>4 DEF Knows, KnowsSecret
  <2>5. CASE req[q].user = u
    <3>1. ASSUME req[q].op = "enable"
          PROVE  /\ req[q].secret # 0 /\ req[q].secret <= drawn'[u]
                 /\ a.secret = req[q].secret => proven[u] = req[q].secret
      BY <1>2, <1>3, <2>1, <2>3, <2>5, <3>1 DEF Knows, KnowsSecret
    <3> QED
      BY <1>0, <1>3, <2>1, <2>5, <3>1 DEF KnowsSecret
  <2> QED
    BY <2>4, <2>5
<1>6. SecretsAreDrawn'
  <2>1. a.secret <= drawn'[u]
    BY <1>1, <1>2, <1>3 DEF QInv, SecretsAreDrawn
  <2> QED
    BY <1>3, <2>1 DEF QInv, SecretsAreDrawn
<1>7. ActiveSecretIsProven'
  <2>1. ASSUME NEW v \in Users, v \notin clobbered', account'[v].enabled
        PROVE  account'[v].secret = proven'[v]
    <3>1. CASE v # u
      BY <1>0, <1>3, <1>4, <2>1, <3>1
      DEF QInv, ActiveSecretIsProven, S!ActiveSecretIsProven
    <3>2. CASE v = u
      <4>1. s.op = "enable" /\ a.secret = account[u].secret
        BY <1>2, <1>3, <1>4, <2>1, <3>2
      <4>2. account[u].secret = s.secret
        BY <1>4, <2>1, <3>2
      <4> QED
        BY <1>0, <1>1, <1>3, <3>2, <4>1, <4>2 DEF KnowsSecret
    <3> QED
      BY <3>1, <3>2
  <2> QED
    BY <2>1 DEF ActiveSecretIsProven, S!ActiveSecretIsProven
<1>8. PasswordsKeep
  BY <1>2, <1>3 DEF PasswordsKeep
<1>9. /\ S!End(r) /\ UNCHANGED token /\ challenges' \subseteq Users
      /\ proven' \in [Users -> Nat]
  BY <1>0, <1>t
<1> QED
  BY <1>3, <1>4, <1>5, <1>6, <1>7, <1>8, <1>9, SaveKeeps

\* A request that stops has written nothing.
LEMMA StopRequestStep ==
  ASSUME QInv, NEW r \in Requests, S!StopRequest(r)
  PROVE  QInv'
<1>1. /\ S!End(r)
      /\ UNCHANGED <<account, token, challenges, drawn, proven, clobbered>>
  BY DEF S!StopRequest
<1>2. /\ \A q \in Requests \ {r} : KnowsSecret(req[q])'
      /\ PasswordsKeep /\ SecretsAreDrawn'
  BY <1>1, SecretsStay
<1>3. ActiveSecretIsProven'
  BY <1>1 DEF QInv, ActiveSecretIsProven, S!ActiveSecretIsProven
<1> QED
  BY <1>1, <1>2, <1>3, SaveKeeps DEF QInv, S!SessionsTypeOK

\* A token that expires is still live to whoever revokes.
LEMMA ExpireRefreshTokenStep ==
  ASSUME QInv, NEW k \in DOMAIN token, S!ExpireRefreshToken(k)
  PROVE  QInv'
<1>0. /\ Len(token) \in Nat /\ DOMAIN token = 1 .. Len(token)
      /\ token \in Seq(S!TokenRow) /\ token[k] \in S!TokenRow
      /\ \A j \in DOMAIN token : token[j] \in S!TokenRow
  BY TokenIds DEF QInv, S!SessionsTypeOK
<1> DEFINE row == [token[k] EXCEPT !.status = "expired"]
<1>1. /\ row \in S!TokenRow /\ row.owner = token[k].owner
      /\ row.session = token[k].session /\ row.status = "expired"
  BY <1>0 DEF S!TokenRow
<1>2. /\ token' = [token EXCEPT ![k] = row] /\ token[k].status = "valid"
      /\ UNCHANGED <<account, challenges, drawn, proven, clobbered, req>>
  BY DEF S!ExpireRefreshToken, S!IsValid
<1> HIDE DEF row
<1>3. token' \in Seq(S!TokenRow) /\ Len(token') = Len(token)
  BY <1>0, <1>1, <1>2, ExceptSeq
<1>4. DOMAIN token' = DOMAIN token
  BY <1>0, <1>2
<1>5. \A j \in DOMAIN token :
        /\ token'[j].owner = token[j].owner
        /\ token'[j].session = token[j].session
        /\ Live(j)' <=> Live(j)
  BY <1>1, <1>2, <1>4 DEF Live, S!IsRevoked
<1>6. TokensKeep /\ PasswordsKeep
  BY <1>0, <1>2, <1>3, <1>4, <1>5 DEF TokensKeep, PasswordsKeep
<1>7. ASSUME NEW r \in Requests PROVE Knows(req[r])'
  <2>1. PICK s \in S!RequestState : s = req[r] /\ Knows(s)
    BY UnderWay
  <2>2. KnowsSecret(s)'
    BY <1>2, <2>1 DEF Knows, KnowsSecret
  <2>3. Knows(s)'
    BY <1>6, <2>1, <2>2, KnowsKept
  <2> QED
    BY <1>2, <2>1, <2>3 DEF Knows, Shape, KnowsToken, KnowsLive, KnowsPassword,
                            KnowsSecret
<1>8. SecretsAreDrawn' /\ ActiveSecretIsProven'
  BY <1>2
  DEF QInv, SecretsAreDrawn, ActiveSecretIsProven, S!ActiveSecretIsProven
<1> QED
  BY <1>2, <1>3, <1>6, <1>7, <1>8, QInvKept DEF QInv, S!SessionsTypeOK

\* A step that changes nothing a session reads, but for a challenge.
LEMMA QInvQuiet ==
  ASSUME QInv, UNCHANGED <<account, token, drawn, proven, clobbered, req>>,
         challenges' \subseteq Users
  PROVE  QInv'
<1>1. \A r \in Requests : Knows(req[r])'
  BY DEF QInv, Knows, Shape, KnowsToken, KnowsLive, KnowsPassword, KnowsSecret,
         Live, S!IsRevoked
<1>2. S!SessionsTypeOK' /\ SecretsAreDrawn'
  BY DEF QInv, S!SessionsTypeOK, SecretsAreDrawn
<1>3. LoginsExist' /\ OneLiveTokenPerSession'
  BY DEF QInv, LoginsExist, Live, OneLiveTokenPerSession,
         S!OneLiveTokenPerSession, S!IsRevoked
<1>4. OldPasswordsOpenNothing' /\ ActiveSecretIsProven'
  BY DEF QInv, OldPasswordsOpenNothing, S!OldPasswordsOpenNothing, S!IsRevoked,
         ActiveSecretIsProven, S!ActiveSecretIsProven
<1> QED
  BY <1>1, <1>2, <1>3, <1>4 DEF QInv

\* Nobody has signed up, and nothing is under way.
LEMMA QInvInit == S!SessionsInit => QInv
<1> SUFFICES ASSUME S!SessionsInit PROVE QInv
  OBVIOUS
<1>1. token = << >> /\ DOMAIN token = {} /\ << >> \in Seq(S!TokenRow)
  BY EmptySeq DEF S!SessionsInit
<1>2. S!SessionsTypeOK
  BY <1>1, IdleKnows DEF S!SessionsInit, S!SessionsTypeOK, S!AccountRow
<1>3. \A r \in Requests : Knows(req[r])
  BY IdleKnowsLater DEF S!SessionsInit
<1>4. LoginsExist /\ OneLiveTokenPerSession /\ OldPasswordsOpenNothing
  BY <1>1 DEF LoginsExist, OneLiveTokenPerSession, S!OneLiveTokenPerSession,
     OldPasswordsOpenNothing, S!OldPasswordsOpenNothing
<1>5. SecretsAreDrawn /\ ActiveSecretIsProven
  BY DEF S!SessionsInit, SecretsAreDrawn, ActiveSecretIsProven,
         S!ActiveSecretIsProven
<1> QED
  BY <1>2, <1>3, <1>4, <1>5 DEF QInv

\* QInv is inductive, whatever signing up does.
LEMMA QInvNext ==
  ASSUME QInv, [IdentityNext]_identityVars
  PROVE  QInv'
<1>1. CASE SignUp \/ UNCHANGED identityVars
  <2>1. UNCHANGED <<account, token, challenges, drawn, proven, clobbered, req>>
    BY <1>1 DEF SignUp, identityVars, sessions
  <2> QED
    BY <2>1, QInvQuiet DEF QInv, S!SessionsTypeOK
<1>2. ASSUME NEW r \in Requests, S!RequestNext(r) PROVE QInv'
  BY <1>2, LoginStep, ChangePasswordStep, ConfirmPasswordResetStep, EnrolmentStep,
     RefreshStep, LogoutStep, IssueTokenPairStep, RotateStep, RevokeStep,
     ReadLiveTokensStep, ReplacePasswordStep, SaveStep, StopRequestStep
  DEF S!RequestNext
<1>3. ASSUME NEW u \in Users, S!LoginChallenge(u) PROVE QInv'
  <2>1. /\ UNCHANGED <<account, token, drawn, proven, clobbered, req>>
        /\ challenges' \subseteq Users
    BY <1>3 DEF S!LoginChallenge, QInv, S!SessionsTypeOK
  <2> QED
    BY <2>1, QInvQuiet
<1>4. ASSUME NEW k \in DOMAIN token, S!ExpireRefreshToken(k) PROVE QInv'
  BY <1>4, ExpireRefreshTokenStep
<1> QED
  BY <1>1, <1>2, <1>3, <1>4 DEF IdentityNext, UseSession, S!SessionsNext

\* Sessions of users that sign up here are sound, whatever requests of one
\* user overlap: each of them knows what it may still rely on.
THEOREM SessionsAreSound == IdentitySpec => []QInv
<1>1. IdentityInit => QInv
  BY QInvInit DEF IdentityInit
<1>2. QInv /\ [IdentityNext]_identityVars => QInv'
  BY QInvNext
<1> QED
  BY <1>1, <1>2, PTL DEF IdentitySpec

\* A session has at most one token that is not revoked, however its refreshes,
\* logouts and revocations interleave, but where a refresh issued a token for
\* one that was revoked after the refresh had read it.
THEOREM OneTokenPerSession == IdentitySpec => []OneLiveTokenPerSession
<1>1. QInv => OneLiveTokenPerSession
  BY DEF QInv
<1> QED
  BY <1>1, SessionsAreSound, PTL

\* A token that is not revoked was issued for the password of today, or has
\* escaped the setting of this very password, inserted after its SELECT.
THEOREM OldPasswordsAreDead == IdentitySpec => []OldPasswordsOpenNothing
<1>1. QInv => OldPasswordsOpenNothing
  BY DEF QInv
<1> QED
  BY <1>1, SessionsAreSound, PTL

\* 2FA rests on a secret that was proven, but where enrolments overlapped.
THEOREM SecondFactorIsProven == IdentitySpec => []ActiveSecretIsProven
<1>1. QInv => ActiveSecretIsProven
  BY DEF QInv
<1> QED
  BY <1>1, SessionsAreSound, PTL

-----------------------------------------------------------------------------
(* Sessions and sign-up *)

Verified(u) == user[u].verified
Enters(s) == s.pc \in {"issue", "rotate"}

VInv ==
  /\ \A u \in Users : Verified(u) => Exists(u)
  /\ \A k \in DOMAIN token : Verified(token[k].owner)
  /\ \A u \in challenges : Verified(u)
  /\ \A r \in Requests : Enters(req[r]) => Verified(req[r].user)

\* Nothing that signing up does makes a verified user unverified.
LEMMA VerifiedStays ==
  ASSUME RInv, VInv, RegistrationNext
  PROVE  \A u \in Users : /\ Verified(u) => Verified(u)'
                          /\ Verified(u)' => Exists(u)'
<1>t. user \in [Users -> UserRow]
  BY DEF RInv, RegistrationTypeOK
<1>1. CASE UNCHANGED user
  BY <1>1 DEF VInv, Verified, Exists
<1>2. ASSUME NEW r \in Clients, InsertUser(r), ~UNCHANGED user
      PROVE  \A u \in Users : /\ Verified(u) => Verified(u)'
                              /\ Verified(u)' => Exists(u)'
  <2>1. client[r].row.email # NoEmail
    BY <1>2, RegistrationAssumption DEF RInv, SessionKnows, InsertUser
  <2>2. PICK u \in Users : ~Exists(u) /\ user' = [user EXCEPT ![u] = client[r].row]
    BY <1>2 DEF InsertUser
  <2> QED
    BY <1>t, <2>1, <2>2 DEF VInv, Verified, Exists
<1>3. ASSUME NEW r \in Clients, VerifyEmail(r)
      PROVE  \A u \in Users : /\ Verified(u) => Verified(u)'
                              /\ Verified(u)' => Exists(u)'
  <2>1. PICK u \in Users : u = client[r].user /\ Exists(u)
    BY <1>3, Writer DEF VerifyEmail, InCode, AtStep
  <2>2. /\ user'[u].email = user[u].email /\ user'[u].verified = TRUE
        /\ \A v \in Users \ {u} : user'[v] = user[v]
    BY <1>3, <1>t, <2>1 DEF VerifyEmail, UserRow
  <2> QED
    BY <2>1, <2>2 DEF VInv, Verified, Exists
<1> QED
  BY <1>1, <1>2, <1>3
  DEF RegistrationNext, ClientNext, Register, CreateCustomer, CheckNewUser,
      IssueFirstCode, AnswerRegistration, Stop, ConfirmRegistration,
      ResendRegistrationOtp, ReadUser, CompareCode, RegisterFailedAttempt,
      ReadCodeRow, Reissue, ExpireCode

\* A request that starts leaves the others where they are.
LEMMA BeginElsewhere ==
  ASSUME QInv, VInv, NEW r \in Requests, NEW new \in S!RequestState,
         S!Begin(r, new),
         UNCHANGED <<user, token, challenges>>,
         Enters(req'[r]) => Verified(req'[r].user)
  PROVE  VInv'
<1>1. ASSUME NEW q \in Requests \ {r}
      PROVE  req'[q].pc = req[q].pc /\ req'[q].user = req[q].user
  BY OneMoves DEF S!Begin, QInv
<1>2. ASSUME NEW q \in Requests, Enters(req'[q]) PROVE Verified(req'[q].user)
  BY <1>1, <1>2 DEF VInv, Enters
<1> QED
  BY <1>2 DEF VInv, Verified, Exists, Enters

\* Where a request that starts stands.
LEMMA BeginHere ==
  ASSUME QInv, NEW r \in Requests, NEW new \in S!RequestState,
         new.user \in Users, S!Begin(r, new)
  PROVE  req'[r].pc = new.pc /\ req'[r].user = new.user
BY OneMoves DEF S!Begin, QInv

\* A login, or the answer to a challenge, is of a verified user.
LEMMA LoginEnters ==
  ASSUME QInv, VInv, UNCHANGED user, NEW r \in Requests, NEW u \in Users,
         S!Login(r, u) \/ S!VerifyMfaLogin(r, u)
  PROVE  VInv'
<1>1. PICK op \in {"login", "mfa"} :
        S!Begin(r, [S!IdleRequest EXCEPT !.op = op, !.pc = "issue", !.user = u,
                      !.session.password = account[u].password])
  BY DEF S!Login, S!VerifyMfaLogin
<1> DEFINE new == [S!IdleRequest EXCEPT !.op = op, !.pc = "issue", !.user = u,
                     !.session.password = account[u].password]
<1>2. new \in S!RequestState /\ new.user = u
  <2>1. account[u].password \in Nat
    BY AccountFields DEF QInv
  <2> QED
    BY <2>1 DEF S!IdleRequest, S!RequestState, S!NoSession, S!Session
<1>3. S!Begin(r, new)
  BY <1>1
<1>4. Verified(u) /\ UNCHANGED <<token, challenges>>
  BY DEF S!Login, S!VerifyMfaLogin, VInv, Verified
<1> HIDE DEF new
<1>5. req'[r].user = u
  BY <1>2, <1>3, BeginHere
<1> QED
  BY <1>2, <1>3, <1>4, <1>5, BeginElsewhere

\* A rotation is of the owner of a token.
LEMMA RefreshEnters ==
  ASSUME QInv, VInv, UNCHANGED user, NEW r \in Requests, NEW k \in DOMAIN token,
         S!Refresh(r, k)
  PROVE  VInv'
<1>t. token[k] \in S!TokenRow /\ k \in Nat
  BY TokenIds DEF QInv
<1>1. PICK pc \in {"rotate", "readLive"} : pc = IF S!IsValid(k) THEN "rotate" ELSE "readLive"
  OBVIOUS
<1> DEFINE new == [S!IdleRequest EXCEPT !.op = "refresh", !.user = token[k].owner,
                     !.token = k, !.session = token[k].session, !.pc = pc]
<1>2. new \in S!RequestState /\ new.user = token[k].owner
  BY <1>t DEF S!IdleRequest, S!RequestState, S!TokenRow, S!Revokers
<1>3. S!Begin(r, new)
  BY <1>1 DEF S!Refresh
<1>4. /\ Verified(token[k].owner) /\ token[k].owner \in Users
      /\ UNCHANGED <<token, challenges>>
  BY <1>t DEF S!Refresh, VInv, S!TokenRow
<1> HIDE DEF new
<1>5. req'[r].user = token[k].owner
  BY <1>2, <1>3, <1>4, BeginHere
<1> QED
  BY <1>2, <1>3, <1>4, <1>5, BeginElsewhere

\* The other requests that start do not lead to a token.
LEMMA OthersDoNotEnter ==
  ASSUME QInv, VInv, UNCHANGED user, NEW r \in Requests,
         \/ \E k \in DOMAIN token : S!Logout(r, k)
         \/ \E u \in Users :
              \/ S!ChangePassword(r, u) \/ S!ConfirmPasswordReset(r, u)
              \/ S!SetupTwoFactor(r, u) \/ S!EnableTwoFactor(r, u)
              \/ S!DisableTwoFactor(r, u)
  PROVE  VInv'
<1>1. ASSUME NEW new \in S!RequestState, new.user \in Users,
             new.pc \in {"logout", "readLive", "save"}, S!Begin(r, new),
             UNCHANGED <<token, challenges>>
      PROVE  VInv'
  BY <1>1, BeginHere, BeginElsewhere DEF Enters
<1>2. ASSUME NEW k \in DOMAIN token, S!Logout(r, k) PROVE VInv'
  <2> DEFINE new == [S!IdleRequest EXCEPT !.op = "logout", !.pc = "logout",
                       !.user = token[k].owner, !.token = k]
  <2>1. token[k] \in S!TokenRow /\ k \in Nat
    BY TokenIds DEF QInv
  <2>2. new \in S!RequestState /\ new.pc = "logout" /\ new.user \in Users
    BY <2>1, IdleKnows DEF S!RequestState, S!Revokers, S!TokenRow
  <2>3. S!Begin(r, new) /\ UNCHANGED <<token, challenges>>
    BY <1>2 DEF S!Logout
  <2> HIDE DEF new
  <2> QED
    BY <1>1, <2>2, <2>3
<1>3. ASSUME NEW u \in Users, S!ChangePassword(r, u) PROVE VInv'
  <2> DEFINE new == [S!IdleRequest EXCEPT !.op = "change", !.pc = "readLive",
                       !.user = u]
  <2>2. new \in S!RequestState /\ new.pc = "readLive" /\ new.user \in Users
    BY IdleKnows DEF S!RequestState, S!Revokers
  <2>3. S!Begin(r, new) /\ UNCHANGED <<token, challenges>>
    BY <1>3 DEF S!ChangePassword
  <2> HIDE DEF new
  <2> QED
    BY <1>1, <2>2, <2>3
<1>4. ASSUME NEW u \in Users, S!ConfirmPasswordReset(r, u) PROVE VInv'
  <2> DEFINE new == [S!IdleRequest EXCEPT !.op = "reset", !.pc = "readLive",
                       !.user = u, !.session.password = account[u].password]
  <2>1. account[u].password \in Nat
    BY AccountFields DEF QInv
  <2>2. new \in S!RequestState /\ new.pc = "readLive" /\ new.user \in Users
    BY <2>1
    DEF S!IdleRequest, S!RequestState, S!NoSession, S!Session, S!Revokers
  <2>3. S!Begin(r, new) /\ UNCHANGED <<token, challenges>>
    BY <1>4 DEF S!ConfirmPasswordReset
  <2> HIDE DEF new
  <2> QED
    BY <1>1, <2>2, <2>3
<1>5. ASSUME NEW u \in Users, NEW op \in S!Enrolments, S!BeginEnrolment(r, op, u)
      PROVE  VInv'
  <2> DEFINE new == [S!IdleRequest EXCEPT !.op = op, !.pc = "save", !.user = u,
                       !.secret = account[u].secret]
  <2>1. account[u].secret \in Nat
    BY AccountFields DEF QInv
  <2>2. new \in S!RequestState /\ new.pc = "save" /\ new.user \in Users
    BY <2>1, IdleKnows DEF S!RequestState
  <2>3. S!Begin(r, new) /\ UNCHANGED <<token, challenges>>
    BY <1>5 DEF S!BeginEnrolment
  <2> HIDE DEF new
  <2> QED
    BY <1>1, <2>2, <2>3
<1> QED
  BY <1>2, <1>3, <1>4, <1>5
  DEF S!SetupTwoFactor, S!EnableTwoFactor, S!DisableTwoFactor, S!Enrolments

\* A token that is inserted is of the user of the request, and an old one
\* keeps its owner.
LEMMA TokensOfVerified ==
  ASSUME QInv, VInv, UNCHANGED <<user, challenges>>, NEW r \in Requests,
         \/ S!IssueTokenPair(r) \/ S!Rotate(r)
         \/ S!RevokeOne(r) \/ S!RevokeAllForUser(r)
  PROVE  VInv'
<1>0. /\ Len(token) \in Nat /\ DOMAIN token = 1 .. Len(token)
      /\ token \in Seq(S!TokenRow)
      /\ req[r] \in S!RequestState /\ Knows(req[r]) /\ req[r].session \in S!Session
  BY UnderWay DEF QInv, S!SessionsTypeOK
<1>1. S!End(r)
  BY DEF S!IssueTokenPair, S!Rotate, S!RevokeOne, S!RevokeAllForUser
<1>2. ASSUME NEW q \in Requests, Enters(req'[q]) PROVE Verified(req'[q].user)
  BY <1>1, <1>2, OneMoves, IdleKnows DEF QInv, S!End, VInv, Enters
<1>3. ASSUME NEW ids, token' = S!Revoke(ids)
      PROVE  \A k \in DOMAIN token' : Verified(token'[k].owner)
  BY <1>3, RevokedTokens DEF QInv, VInv, TokensKeep
<1>4. ASSUME NEW t \in Seq(S!TokenRow), NEW session \in S!Session,
             Enters(req[r]), Len(t) = Len(token),
             \A k \in DOMAIN token : t[k].owner = token[k].owner,
             token' = Append(t, [owner |-> req[r].user, status |-> "valid",
                                 session |-> session])
      PROVE  \A k \in DOMAIN token' : Verified(token'[k].owner)
  <2> DEFINE row == [owner |-> req[r].user, status |-> "valid",
                     session |-> session]
  <2>1. Verified(req[r].user) /\ req[r].user \in Users
    BY <1>0, <1>4 DEF VInv, Enters, Knows, Shape
  <2>2. row \in S!TokenRow /\ row.owner = req[r].user
    BY <2>1 DEF S!TokenRow
  <2>3. token' = Append(t, row)
    BY <1>4
  <2> HIDE DEF row
  <2>4. /\ token' \in Seq(S!TokenRow) /\ Len(token') = Len(token) + 1
        /\ token'[Len(token) + 1] = row
        /\ \A k \in 1 .. Len(token) : token'[k] = t[k]
    BY <1>4, <2>2, <2>3, Inserting
  <2>5. DOMAIN token' = 1 .. Len(token) + 1
    BY <2>4, LenProperties
  <2>6. ASSUME NEW k \in DOMAIN token' PROVE Verified(token'[k].owner)
    <3>1. k \in 1 .. Len(token) \/ k = Len(token) + 1
      BY <1>0, <2>5
    <3> QED
      BY <1>0, <1>4, <2>1, <2>2, <2>4, <3>1 DEF VInv
  <2> QED
    BY <2>6
<1>5. \A k \in DOMAIN token' : Verified(token'[k].owner)
  <2>1. CASE S!RevokeOne(r) \/ S!RevokeAllForUser(r)
    BY <1>3, <2>1 DEF S!RevokeOne, S!RevokeAllForUser
  <2>2. CASE S!IssueTokenPair(r)
    <3>1. [req[r].session EXCEPT !.login = Len(token) + 1] \in S!Session
      BY <1>0 DEF S!Session
    <3> QED
      BY <1>0, <1>4, <2>2, <3>1 DEF S!IssueTokenPair, S!Waits, Enters
  <2>3. CASE S!Rotate(r)
    <3>1. PICK session \in S!Session :
            token' = Append(S!Revoke({req[r].token}),
                            [owner |-> req[r].user, status |-> "valid",
                             session |-> session])
      BY <1>0, <2>3 DEF S!Rotate, S!Session
    <3>2. Enters(req[r])
      BY <2>3 DEF S!Rotate, S!Waits, Enters
    <3>3. PICK t : t = S!Revoke({req[r].token})
      OBVIOUS
    <3>4. /\ t \in Seq(S!TokenRow) /\ Len(t) = Len(token)
          /\ \A k \in DOMAIN token : t[k].owner = token[k].owner
      BY <3>3, Revoking DEF QInv
    <3> QED
      BY <1>4, <3>1, <3>2, <3>3, <3>4
  <2> QED
    BY <2>1, <2>2, <2>3
<1> QED
  BY <1>2, <1>5 DEF VInv, Verified, Exists, Enters

\* A new password changes neither who owns a token nor where requests stand.
LEMMA PasswordOfVerified ==
  ASSUME QInv, VInv, UNCHANGED user, NEW r \in Requests, S!ReplacePassword(r)
  PROVE  VInv'
<1> DEFINE new == account[req[r].user].password + 1
           late == {k \in S!LiveTokens(req[r].user) : k > req[r].seen}
           revoked == S!Revoke(req[r].live)
           Issues(q) == /\ req[q].user = req[r].user
                        /\ req[q].pc \in {"issue", "rotate"}
<1>1. /\ token' = [k \in DOMAIN token |->
                     IF k \in late
                     THEN [token[k] EXCEPT !.session.escaped = new]
                     ELSE revoked[k]]
      /\ req' = [q \in Requests |-> IF q = r THEN S!IdleRequest
                   ELSE IF Issues(q)
                   THEN [req[q] EXCEPT !.session.escaped = new]
                   ELSE req[q]]
      /\ UNCHANGED challenges
  BY DEF S!ReplacePassword
<1>2. /\ \A k \in DOMAIN token : token[k] \in S!TokenRow
      /\ \A k \in DOMAIN token : revoked[k].owner = token[k].owner
  BY TokenIds, Revoking DEF QInv
<1>3. \A q \in Requests : req[q] \in S!RequestState
  BY UnderWay
<1> HIDE DEF new, late, revoked
<1>4. ASSUME NEW k \in DOMAIN token'
      PROVE  k \in DOMAIN token /\ token'[k].owner = token[k].owner
  BY <1>1, <1>2 DEF S!TokenRow
<1>5. ASSUME NEW q \in Requests, Enters(req'[q]) PROVE Verified(req'[q].user)
  <2>1. q # r
    BY <1>1, <1>5, IdleKnows DEF Enters
  <2>2. req'[q].pc = req[q].pc /\ req'[q].user = req[q].user
    BY <1>1, <1>3, <2>1 DEF S!RequestState
  <2> QED
    BY <1>5, <2>2 DEF VInv, Enters
<1> QED
  BY <1>1, <1>4, <1>5 DEF VInv, Verified, Exists, Enters

\* VInv is inductive.
LEMMA VInvNext ==
  ASSUME RInv, QInv, VInv, [IdentityNext]_identityVars
  PROVE  VInv'
<1>t. /\ \A r \in Requests : Knows(req[r])
      /\ \A k \in DOMAIN token : token[k].owner \in Users
      /\ challenges \subseteq Users
  BY TokenIds DEF QInv, S!SessionsTypeOK, S!TokenRow
<1>1. CASE SignUp
  <2>1. /\ UNCHANGED <<token, challenges, req>>
        /\ \A u \in Users : /\ Verified(u) => Verified(u)'
                            /\ Verified(u)' => Exists(u)'
    BY <1>1, VerifiedStays DEF SignUp, sessions
  <2>2. \A r \in Requests : Enters(req[r]) => req[r].user \in Users
    BY <1>t DEF Knows, Shape, Enters
  <2> QED
    BY <1>t, <2>1, <2>2 DEF VInv, Verified, Enters
<1>2. ASSUME NEW r \in Requests, S!RequestNext(r), UNCHANGED user PROVE VInv'
  <2>1. CASE \/ S!IssueTokenPair(r) \/ S!Rotate(r)
             \/ S!RevokeOne(r) \/ S!RevokeAllForUser(r)
    <3>1. UNCHANGED challenges
      BY <2>1 DEF S!IssueTokenPair, S!Rotate, S!RevokeOne, S!RevokeAllForUser
    <3> QED
      BY <1>2, <2>1, <3>1, TokensOfVerified
  <2>2. CASE \/ S!ReadLiveTokens(r) \/ S!StopRequest(r)
             \/ S!SaveSecret(r) \/ S!SaveEnabled(r) \/ S!SaveDisabled(r)
    <3>1. UNCHANGED <<user, token, challenges>>
      BY <1>2, <2>2 DEF S!ReadLiveTokens, S!StopRequest, S!SaveSecret,
                        S!SaveEnabled, S!SaveDisabled
    <3>2. ASSUME NEW q \in Requests, Enters(req'[q])
          PROVE  Verified(req'[q].user)
      <4>1. CASE S!End(r)
        BY <3>2, <4>1, OneMoves, IdleKnows DEF QInv, S!End, VInv, Enters
      <4>2. CASE S!ReadLiveTokens(r)
        <5>1. req \in [Requests -> S!RequestState]
          BY DEF QInv, S!SessionsTypeOK
        <5>2. req'[r].pc = "revoke" /\ \A p \in Requests \ {r} : req'[p] = req[p]
          BY <4>2, <5>1 DEF S!ReadLiveTokens, S!RequestState
        <5> QED
          BY <3>2, <5>2 DEF VInv, Enters
      <4> QED
        BY <2>2, <4>1, <4>2 DEF S!StopRequest, S!SaveSecret, S!SaveEnabled,
                                S!SaveDisabled
    <3> QED
      BY <3>1, <3>2 DEF VInv, Verified, Exists, Enters
  <2> QED
    BY <1>2, <2>1, <2>2, LoginEnters, RefreshEnters, OthersDoNotEnter,
       PasswordOfVerified
    DEF S!RequestNext
<1>3. ASSUME NEW u \in Users, S!LoginChallenge(u), UNCHANGED user PROVE VInv'
  BY <1>3 DEF S!LoginChallenge, VInv, Verified, Exists, Enters
<1>4. ASSUME NEW k \in DOMAIN token, S!ExpireRefreshToken(k), UNCHANGED user
      PROVE  VInv'
  <2>1. /\ token' = [token EXCEPT ![k].status = "expired"]
        /\ UNCHANGED <<challenges, req>> /\ token[k] \in S!TokenRow
    BY <1>4, TokenIds DEF S!ExpireRefreshToken, QInv
  <2>2. \A j \in DOMAIN token' : j \in DOMAIN token /\ token'[j].owner = token[j].owner
    BY <2>1 DEF S!TokenRow
  <2> QED
    BY <1>4, <2>1, <2>2 DEF VInv, Verified, Exists, Enters
<1>5. CASE UNCHANGED identityVars
  BY <1>5 DEF identityVars, registrationVars, sessions, VInv, Verified, Exists,
              Enters
<1> QED
  BY <1>1, <1>2, <1>3, <1>4, <1>5
  DEF IdentityNext, UseSession, registrationVars, S!SessionsNext

\* Signing up and sessions together.
IdentityInv == RInv /\ QInv /\ VInv

\* Signing up and sessions interleave freely without disturbing each other.
THEOREM IdentityIsSound == IdentitySpec => []IdentityInv
<1>1. IdentityInit => IdentityInv
  <2>1. IdentityInit => token = << >> /\ challenges = {}
                        /\ \A r \in Requests : req[r].pc = "idle"
    BY IdleKnows DEF IdentityInit, S!SessionsInit
  <2>2. IdentityInit => VInv
    BY <2>1 DEF IdentityInit, RegistrationInit, NoRow, VInv, Verified, Enters
  <2> QED
    BY <2>2, RInvInit, QInvInit DEF IdentityInit, IdentityInv
<1>2. IdentityInv /\ [IdentityNext]_identityVars => IdentityInv'
  <2> SUFFICES ASSUME IdentityInv, [IdentityNext]_identityVars PROVE IdentityInv'
    OBVIOUS
  <2>1. [RegistrationNext]_registrationVars
    BY DEF IdentityNext, SignUp, UseSession, identityVars
  <2> QED
    BY <2>1, RInvNext, QInvNext, VInvNext DEF IdentityInv
<1> QED
  BY <1>1, <1>2, PTL DEF IdentitySpec

\* Rows and requests keep their shape.
THEOREM IdentityTypeCorrect == IdentitySpec => []IdentityTypeOK
<1>1. IdentityInv => IdentityTypeOK
  BY DEF IdentityInv, RInv, QInv, IdentityTypeOK
<1> QED
  BY <1>1, IdentityIsSound, PTL

\* Whoever holds a refresh token, or is about to, has a verified e-mail: no
\* interleaving of signing up, resets and challenges is a way round.
THEOREM VerificationComesFirst == IdentitySpec => []NoSessionBeforeVerification
<1>1. IdentityInv => NoSessionBeforeVerification
  BY DEF IdentityInv, VInv, Verified, Enters, NoSessionBeforeVerification, S!Waits
<1> QED
  BY <1>1, IdentityIsSound, PTL
=============================================================================
