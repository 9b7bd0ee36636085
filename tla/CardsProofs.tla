---------------------------- MODULE CardsProofs ----------------------------
(* Theorems about Cards, for every value of its constants. *)
EXTENDS Cards, SequenceTheorems, TLAPS

\* A payment under way holds its card, active and of the account it charges.
HoldsCard(r) ==
  LET c == call[r].card IN
  /\ c \in CardIds /\ cardLock[c] = r
  /\ card[c].status = "ACTIVE" /\ ~card[c].deleted
  /\ card[c].account = call[r].account

\* A movement about to commit holds its account, as it read it.
HoldsAccount(r) ==
  LET a == call[r].account IN
  /\ accountLock[a] = r
  /\ status[a] = "ACTIVE" /\ balance[a] = call[r].view
  /\ call[r].op = "pay" => call[r].view >= call[r].amount

\* What a session knows of the rows it works on.
Knows(r) ==
  LET me == call[r] IN
  /\ On(r, "lockCard") => me.op = "pay" /\ me.card \in CardIds
  /\ me.pc \in {"lockAccount", "commit"} =>
       /\ me.op \in {"pay", "deposit"} /\ me.account \in AccountIds
       /\ me.op = "deposit" => me.card = NoCard
       /\ me.op = "pay" => HoldsCard(r)
  /\ On(r, "commit") => HoldsAccount(r)
  /\ On(r, "write") =>
       /\ me.op \in {"issue", "setStatus"} => me.account \in AccountIds
       /\ me.op \in {"block", "delete"} => me.card \in CardIds

CardsHaveAccounts ==
  \A c \in CardIds : card[c].status = "ACTIVE" => card[c].account \in AccountIds

CInv ==
  /\ CardsTypeOK
  /\ CardsHaveAccounts
  /\ \A r \in Calls : Knows(r)

\* An idle session is a well-formed one.
LEMMA IdleCallType == IdleCall \in CallState /\ IdleCall.pc = "idle"
BY DEF IdleCall, CallState

\* The empty ledger and the idle sessions satisfy the invariant.
LEMMA CInvInit == CardsInit => CInv
<1> SUFFICES ASSUME CardsInit PROVE CInv
  OBVIOUS
<1>1. CardsTypeOK
  BY IdleCallType, CardsAssumption
  DEF CardsInit, CardsTypeOK, CardRow
<1>2. \A r \in Calls : call[r].pc = "idle"
  BY IdleCallType DEF CardsInit
<1> QED
  BY <1>1, <1>2 DEF CardsInit, CInv, CardsHaveAccounts, Knows, On

\* A step of one session leaves alone the rows that another one holds.
LEMMA OneSessionMoves ==
  ASSUME CInv, NEW r \in Calls, NEW new \in CallState,
         call' = [call EXCEPT ![r] = new],
         \A c \in CardIds : cardLock[c] \in Calls \ {r} =>
           /\ cardLock'[c] = cardLock[c]
           /\ card[c].status = "ACTIVE" => card'[c] = card[c],
         \A a \in AccountIds : accountLock[a] \in Calls \ {r} =>
           /\ accountLock'[a] = accountLock[a]
           /\ status'[a] = status[a] /\ balance'[a] = balance[a],
         call' \in [Calls -> CallState] => CardsTypeOK',
         CardsHaveAccounts', Knows(r)'
  PROVE  CInv'
<1>1. /\ call' \in [Calls -> CallState]
      /\ \A q \in Calls \ {r} : call'[q] = call[q]
  BY DEF CInv, CardsTypeOK
<1>2. ASSUME NEW q \in Calls \ {r} PROVE Knows(q)'
  BY <1>1, <1>2 DEF CInv, Knows, On, HoldsCard, HoldsAccount
<1> QED
  BY <1>1, <1>2 DEF CInv

\* A session moves on and writes nothing but its own state.
LEMMA OnlyTheSessionMoves ==
  ASSUME CInv, NEW r \in Calls, NEW new \in CallState,
         call' = [call EXCEPT ![r] = new],
         UNCHANGED <<card, balance, status, gone, entries, cardLock, accountLock>>,
         Knows(r)'
  PROVE  CInv'
<1>1. CardsHaveAccounts' /\ (call' \in [Calls -> CallState] => CardsTypeOK')
  BY DEF CInv, CardsHaveAccounts, CardsTypeOK
<1> QED
  BY <1>1, OneSessionMoves

\* A session gives back its locks and leaves.
LEMMA RefuseStep ==
  ASSUME CInv, NEW r \in Calls, Refuse(r)
  PROVE  CInv'
<1>1. /\ call' = [call EXCEPT ![r] = IdleCall] /\ Unlock(r)
      /\ UNCHANGED <<card, balance, status, gone, entries>>
  BY DEF Refuse, Leave
<1>2. call' \in [Calls -> CallState] => CardsTypeOK'
  BY <1>1 DEF CInv, CardsTypeOK, Unlock
<1>3. CardsHaveAccounts'
  BY <1>1 DEF CInv, CardsHaveAccounts
<1>4. Knows(r)'
  BY <1>1, IdleCallType DEF CInv, CardsTypeOK, Knows, On
<1> QED
  BY <1>1, <1>2, <1>3, <1>4, IdleCallType, OneSessionMoves DEF Unlock

\* A payment begins.
LEMMA PayWithCardStep ==
  ASSUME CInv, NEW r \in Calls, NEW c \in CardIds, NEW amount \in Prices,
         PayWithCard(r, c, amount)
  PROVE  CInv'
<1> DEFINE new == [IdleCall EXCEPT !.op = "pay", !.pc = "lockCard", !.card = c,
                     !.amount = amount]
<1>1. /\ new \in CallState /\ new.pc = "lockCard" /\ new.op = "pay"
      /\ new.card = c
  BY CardsAssumption DEF IdleCall, CallState
<1>2. /\ call' = [call EXCEPT ![r] = new]
      /\ UNCHANGED <<card, balance, status, gone, entries, cardLock, accountLock>>
  BY DEF PayWithCard, BeginMove
<1> HIDE DEF new
<1>3. Knows(r)'
  BY <1>1, <1>2 DEF CInv, CardsTypeOK, Knows, On
<1> QED
  BY <1>1, <1>2, <1>3, OnlyTheSessionMoves

\* A deposit begins.
LEMMA DepositStep ==
  ASSUME CInv, NEW r \in Calls, NEW a \in AccountIds, NEW amount \in Prices,
         Deposit(r, a, amount)
  PROVE  CInv'
<1> DEFINE new == [IdleCall EXCEPT !.op = "deposit", !.pc = "lockAccount",
                     !.account = a, !.amount = amount]
<1>1. /\ new \in CallState /\ new.pc = "lockAccount" /\ new.op = "deposit"
      /\ new.account = a /\ new.card = NoCard
  BY CardsAssumption DEF IdleCall, CallState
<1>2. /\ call' = [call EXCEPT ![r] = new]
      /\ UNCHANGED <<card, balance, status, gone, entries, cardLock, accountLock>>
  BY DEF Deposit, BeginMove
<1> HIDE DEF new
<1>3. Knows(r)'
  BY <1>1, <1>2 DEF CInv, CardsTypeOK, Knows, On
<1> QED
  BY <1>1, <1>2, <1>3, OnlyTheSessionMoves

\* A handler that writes later begins.
LEMMA BeginWriteStep ==
  ASSUME CInv, NEW r \in Calls, NEW new \in CallState, BeginWrite(r, new),
         new.op \in {"issue", "setStatus"} => new.account \in AccountIds,
         new.op \in {"block", "delete"} => new.card \in CardIds
  PROVE  CInv'
<1> DEFINE moved == [new EXCEPT !.pc = "write"]
<1>1. /\ moved \in CallState /\ moved.pc = "write" /\ moved.op = new.op
      /\ moved.account = new.account /\ moved.card = new.card
  BY DEF CallState
<1>2. /\ call' = [call EXCEPT ![r] = moved]
      /\ UNCHANGED <<card, balance, status, gone, entries, cardLock, accountLock>>
  BY DEF BeginWrite
<1> HIDE DEF moved
<1>3. Knows(r)'
  BY <1>1, <1>2 DEF CInv, CardsTypeOK, Knows, On
<1> QED
  BY <1>1, <1>2, <1>3, OnlyTheSessionMoves

\* The payment takes its card, active and visible, or is refused.
LEMMA LockCardStep ==
  ASSUME CInv, NEW r \in Calls, LockCard(r)
  PROVE  CInv'
<1> DEFINE c == call[r].card
           new == [call[r] EXCEPT !.pc = "lockAccount",
                                  !.account = card[c].account]
<1>1. CASE Refuse(r)
  BY <1>1, RefuseStep
<1>2. CASE ~Refuse(r)
  <2>1. /\ c \in CardIds /\ call[r].op = "pay" /\ call[r] \in CallState
        /\ cardLock[c] = Free
    BY DEF CInv, Knows, LockCard, CardsTypeOK
  <2>2. /\ card[c].status = "ACTIVE" /\ ~card[c].deleted
        /\ cardLock' = [cardLock EXCEPT ![c] = r]
        /\ UNCHANGED <<card, balance, status, gone, entries, accountLock>>
    BY <1>2 DEF LockCard, Visible
  <2>3. card[c].account \in AccountIds
    BY <2>1, <2>2 DEF CInv, CardsHaveAccounts
  <2>4. /\ new \in CallState /\ new.pc = "lockAccount" /\ new.op = "pay"
        /\ new.card = c /\ new.account = card[c].account
    BY <2>1, <2>3 DEF CallState
  <2>5. call' = [call EXCEPT ![r] = new]
    BY <1>2, <2>1 DEF LockCard, CInv, CardsTypeOK, CallState
  <2> HIDE DEF new, c
  <2>6. Knows(r)'
    BY <2>1, <2>2, <2>3, <2>4, <2>5
    DEF CInv, CardsTypeOK, Knows, On, HoldsCard
  <2>7. /\ CardsHaveAccounts'
        /\ call' \in [Calls -> CallState] => CardsTypeOK'
    BY <2>1, <2>2 DEF CInv, CardsTypeOK, CardsHaveAccounts
  <2>8. \A d \in CardIds : cardLock[d] \in Calls \ {r} =>
          cardLock'[d] = cardLock[d]
    BY <2>1, <2>2, CardsAssumption DEF CInv, CardsTypeOK
  <2> QED
    BY <2>2, <2>4, <2>5, <2>6, <2>7, <2>8, OneSessionMoves
<1> QED
  BY <1>1, <1>2

\* The movement takes its account, active and with the amount, or is refused.
LEMMA LockAccountStep ==
  ASSUME CInv, NEW r \in Calls, LockAccount(r)
  PROVE  CInv'
<1> DEFINE a == call[r].account
           new == [call[r] EXCEPT !.pc = "commit", !.view = balance[a]]
<1>1. CASE Refuse(r)
  BY <1>1, RefuseStep
<1>2. CASE ~Refuse(r)
  <2>1. /\ a \in AccountIds /\ call[r] \in CallState /\ balance[a] \in Nat
        /\ call[r].op \in {"pay", "deposit"}
        /\ call[r].op = "deposit" => call[r].card = NoCard
        /\ call[r].op = "pay" => HoldsCard(r)
        /\ accountLock[a] = Free
    BY DEF CInv, Knows, On, LockAccount, CardsTypeOK
  <2>2. /\ status[a] = "ACTIVE"
        /\ call[r].op = "pay" => balance[a] >= call[r].amount
        /\ accountLock' = [accountLock EXCEPT ![a] = r]
        /\ UNCHANGED <<card, balance, status, gone, entries, cardLock>>
    BY <1>2 DEF LockAccount
  <2>3. /\ new \in CallState /\ new.pc = "commit" /\ new.op = call[r].op
        /\ new.card = call[r].card /\ new.account = a
        /\ new.view = balance[a] /\ new.amount = call[r].amount
    BY <2>1 DEF CallState
  <2>4. call' = [call EXCEPT ![r] = new]
    BY <1>2, <2>1 DEF LockAccount, CInv, CardsTypeOK, CallState
  <2> HIDE DEF new, a
  <2>5. call'[r] = new
    BY <2>4 DEF CInv, CardsTypeOK
  <2>6. Knows(r)'
    <3>1. HoldsAccount(r)'
      BY <2>1, <2>2, <2>3, <2>5 DEF HoldsAccount, CInv, CardsTypeOK
    <3>2. call[r].op = "pay" => HoldsCard(r)'
      BY <2>1, <2>2, <2>3, <2>5 DEF HoldsCard, a
    <3> QED
      BY <2>1, <2>3, <2>5, <3>1, <3>2 DEF Knows, On
  <2>7. /\ CardsHaveAccounts'
        /\ call' \in [Calls -> CallState] => CardsTypeOK'
    BY <2>1, <2>2 DEF CInv, CardsTypeOK, CardsHaveAccounts
  <2>8. \A b \in AccountIds : accountLock[b] \in Calls \ {r} =>
          accountLock'[b] = accountLock[b]
    BY <2>1, <2>2, CardsAssumption DEF CInv, CardsTypeOK
  <2> QED
    BY <2>2, <2>3, <2>4, <2>6, <2>7, <2>8, OneSessionMoves
<1> QED
  BY <1>1, <1>2

\* What a commit writes: the entry, and the balance it was computed from.
LEMMA WhatACommitWrites ==
  ASSUME CInv, NEW r \in Calls, CommitMove(r)
  PROVE  \E e \in EntryRow :
           /\ e.account = call[r].account /\ e.card = call[r].card
           /\ accountLock[e.account] = r
           /\ status[e.account] = "ACTIVE"
           /\ e.after - e.change = balance[e.account]
           /\ entries' = Append(entries, e)
           /\ balance' = [balance EXCEPT ![e.account] = e.after]
<1> DEFINE me == call[r]
           change == IF me.op = "pay" THEN -me.amount ELSE me.amount
           e == [account |-> me.account, card |-> me.card,
                 change |-> change, after |-> me.view + change]
<1>1. /\ me \in CallState /\ me.account \in AccountIds
      /\ me.op \in {"pay", "deposit"} /\ HoldsAccount(r)
  BY DEF CommitMove, CInv, CardsTypeOK, Knows, On
<1>2. /\ change \in Int /\ me.view \in Nat /\ me.view + change \in Nat
      /\ (me.view + change) - change = me.view
      /\ me.card \in CardIds \cup {NoCard}
  BY <1>1 DEF HoldsAccount, CallState
<1>3. /\ entries' = Append(entries, e)
      /\ balance' = [balance EXCEPT ![me.account] = me.view + change]
  BY DEF CommitMove
<1> HIDE DEF change
<1>4. e \in EntryRow
  BY <1>1, <1>2 DEF EntryRow
<1> QED
  BY <1>1, <1>2, <1>3, <1>4 DEF HoldsAccount

\* The commit of a movement.
LEMMA CommitMoveStep ==
  ASSUME CInv, NEW r \in Calls, CommitMove(r)
  PROVE  CInv'
<1>1. PICK e \in EntryRow :
        /\ accountLock[e.account] = r
        /\ entries' = Append(entries, e)
        /\ balance' = [balance EXCEPT ![e.account] = e.after]
  BY WhatACommitWrites
<1>2. /\ call' = [call EXCEPT ![r] = IdleCall] /\ Unlock(r)
      /\ UNCHANGED <<card, status, gone>>
  BY DEF CommitMove, Leave
<1>3. entries' \in Seq(EntryRow) /\ balance' \in [AccountIds -> Nat]
  BY <1>1 DEF CInv, CardsTypeOK, EntryRow
<1>4. /\ CardsHaveAccounts'
      /\ call' \in [Calls -> CallState] => CardsTypeOK'
  BY <1>2, <1>3 DEF CInv, CardsTypeOK, CardsHaveAccounts, Unlock
<1>5. Knows(r)'
  BY <1>2, IdleCallType DEF CInv, CardsTypeOK, Knows, On
<1>6. \A a \in AccountIds : accountLock[a] \in Calls \ {r} =>
        accountLock'[a] = accountLock[a] /\ balance'[a] = balance[a]
  BY <1>1, <1>2 DEF CInv, CardsTypeOK, Unlock
<1>7. \A c \in CardIds : cardLock[c] \in Calls \ {r} =>
        cardLock'[c] = cardLock[c]
  BY <1>2 DEF Unlock
<1> QED
  BY <1>2, <1>4, <1>5, <1>6, <1>7, IdleCallType, OneSessionMoves

\* A new card row.
LEMMA InsertCardStep ==
  ASSUME CInv, NEW r \in Calls, InsertCard(r)
  PROVE  CInv'
<1> DEFINE row == [status |-> "ACTIVE", account |-> call[r].account,
                   deleted |-> FALSE]
<1>1. PICK c \in CardIds : /\ card[c].status = "NONE"
                           /\ card' = [card EXCEPT ![c] = row]
  BY DEF InsertCard
<1>2. call[r].account \in AccountIds
  BY DEF InsertCard, CInv, Knows
<1>3. row \in CardRow /\ row.account = call[r].account
  BY <1>2 DEF CardRow
<1>4. /\ call' = [call EXCEPT ![r] = IdleCall]
      /\ UNCHANGED <<balance, status, gone, entries, cardLock, accountLock>>
  BY DEF InsertCard, Leave
<1> HIDE DEF row
<1>5. /\ CardsHaveAccounts'
      /\ call' \in [Calls -> CallState] => CardsTypeOK'
  BY <1>1, <1>2, <1>3, <1>4 DEF CInv, CardsTypeOK, CardsHaveAccounts
<1>6. Knows(r)'
  BY <1>4, IdleCallType DEF CInv, CardsTypeOK, Knows, On
<1>7. \A d \in CardIds : card[d].status = "ACTIVE" => card'[d] = card[d]
  BY <1>1 DEF CInv, CardsTypeOK
<1> QED
  BY <1>4, <1>5, <1>6, <1>7, IdleCallType, OneSessionMoves

\* Blocking or removing a card that no payment holds.
LEMMA SaveCardStep ==
  ASSUME CInv, NEW r \in Calls, SaveCard(r)
  PROVE  CInv'
<1> DEFINE c == call[r].card
           row == IF call[r].op = "block"
                  THEN [card[c] EXCEPT !.status = "BLOCKED"]
                  ELSE [card[c] EXCEPT !.deleted = TRUE]
<1>1. c \in CardIds /\ cardLock[c] = Free /\ card[c] \in CardRow
  BY DEF SaveCard, CInv, Knows, CardsTypeOK
<1>2. /\ row \in CardRow /\ row.account = card[c].account
      /\ row.status = "ACTIVE" => card[c].status = "ACTIVE"
  BY <1>1 DEF CardRow
<1>3. /\ card' = [card EXCEPT ![c] = row]
      /\ call' = [call EXCEPT ![r] = IdleCall]
      /\ UNCHANGED <<balance, status, gone, entries, cardLock, accountLock>>
  BY DEF SaveCard, Leave, CInv, CardsTypeOK
<1> HIDE DEF row
<1>4. /\ CardsHaveAccounts'
      /\ call' \in [Calls -> CallState] => CardsTypeOK'
  BY <1>1, <1>2, <1>3 DEF CInv, CardsTypeOK, CardsHaveAccounts, CardRow
<1>5. Knows(r)'
  BY <1>3, IdleCallType DEF CInv, CardsTypeOK, Knows, On
<1>6. \A d \in CardIds : cardLock[d] \in Calls \ {r} => card'[d] = card[d]
  BY <1>1, <1>3, CardsAssumption DEF CInv, CardsTypeOK
<1> QED
  BY <1>3, <1>4, <1>5, <1>6, IdleCallType, OneSessionMoves

\* Changing the status of an account that no movement holds.
LEMMA SaveStatusStep ==
  ASSUME CInv, NEW r \in Calls, SaveStatus(r)
  PROVE  CInv'
<1> DEFINE a == call[r].account
<1>1. /\ a \in AccountIds /\ accountLock[a] = Free
      /\ call[r].status \in {"ACTIVE", "BLOCKED", "CLOSED"}
  BY DEF SaveStatus, CInv, Knows, CardsTypeOK, CallState
<1>2. /\ status' = [status EXCEPT ![a] = call[r].status]
      /\ call' = [call EXCEPT ![r] = IdleCall]
      /\ UNCHANGED <<card, balance, gone, entries, cardLock, accountLock>>
  BY DEF SaveStatus, Leave
<1>3. /\ CardsHaveAccounts'
      /\ call' \in [Calls -> CallState] => CardsTypeOK'
  BY <1>1, <1>2 DEF CInv, CardsTypeOK, CardsHaveAccounts
<1>4. Knows(r)'
  BY <1>2, IdleCallType DEF CInv, CardsTypeOK, Knows, On
<1>5. \A b \in AccountIds : accountLock[b] \in Calls \ {r} =>
        status'[b] = status[b]
  BY <1>1, <1>2, CardsAssumption DEF CInv, CardsTypeOK
<1> QED
  BY <1>2, <1>3, <1>4, <1>5, IdleCallType, OneSessionMoves

\* The handlers that only read begin with a well-formed state.
LEMMA WritersBegin ==
  ASSUME CInv, NEW r \in Calls,
         \/ \E c \in CardIds :
              BlockOwnCard(r, c) \/ BlockCard(r, c) \/ DeleteCard(r, c)
         \/ \E a \in AccountIds :
              \/ CreateCard(r, a)
              \/ \E s \in {"ACTIVE", "BLOCKED", "CLOSED"} :
                   UpdateAccountStatus(r, a, s)
  PROVE  CInv'
<1>1. ASSUME NEW c \in CardIds,
             BlockOwnCard(r, c) \/ BlockCard(r, c) \/ DeleteCard(r, c)
      PROVE  CInv'
  <2>1. PICK op \in {"block", "delete"} :
          BeginWrite(r, [IdleCall EXCEPT !.op = op, !.card = c])
    BY <1>1 DEF BlockOwnCard, BlockCard, DeleteCard
  <2> DEFINE new == [IdleCall EXCEPT !.op = op, !.card = c]
  <2>2. new \in CallState /\ new.op = op /\ new.card = c
    BY DEF IdleCall, CallState
  <2>3. BeginWrite(r, new)
    BY <2>1
  <2> HIDE DEF new
  <2> QED
    BY <2>2, <2>3, BeginWriteStep
<1>2. ASSUME NEW a \in AccountIds, CreateCard(r, a) PROVE CInv'
  <2> DEFINE new == [IdleCall EXCEPT !.op = "issue", !.account = a]
  <2>1. new \in CallState /\ new.op = "issue" /\ new.account = a
    BY DEF IdleCall, CallState
  <2>2. BeginWrite(r, new)
    BY <1>2 DEF CreateCard
  <2> HIDE DEF new
  <2> QED
    BY <2>1, <2>2, BeginWriteStep
<1>3. ASSUME NEW a \in AccountIds, NEW s \in {"ACTIVE", "BLOCKED", "CLOSED"},
             UpdateAccountStatus(r, a, s)
      PROVE  CInv'
  <2> DEFINE new == [IdleCall EXCEPT !.op = "setStatus", !.account = a,
                       !.status = s]
  <2>1. new \in CallState /\ new.op = "setStatus" /\ new.account = a
    BY DEF IdleCall, CallState
  <2>2. BeginWrite(r, new)
    BY <1>3 DEF UpdateAccountStatus
  <2> HIDE DEF new
  <2> QED
    BY <2>1, <2>2, BeginWriteStep
<1> QED
  BY <1>1, <1>2, <1>3

\* CInv is inductive.
LEMMA CInvNext == CInv /\ [CardsNext]_cardVars => CInv'
<1> SUFFICES ASSUME CInv, [CardsNext]_cardVars PROVE CInv'
  OBVIOUS
<1>1. ASSUME NEW r \in Calls, CallNext(r) PROVE CInv'
  <2>1. ASSUME NEW amount \in Prices, NEW c \in CardIds,
               PayWithCard(r, c, amount)
        PROVE  CInv'
    BY <2>1, PayWithCardStep
  <2>2. ASSUME NEW amount \in Prices, NEW a \in AccountIds,
               Deposit(r, a, amount)
        PROVE  CInv'
    BY <2>2, DepositStep
  <2>3. CASE MoveStep(r)
    BY <2>3, LockCardStep, LockAccountStep, CommitMoveStep DEF MoveStep
  <2>4. CASE WriteStep(r)
    BY <2>4, InsertCardStep, SaveCardStep, SaveStatusStep DEF WriteStep
  <2>5. CASE Crash(r)
    BY <2>5, RefuseStep DEF Crash
  <2> QED
    BY <1>1, <2>1, <2>2, <2>3, <2>4, <2>5, WritersBegin DEF CallNext
<1>2. ASSUME NEW u \in Customers, DeleteCustomer(u) \/ RestoreCustomer(u)
      PROVE  CInv'
  BY <1>2
  DEF DeleteCustomer, RestoreCustomer, CInv, CardsTypeOK, CardsHaveAccounts,
      Knows, On, HoldsCard, HoldsAccount
<1>3. CASE UNCHANGED cardVars
  BY <1>3
  DEF cardVars, CInv, CardsTypeOK, CardsHaveAccounts, Knows, On, HoldsCard,
      HoldsAccount
<1> QED
  BY <1>1, <1>2, <1>3 DEF CardsNext

\* Whoever is about to write holds the rows it decided on, as it read them.
THEOREM PaymentsHoldTheirRows == CardsSpec => []CInv
BY CInvInit, CInvNext, PTL DEF CardsSpec

\* Rows and sessions keep their shape, for any number of cards, accounts and
\* sessions: in particular no card payment overdraws its account.
THEOREM CardsTypeCorrect == CardsSpec => []CardsTypeOK
<1>1. CInv => CardsTypeOK
  BY DEF CInv
<1> QED
  BY <1>1, PaymentsHoldTheirRows, PTL

-----------------------------------------------------------------------------

\* Only the commit of a movement writes a balance or the ledger.
LEMMA OnlyCommitsWrite ==
  ASSUME CInv, [CardsNext]_cardVars
  PROVE  \/ UNCHANGED <<balance, entries>>
         \/ \E r \in Calls : CommitMove(r)
<1>1. ASSUME NEW r \in Calls, MoveStep(r)
      PROVE  CommitMove(r) \/ UNCHANGED <<balance, entries>>
  BY <1>1 DEF MoveStep, LockCard, LockAccount, Refuse
<1>2. ASSUME NEW r \in Calls, WriteStep(r) \/ Crash(r)
      PROVE  UNCHANGED <<balance, entries>>
  BY <1>2 DEF WriteStep, InsertCard, SaveCard, SaveStatus, Crash, Refuse
<1>3. ASSUME NEW r \in Calls, CallNext(r),
             ~MoveStep(r), ~WriteStep(r), ~Crash(r)
      PROVE  UNCHANGED <<balance, entries>>
  BY <1>3
  DEF CallNext, PayWithCard, Deposit, BeginMove, BlockOwnCard, BlockCard,
      DeleteCard, CreateCard, UpdateAccountStatus, BeginWrite
<1>4. ASSUME NEW u \in Customers, DeleteCustomer(u) \/ RestoreCustomer(u)
      PROVE  UNCHANGED <<balance, entries>>
  BY <1>4 DEF DeleteCustomer, RestoreCustomer
<1> QED
  BY <1>1, <1>2, <1>3, <1>4 DEF CardsNext, cardVars

\* What Append does to the ledger.
LEMMA OneMoreEntry ==
  ASSUME CInv, NEW e \in EntryRow, entries' = Append(entries, e)
  PROVE  /\ Len(entries) \in Nat /\ Len(entries') = Len(entries) + 1
         /\ DOMAIN entries = 1 .. Len(entries)
         /\ DOMAIN entries' = 1 .. Len(entries) + 1
         /\ \A i \in 1 .. Len(entries) : entries'[i] = entries[i]
         /\ entries'[Len(entries) + 1] = e
BY DEF CInv, CardsTypeOK

\* A charge meets its card and its account as the payment read them.
LEMMA ChargesNeedAnActiveCardStep ==
  ASSUME CInv, [CardsNext]_cardVars,
         NEW i \in DOMAIN entries' \ DOMAIN entries
  PROVE  LET e == entries'[i] IN
         /\ status[e.account] = "ACTIVE"
         /\ e.card # NoCard => /\ card[e.card].status = "ACTIVE"
                               /\ ~card[e.card].deleted
                               /\ card[e.card].account = e.account
<1>1. PICK r \in Calls : CommitMove(r)
  BY OnlyCommitsWrite
<1>2. PICK e \in EntryRow :
        /\ e.account = call[r].account /\ e.card = call[r].card
        /\ status[e.account] = "ACTIVE"
        /\ entries' = Append(entries, e)
  BY <1>1, WhatACommitWrites
<1>3. entries'[i] = e
  BY <1>2, OneMoreEntry
<1>4. e.card # NoCard => HoldsCard(r)
  BY <1>1, <1>2 DEF CInv, Knows, CommitMove, On
<1> QED
  BY <1>2, <1>3, <1>4 DEF HoldsCard

\* No card is charged once its blocking or removal was committed, nor an
\* account that is not active, for any cards, accounts and sessions.
THEOREM BlockedCardsAreNotCharged == CardsSpec => ChargesNeedAnActiveCard
<1>1. CInv /\ [CardsNext]_cardVars =>
        [\A i \in DOMAIN entries' \ DOMAIN entries :
           LET e == entries'[i] IN
           /\ status[e.account] = "ACTIVE"
           /\ e.card # NoCard => /\ card[e.card].status = "ACTIVE"
                                 /\ ~card[e.card].deleted
                                 /\ card[e.card].account = e.account]_cardVars
  BY ChargesNeedAnActiveCardStep
<1> QED
  BY <1>1, PaymentsHoldTheirRows, PTL DEF CardsSpec, ChargesNeedAnActiveCard

\* What an account had before a position does not depend on later entries.
LEMMA StoodStays ==
  ASSUME CInv, NEW e \in EntryRow, entries' = Append(entries, e),
         NEW a \in AccountIds, NEW i \in 1 .. Len(entries) + 1, NEW x,
         Stood(a, i, x)
  PROVE  Stood(a, i, x)'
<1>1. {j \in 1 .. i - 1 : entries'[j].account = a}
        = {j \in 1 .. i - 1 : entries[j].account = a}
  BY OneMoreEntry
<1>2. \A j \in 1 .. i - 1 : entries'[j] = entries[j]
  BY OneMoreEntry
<1> QED
  BY <1>1, <1>2 DEF Stood

\* A commit extends the chain of entries of its account.
LEMMA EntriesExplainBalanceStep ==
  ASSUME CInv, EntriesExplainBalance, [CardsNext]_cardVars
  PROVE  EntriesExplainBalance'
<1>1. CASE UNCHANGED <<balance, entries>>
  BY <1>1 DEF EntriesExplainBalance, Stood
<1>2. ASSUME NEW r \in Calls, CommitMove(r) PROVE EntriesExplainBalance'
  <2>0. PICK n \in Nat : n = Len(entries) + 1
    BY DEF CInv, CardsTypeOK
  <2>1. PICK e \in EntryRow :
          /\ e.after - e.change = balance[e.account]
          /\ entries' = Append(entries, e)
          /\ balance' = [balance EXCEPT ![e.account] = e.after]
    BY <1>2, WhatACommitWrites
  <2>2. /\ e.account \in AccountIds
        /\ n \in Nat \ {0} /\ Len(entries') = n /\ DOMAIN entries' = 1 .. n
        /\ entries'[n] = e
        /\ \A i \in 1 .. n - 1 : entries'[i] = entries[i]
        /\ DOMAIN entries = 1 .. n - 1 /\ Len(entries) + 1 = n
    BY <2>0, <2>1, OneMoreEntry DEF EntryRow
  <2>3. ASSUME NEW a \in AccountIds PROVE Stood(a, n + 1, balance[a])'
    <3>1. PICK x \in Nat : x = balance[a]
      BY DEF CInv, CardsTypeOK
    <3>2. Stood(a, n, x)
      BY <2>2, <3>1 DEF EntriesExplainBalance
    <3>3. Stood(a, n, x)'
      BY <2>1, <2>2, <3>2, StoodStays
    <3>4. CASE a = e.account
      <4>1. balance'[a] = e.after
        BY <2>1, <3>4 DEF CInv, CardsTypeOK
      <4>2. /\ n \in {j \in 1 .. (n + 1) - 1 : entries'[j].account = a}
            /\ \A k \in {j \in 1 .. (n + 1) - 1 : entries'[j].account = a} :
                 k <= n
        BY <2>2, <3>4
      <4> QED
        BY <2>2, <4>1, <4>2 DEF Stood
    <3>5. CASE a # e.account
      <4>1. balance'[a] = x
        BY <2>1, <3>1, <3>5 DEF CInv, CardsTypeOK
      <4>2. {j \in 1 .. (n + 1) - 1 : entries'[j].account = a}
              = {j \in 1 .. n - 1 : entries'[j].account = a}
        BY <2>2, <3>5
      <4> QED
        BY <3>3, <4>1, <4>2 DEF Stood
    <3> QED
      BY <3>4, <3>5
  <2>4. ASSUME NEW i \in 1 .. n
        PROVE  Stood(entries[i].account, i,
                     entries[i].after - entries[i].change)'
    <3>1. CASE i = n
      <4>1. PICK x \in Nat : x = balance[e.account]
        BY <2>2 DEF CInv, CardsTypeOK
      <4>2. Stood(e.account, n, x)
        BY <2>2, <4>1 DEF EntriesExplainBalance
      <4>3. Stood(e.account, n, x)'
        BY <2>1, <2>2, <4>2, StoodStays
      <4> QED
        BY <2>1, <2>2, <3>1, <4>1, <4>3
    <3>2. CASE i # n
      <4>1. i \in DOMAIN entries /\ entries'[i] = entries[i]
        BY <2>2, <3>2
      <4>2. entries[i] \in EntryRow
        BY <4>1 DEF CInv, CardsTypeOK
      <4>3. PICK a \in AccountIds, x \in Int :
              /\ a = entries[i].account
              /\ x = entries[i].after - entries[i].change
        BY <4>2 DEF EntryRow
      <4>4. Stood(a, i, x)
        BY <4>1, <4>3 DEF EntriesExplainBalance
      <4>5. Stood(a, i, x)'
        BY <2>1, <2>2, <4>4, StoodStays
      <4> QED
        BY <4>1, <4>3, <4>5
    <3> QED
      BY <3>1, <3>2
  <2> QED
    BY <2>2, <2>3, <2>4 DEF EntriesExplainBalance
<1> QED
  BY <1>1, <1>2, OnlyCommitsWrite

\* The entries of every account lead from its opening balance to its balance
\* without a gap, however payments, deposits and crashes interleave.
THEOREM LedgerHasNoGap == CardsSpec => []EntriesExplainBalance
<1>1. CardsInit => EntriesExplainBalance
  BY DEF CardsInit, EntriesExplainBalance, Stood
<1> QED
  BY <1>1, EntriesExplainBalanceStep, PaymentsHoldTheirRows, PTL DEF CardsSpec

=============================================================================
