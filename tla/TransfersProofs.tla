-------------------------- MODULE TransfersProofs --------------------------
(* Theorems about Transfers, for every value of its constants. *)
EXTENDS Transfers, TLAPS

-----------------------------------------------------------------------------
(* Facts about the helpers *)

\* The stand-in for NULL is not an account id.
LEMMA NoAccountIsNoAccount == NoAccount \notin Accounts
BY AccountsAssumption DEF NoAccount

\* Converting an amount with ROUND_HALF_UP gives a natural number.
LEMMA ConvertType ==
  ASSUME NEW amount \in Nat, NEW rate \in Rate
  PROVE  Convert(amount, rate) \in Nat
<1>1. rate.num \in Nat /\ rate.den \in Nat /\ rate.den > 0
  BY DEF Rate
<1>2. amount * rate.num \in Nat
  BY <1>1
<1>3. /\ 2 * amount * rate.num + rate.den \in Nat
      /\ 2 * rate.den \in Nat /\ 2 * rate.den > 0
  <2> DEFINE p == amount * rate.num
  <2>1. 2 * amount * rate.num = 2 * p
    BY <1>1
  <2> QED
    BY <1>1, <1>2, <2>1
<1>4. ASSUME NEW x \in Nat, NEW y \in Nat, y > 0
      PROVE  x \div y \in Nat
  BY <1>4
<1> QED
  BY <1>3, <1>4 DEF Convert

\* A transfer is only quoted amounts of money.
LEMMA CreditAmountsType ==
  ASSUME NEW s, NEW d, NEW amount \in Amounts
  PROVE  CreditAmounts(s, d, amount) \subseteq Nat
BY ConvertType, MoneyAssumption DEF CreditAmounts

\* Releasing locks keeps the lock tables well typed.
LEMMA ReleaseType ==
  ASSUME TypeOK, NEW r \in Actors, Release(r)
  PROVE  /\ txnHolder' \in [TxnIds -> Actors \cup {Nobody}]
         /\ acctHolder' \in [Accounts -> Actors \cup {Nobody}]
BY DEF TypeOK, Release

\* A session outside any handler has the shape of a session.
LEMMA IdleSessionType == IdleSession \in Session
BY DEF IdleSession, Session, NoDraft, Draft, Account, AccountStatus

\* Ending a handler keeps the shape of every session.
LEMMA FinishType ==
  ASSUME TypeOK, NEW r \in Actors, Finish(r)
  PROVE  req' \in [Actors -> Session]
BY IdleSessionType DEF TypeOK, Finish

\* What a movement must be for Post to keep the tables well typed.
MovementType ==
  [id : TxnIds, from : Accounts \cup {NoAccount}, to : Accounts \cup {NoAccount},
   debit : Nat, credit : Nat, seen : [Accounts -> Account]]

\* Writing a permitted movement keeps the shape of accounts and
\* ledger: above all, no balance drops below zero.
LEMMA PostType ==
  ASSUME TypeOK, NEW m \in MovementType, Permitted(m), Post(m)
  PROVE  /\ acct' \in [Accounts -> Account]
         /\ ledger' \in [Accounts -> Seq(Entry)]
<1>1. ASSUME NEW a \in Accounts, a \in {m.from, m.to}
      PROVE  /\ BalanceAfter(m, a) \in Nat
             /\ EntryOf(m, a) \in Entry
  <2>1. m.seen[a].balance \in Nat /\ m.debit \in Nat /\ m.credit \in Nat
    BY DEF MovementType, Account
  <2>2. a = m.from => m.seen[a].balance >= m.debit
    BY <1>1, NoAccountIsNoAccount DEF Permitted
  <2>3. BalanceAfter(m, a) \in Nat
    BY <2>1, <2>2 DEF BalanceAfter
  <2> QED
    BY <2>1, <2>3 DEF EntryOf, Entry, MovementType
<1>2. acct' \in [Accounts -> Account]
  <2>1. ASSUME NEW a \in Accounts
        PROVE  acct[a] \in Account
    BY DEF TypeOK
  <2>2. ASSUME NEW a \in Accounts, a \in {m.from, m.to}
        PROVE  [acct[a] EXCEPT !.balance = BalanceAfter(m, a)] \in Account
    BY <1>1, <2>1, <2>2 DEF Account
  <2> QED
    BY <2>1, <2>2 DEF Post
<1>3. ledger' \in [Accounts -> Seq(Entry)]
  <2>1. ASSUME NEW a \in Accounts
        PROVE  ledger[a] \in Seq(Entry)
    BY DEF TypeOK
  <2>2. ASSUME NEW a \in Accounts, a \in {m.from, m.to}
        PROVE  Append(ledger[a], EntryOf(m, a)) \in Seq(Entry)
    BY <1>1, <2>1, <2>2
  <2> QED
    BY <2>1, <2>2 DEF Post
<1> QED
  BY <1>2, <1>3

\* What a session at "execute" would write is a movement between the accounts
\* of its transaction.
LEMMA MovementOfSession ==
  ASSUME TypeOK, NEW r \in Actors, req[r].txn \in TxnIds, NEW u \in TxnIds
  PROVE  Movement(r, u) \in MovementType
<1>1. req[r] \in Session /\ txn[req[r].txn] \in Transaction
  BY DEF TypeOK
<1> QED
  BY <1>1 DEF Movement, MovementType, Session, Transaction

-----------------------------------------------------------------------------
(* Type correctness.  It is not inductive alone: a handler copies fields of *)
(* the transaction it works on, so that transaction has to be a row that    *)
(* exists.                                                                  *)

Working(s) == s.pc \notin {"idle", "insert", "insertReceiver", "markFailed"}

WorkingRows ==
  \A r \in Actors : Working(req[r]) =>
    /\ req[r].txn \in TxnIds
    /\ txn[req[r].txn].status # "NONE"

\* No action deletes a transactions row.
RowsPersist ==
  \A t \in TxnIds : txn[t].status # "NONE" => txn'[t].status # "NONE"

OthersKeepTheirState(r) == \A s \in Actors \ {r} : req'[s] = req[s]

\* WorkingRows survives a step of one session that deletes no row.
LEMMA WorkingRowsStep ==
  ASSUME WorkingRows, NEW r \in Actors, RowsPersist, OthersKeepTheirState(r),
         Working(req'[r]) => /\ req'[r].txn \in TxnIds
                             /\ txn'[req'[r].txn].status # "NONE"
  PROVE  WorkingRows'
<1> SUFFICES ASSUME NEW s \in Actors, Working(req'[s])
             PROVE  req'[s].txn \in TxnIds /\ txn'[req'[s].txn].status # "NONE"
  BY DEF WorkingRows, Working
<1>1. CASE s = r
  BY <1>1
<1>2. CASE s # r
  BY <1>2 DEF WorkingRows, RowsPersist, OthersKeepTheirState
<1> QED
  BY <1>1, <1>2

\* WorkingRows survives the end of a handler.
LEMMA WorkingRowsFinish ==
  ASSUME TypeOK, WorkingRows, NEW r \in Actors, RowsPersist, Finish(r)
  PROVE  WorkingRows'
<1>1. OthersKeepTheirState(r) /\ req'[r] = IdleSession
  BY DEF TypeOK, Finish, OthersKeepTheirState
<1>2. ~Working(req'[r])
  BY <1>1 DEF Working, IdleSession
<1> QED
  BY <1>1, <1>2, WorkingRowsStep

\* A step that leaves the transactions table alone deletes no row.
LEMMA RowsPersistUnchanged == ASSUME txn' = txn PROVE RowsPersist
BY DEF RowsPersist

TInv == TypeOK /\ WorkingRows

\* The ledger starts with well-shaped rows and idle sessions.
LEMMA TInvInit == Init => TInv
<1> SUFFICES ASSUME Init PROVE TInv
  OBVIOUS
<1>1. acct \in [Accounts -> Account]
  BY MoneyAssumption DEF Init, Account, AccountStatus
<1>2. txn \in [TxnIds -> Transaction]
  BY DEF Init, NoTransaction, Transaction
<1>3. conf \in [TxnIds -> Confirmation]
  BY DEF Init, NoConfirmation, Confirmation
<1>4. ledger \in [Accounts -> Seq(Entry)]
  BY DEF Init
<1>5. /\ txnHolder \in [TxnIds -> Actors \cup {Nobody}]
      /\ acctHolder \in [Accounts -> Actors \cup {Nobody}]
  BY DEF Init
<1>6. req \in [Actors -> Session]
  BY IdleSessionType DEF Init
<1>7. WorkingRows
  BY DEF Init, WorkingRows, Working, IdleSession
<1> QED
  BY <1>1, <1>2, <1>3, <1>4, <1>5, <1>6, <1>7 DEF TInv, TypeOK

\* Steps that only move a session on.
LEMMA TInvSessionStep ==
  ASSUME TInv, NEW r \in Actors, NEW s \in Session,
         req' = [req EXCEPT ![r] = s],
         UNCHANGED <<acct, txn, conf, ledger>>,
         txnHolder' \in [TxnIds -> Actors \cup {Nobody}],
         acctHolder' \in [Accounts -> Actors \cup {Nobody}],
         Working(s) => s.txn \in TxnIds /\ txn[s.txn].status # "NONE"
  PROVE  TInv'
<1>1. TypeOK'
  BY DEF TInv, TypeOK
<1>2. OthersKeepTheirState(r) /\ req'[r] = s
  BY DEF TInv, TypeOK, OthersKeepTheirState
<1>3. WorkingRows'
  BY <1>2, RowsPersistUnchanged, WorkingRowsStep DEF TInv
<1> QED
  BY <1>1, <1>3 DEF TInv

\* Steps that end the handler.
LEMMA TInvFinish ==
  ASSUME TInv, NEW r \in Actors, Finish(r), RowsPersist,
         acct' \in [Accounts -> Account],
         txn' \in [TxnIds -> Transaction],
         conf' \in [TxnIds -> Confirmation],
         ledger' \in [Accounts -> Seq(Entry)],
         txnHolder' \in [TxnIds -> Actors \cup {Nobody}],
         acctHolder' \in [Accounts -> Actors \cup {Nobody}]
  PROVE  TInv'
BY FinishType, WorkingRowsFinish DEF TInv, TypeOK

\* initiate_transfer inserts a well-shaped row.
LEMMA TInvInitiate ==
  ASSUME TInv, NEW r \in Actors
  PROVE  /\ \A s, d \in Accounts, amount \in Amounts :
              InitiateValidate(r, s, d, amount) => TInv'
         /\ InitiateInsert(r) => TInv'
         /\ InitiateCommit(r) => TInv'
         /\ InitiateUnstorable(r) => TInv'
<1> USE DEF TInv
<1>r. req[r] \in Session
  BY DEF TypeOK
<1>h. /\ txnHolder \in [TxnIds -> Actors \cup {Nobody}]
      /\ acctHolder \in [Accounts -> Actors \cup {Nobody}]
  BY DEF TypeOK
<1>1. ASSUME NEW s \in Accounts, NEW d \in Accounts, NEW amount \in Amounts,
             InitiateValidate(r, s, d, amount)
      PROVE  TInv'
  <2>1. PICK credit \in CreditAmounts(s, d, amount) :
          req' = [req EXCEPT ![r].op = "initiate", ![r].pc = "insert",
                    ![r].draft = [sender |-> s, receiver |-> d,
                                  amount |-> amount, credit |-> credit]]
    BY <1>1 DEF InitiateValidate
  <2>2. credit \in Nat /\ amount \in Nat
    BY CreditAmountsType, MoneyAssumption
  <2> DEFINE draft == [sender |-> s, receiver |-> d, amount |-> amount,
                       credit |-> credit]
             new == [req[r] EXCEPT !.op = "initiate", !.pc = "insert",
                                   !.draft = draft]
  <2>3. draft \in Draft
    BY <2>2 DEF Draft
  <2>4. new \in Session /\ ~Working(new)
    BY <1>r, <2>3 DEF Session, Working
  <2>5. req' = [req EXCEPT ![r] = new]
    BY <2>1 DEF TypeOK
  <2>6. UNCHANGED <<acct, txn, conf, ledger, txnHolder, acctHolder>>
    BY <1>1 DEF InitiateValidate
  <2> QED
    BY <1>h, <2>4, <2>5, <2>6, TInvSessionStep
<1>2. ASSUME InitiateInsert(r) PROVE TInv'
  <2> DEFINE new == [req[r] EXCEPT !.pc = "insertReceiver"]
  <2>1. new \in Session /\ ~Working(new)
    BY <1>r DEF Session, Working
  <2>2. /\ req' = [req EXCEPT ![r] = new]
        /\ UNCHANGED <<acct, txn, conf, ledger, txnHolder, acctHolder>>
    BY <1>2 DEF InitiateInsert, TypeOK
  <2> QED
    BY <1>h, <2>1, <2>2, TInvSessionStep
<1>3. ASSUME InitiateCommit(r) PROVE TInv'
  <2> DEFINE d == req[r].draft
             row == [type |-> "TRANSFER", sender |-> d.sender,
                     receiver |-> d.receiver, amount |-> d.amount,
                     credit |-> d.credit, status |-> "PENDING",
                     otpVerified |-> FALSE, reversalOf |-> NoTxn]
  <2>1. row \in Transaction /\ row.status # "NONE"
    BY <1>r DEF Session, Draft, Transaction
  <2>2. PICK t \in TxnIds :
          /\ txn' = [txn EXCEPT ![t] = row]
          /\ conf' = [conf EXCEPT ![t] = [NoConfirmation EXCEPT !.code = 1]]
    BY <1>3 DEF InitiateCommit
  <2>3. txn' \in [TxnIds -> Transaction] /\ RowsPersist
    <3> HIDE DEF row
    <3> QED
      BY <2>1, <2>2 DEF TypeOK, RowsPersist
  <2>4. conf' \in [TxnIds -> Confirmation]
    BY <2>2 DEF TypeOK, NoConfirmation, Confirmation
  <2>5. Finish(r) /\ UNCHANGED <<acct, ledger, txnHolder, acctHolder>>
    BY <1>3 DEF InitiateCommit
  <2> QED
    BY <1>h, <2>3, <2>4, <2>5, TInvFinish DEF TypeOK
<1>4. ASSUME InitiateUnstorable(r) PROVE TInv'
  BY <1>4, RowsPersistUnchanged, TInvFinish DEF InitiateUnstorable, TypeOK
<1> QED
  BY <1>1, <1>2, <1>3, <1>4

\* Steps that move a session to another place of its handler, on the same
\* transaction or on one that exists.
LEMMA TInvConfirmReads ==
  ASSUME TInv, NEW r \in Actors
  PROVE  /\ \A t \in TxnIds : ConfirmBegin(r, t) => TInv'
         /\ ConfirmUnusableOtp(r) => TInv'
         /\ ConfirmWrongCode(r) => TInv'
         /\ ConfirmRightCode(r) => TInv'
         /\ Reload(r) => TInv'
<1> USE DEF TInv
<1>r. req[r] \in Session
  BY DEF TypeOK
<1>h. /\ txnHolder \in [TxnIds -> Actors \cup {Nobody}]
      /\ acctHolder \in [Accounts -> Actors \cup {Nobody}]
  BY DEF TypeOK
<1>w. Working(req[r]) => /\ req[r].txn \in TxnIds
                         /\ txn[req[r].txn].status # "NONE"
                         /\ conf[req[r].txn] \in Confirmation
  BY DEF WorkingRows, TypeOK
<1>1. ASSUME NEW t \in TxnIds, ConfirmBegin(r, t) PROVE TInv'
  <2> DEFINE new == [req[r] EXCEPT !.op = "confirm", !.pc = "readOtp", !.txn = t]
  <2>1. new \in Session /\ new.txn = t
    BY <1>r DEF Session
  <2>2. /\ req' = [req EXCEPT ![r] = new]
        /\ UNCHANGED <<acct, txn, conf, ledger, txnHolder, acctHolder>>
        /\ txn[t].status # "NONE"
    BY <1>1 DEF ConfirmBegin, TypeOK
  <2> QED
    BY <1>h, <2>1, <2>2, TInvSessionStep
<1>2. ASSUME ConfirmUnusableOtp(r) PROVE TInv'
  <2> DEFINE new == [req[r] EXCEPT !.pc = "markFailed", !.failing = {req[r].txn}]
  <2>1. Working(req[r])
    BY <1>2 DEF ConfirmUnusableOtp, At, Working
  <2>2. new \in Session /\ ~Working(new)
    BY <1>r, <1>w, <2>1 DEF Session, Working
  <2>3. /\ req' = [req EXCEPT ![r] = new]
        /\ UNCHANGED <<acct, txn, conf, ledger, txnHolder, acctHolder>>
    BY <1>2 DEF ConfirmUnusableOtp, TypeOK
  <2> QED
    BY <1>h, <2>2, <2>3, TInvSessionStep
<1>3. ASSUME ConfirmWrongCode(r) PROVE TInv'
  <2> DEFINE new == [req[r] EXCEPT !.pc = "wrongCode",
                                   !.attempts = conf[req[r].txn].attempts]
  <2>1. Working(req[r])
    BY <1>3 DEF ConfirmWrongCode, At, Working
  <2>2. new \in Session /\ new.txn = req[r].txn
    BY <1>r, <1>w, <2>1 DEF Session, Confirmation
  <2>3. /\ req' = [req EXCEPT ![r] = new]
        /\ UNCHANGED <<acct, txn, conf, ledger, txnHolder, acctHolder>>
    BY <1>3 DEF ConfirmWrongCode, TypeOK
  <2> QED
    BY <1>h, <1>w, <2>1, <2>2, <2>3, TInvSessionStep
<1>4. ASSUME ConfirmRightCode(r) PROVE TInv'
  <2> DEFINE new == [req[r] EXCEPT !.pc = "lockTxn",
                                   !.code = conf[req[r].txn].code]
  <2>1. Working(req[r])
    BY <1>4 DEF ConfirmRightCode, At, Working
  <2>2. new \in Session /\ new.txn = req[r].txn
    BY <1>r, <1>w, <2>1 DEF Session, Confirmation
  <2>3. /\ req' = [req EXCEPT ![r] = new]
        /\ UNCHANGED <<acct, txn, conf, ledger, txnHolder, acctHolder>>
    BY <1>4 DEF ConfirmRightCode, TypeOK
  <2> QED
    BY <1>h, <1>w, <2>1, <2>2, <2>3, TInvSessionStep
<1>5. ASSUME Reload(r) PROVE TInv'
  <2> DEFINE new == [req[r] EXCEPT !.pc = "markFailed", !.failing = {req[r].txn}]
  <2>1. Working(req[r])
    BY <1>5 DEF Reload, At, Working
  <2>2. new \in Session /\ ~Working(new)
    BY <1>r, <1>w, <2>1 DEF Session, Working
  <2>3. /\ req' = [req EXCEPT ![r] = new] \/ Finish(r)
        /\ UNCHANGED <<acct, txn, conf, ledger, txnHolder, acctHolder>>
    BY <1>5 DEF Reload, TypeOK
  <2>4. CASE req' = [req EXCEPT ![r] = new]
    BY <1>h, <2>2, <2>3, <2>4, TInvSessionStep
  <2>5. CASE Finish(r)
    BY <2>3, <2>5, RowsPersistUnchanged, TInvFinish DEF TypeOK
  <2> QED
    BY <2>3, <2>4, <2>5
<1> QED
  BY <1>1, <1>2, <1>3, <1>4, <1>5

\* Wrong codes and mark_failed keep the shape of the rows they update.
LEMMA TInvFailures ==
  ASSUME TInv, NEW r \in Actors
  PROVE  /\ RegisterFailedAttempt(r) => TInv'
         /\ ExhaustChallenge(r) => TInv'
         /\ MarkFailed(r) => TInv'
<1> USE DEF TInv
<1>r. req[r] \in Session
  BY DEF TypeOK
<1>h. /\ txnHolder \in [TxnIds -> Actors \cup {Nobody}]
      /\ acctHolder \in [Accounts -> Actors \cup {Nobody}]
  BY DEF TypeOK
<1>w. Working(req[r]) => /\ req[r].txn \in TxnIds
                         /\ txn[req[r].txn].status # "NONE"
                         /\ conf[req[r].txn] \in Confirmation
  BY DEF WorkingRows, TypeOK
<1>c. ASSUME Working(req[r])
      PROVE  [conf EXCEPT ![req[r].txn].attempts = req[r].attempts + 1]
               \in [TxnIds -> Confirmation]
  <2> DEFINE t == req[r].txn
             row == [conf[t] EXCEPT !.attempts = req[r].attempts + 1]
  <2>1. row \in Confirmation
    BY <1>c, <1>r, <1>w DEF Confirmation, Session
  <2>2. [conf EXCEPT ![t] = row] \in [TxnIds -> Confirmation]
    <3> HIDE DEF row
    <3> QED
      BY <2>1 DEF TypeOK
  <2> QED
    BY <2>2
<1>1. ASSUME RegisterFailedAttempt(r) PROVE TInv'
  <2>1. /\ conf' \in [TxnIds -> Confirmation]
        /\ Finish(r)
        /\ UNCHANGED <<acct, txn, ledger, txnHolder, acctHolder>>
    BY <1>1, <1>c DEF RegisterFailedAttempt, At, Working
  <2> QED
    BY <1>h, <2>1, RowsPersistUnchanged, TInvFinish DEF TypeOK
<1>2. ASSUME ExhaustChallenge(r) PROVE TInv'
  <2> DEFINE t == req[r].txn
             row == [txn[t] EXCEPT !.status = "FAILED"]
  <2>0. Working(req[r])
    BY <1>2 DEF ExhaustChallenge, At, Working
  <2>1. /\ conf' \in [TxnIds -> Confirmation]
        /\ txn' = [txn EXCEPT ![t] = row]
        /\ Finish(r)
        /\ UNCHANGED <<acct, ledger, txnHolder, acctHolder>>
    BY <1>2, <1>c, <2>0 DEF ExhaustChallenge
  <2>a. row \in Transaction /\ row.status # "NONE" /\ t \in TxnIds
    <3>1. t \in TxnIds /\ txn[t] \in Transaction
      BY <1>w, <2>0 DEF TypeOK
    <3> QED
      BY <3>1 DEF Transaction
  <2>2. txn' \in [TxnIds -> Transaction] /\ RowsPersist
    <3> HIDE DEF row
    <3> QED
      BY <2>1, <2>a DEF TypeOK, RowsPersist
  <2> QED
    BY <1>h, <2>1, <2>2, TInvFinish DEF TypeOK
<1>3. ASSUME MarkFailed(r) PROVE TInv'
  <2>1. /\ txn' = [t \in TxnIds |-> IF t \in req[r].failing
                                    THEN [txn[t] EXCEPT !.status = "FAILED"]
                                    ELSE txn[t]]
        /\ Finish(r)
        /\ UNCHANGED <<acct, conf, ledger, txnHolder, acctHolder>>
    BY <1>3 DEF MarkFailed
  <2>2. ASSUME NEW t \in TxnIds
        PROVE  /\ txn'[t] \in Transaction
               /\ txn[t].status # "NONE" => txn'[t].status # "NONE"
    <3>1. txn[t] \in Transaction
      BY DEF TypeOK
    <3>2. /\ [txn[t] EXCEPT !.status = "FAILED"] \in Transaction
          /\ [txn[t] EXCEPT !.status = "FAILED"].status = "FAILED"
      BY <3>1 DEF Transaction
    <3> QED
      BY <2>1, <3>1, <3>2
  <2>3. txn' \in [TxnIds -> Transaction] /\ RowsPersist
    BY <2>1, <2>2 DEF RowsPersist
  <2> QED
    BY <2>1, <2>3, TInvFinish DEF TypeOK
<1> QED
  BY <1>1, <1>2, <1>3

\* Taking and giving back row locks keeps the shape of everything.
LEMMA TInvLocking ==
  ASSUME TInv, NEW r \in Actors
  PROVE  /\ \A t \in TxnIds : ReverseBegin(r, t) => TInv'
         /\ LockTxn(r) => TInv'
         /\ LockTxnRefused(r) => TInv'
         /\ LockAccount(r) => TInv'
         /\ ExecuteRefused(r) => TInv'
         /\ ExecuteUnstorable(r) => TInv'
<1> USE DEF TInv
<1>r. req[r] \in Session
  BY DEF TypeOK
<1>h. /\ txnHolder \in [TxnIds -> Actors \cup {Nobody}]
      /\ acctHolder \in [Accounts -> Actors \cup {Nobody}]
  BY DEF TypeOK
<1>w. Working(req[r]) => /\ req[r].txn \in TxnIds
                         /\ txn[req[r].txn].status # "NONE"
  BY DEF WorkingRows
<1>a. ASSUME AfterRefusal(r), Working(req[r]),
             UNCHANGED <<acct, txn, conf, ledger>>,
             txnHolder' \in [TxnIds -> Actors \cup {Nobody}],
             acctHolder' \in [Accounts -> Actors \cup {Nobody}]
      PROVE  TInv'
  <2> DEFINE new == [req[r] EXCEPT !.pc = "reload"]
  <2>1. new \in Session /\ new.txn = req[r].txn
    BY <1>r DEF Session
  <2>2. CASE Finish(r)
    BY <1>a, <2>2, RowsPersistUnchanged, TInvFinish DEF TypeOK
  <2>3. CASE req' = [req EXCEPT ![r] = new]
    BY <1>a, <1>w, <2>1, <2>3, TInvSessionStep
  <2> QED
    BY <1>a, <2>2, <2>3 DEF AfterRefusal, TypeOK
<1>1. ASSUME NEW t \in TxnIds, ReverseBegin(r, t) PROVE TInv'
  <2> DEFINE new == [req[r] EXCEPT !.op = "reverse", !.pc = "lockTxn", !.txn = t]
  <2>1. new \in Session /\ new.txn = t
    BY <1>r DEF Session
  <2>2. /\ req' = [req EXCEPT ![r] = new]
        /\ UNCHANGED <<acct, txn, conf, ledger, txnHolder, acctHolder>>
        /\ txn[t].status # "NONE"
    BY <1>1 DEF ReverseBegin, TypeOK
  <2> QED
    BY <1>h, <2>1, <2>2, TInvSessionStep
<1>2. ASSUME LockTxn(r) PROVE TInv'
  <2> DEFINE new == [req[r] EXCEPT !.pc = "lockAccounts"]
  <2>1. Working(req[r])
    BY <1>2 DEF LockTxn, Working
  <2>2. new \in Session /\ new.txn = req[r].txn
    BY <1>r DEF Session
  <2>3. /\ req' = [req EXCEPT ![r] = new]
        /\ txnHolder' = [txnHolder EXCEPT ![req[r].txn] = r]
        /\ UNCHANGED <<acct, txn, conf, ledger, acctHolder>>
    BY <1>2 DEF LockTxn, TypeOK
  <2>4. txnHolder' \in [TxnIds -> Actors \cup {Nobody}]
    BY <1>h, <2>3
  <2> QED
    BY <1>h, <1>w, <2>1, <2>2, <2>3, <2>4, TInvSessionStep
<1>3. ASSUME LockTxnRefused(r) PROVE TInv'
  <2>1. Working(req[r])
    BY <1>3 DEF LockTxnRefused, Working
  <2> QED
    BY <1>3, <1>a, <1>h, <2>1 DEF LockTxnRefused
<1>4. ASSUME LockAccount(r) PROVE TInv'
  <2>1. Working(req[r])
    BY <1>4 DEF LockAccount, Working
  <2>2. PICK a \in Unlocked(r), pc \in {"execute", "lockAccounts"} :
          /\ acctHolder' = [acctHolder EXCEPT ![a] = r]
          /\ req' = [req EXCEPT ![r].view[a] = acct[a], ![r].pc = pc]
          /\ UNCHANGED <<acct, txn, conf, ledger, txnHolder>>
    BY <1>4, <1>r DEF LockAccount, TypeOK
  <2> DEFINE new == [req[r] EXCEPT !.view[a] = acct[a], !.pc = pc]
  <2>3. new \in Session /\ new.txn = req[r].txn
    BY <1>r DEF Session, TypeOK
  <2>4. req' = [req EXCEPT ![r] = new]
    BY <2>2 DEF TypeOK
  <2>5. acctHolder' \in [Accounts -> Actors \cup {Nobody}]
    BY <1>h, <2>2
  <2>6. Working(new) => new.txn \in TxnIds /\ txn[new.txn].status # "NONE"
    BY <1>w, <2>1, <2>3
  <2> HIDE DEF new
  <2> QED
    BY <1>h, <2>2, <2>3, <2>4, <2>5, <2>6, TInvSessionStep DEF TInv
<1>5. ASSUME ExecuteRefused(r) PROVE TInv'
  <2>1. Working(req[r])
    BY <1>5 DEF ExecuteRefused, Working
  <2> QED
    BY <1>5, <1>a, <2>1, ReleaseType DEF ExecuteRefused
<1>6. ASSUME ExecuteUnstorable(r) PROVE TInv'
  BY <1>6, ReleaseType, RowsPersistUnchanged, TInvFinish
     DEF ExecuteUnstorable, TypeOK
<1> QED
  BY <1>1, <1>2, <1>3, <1>4, <1>5, <1>6

\* A reversal has a type that the table knows.
LEMMA ReversalTypeType ==
  ASSUME NEW type \in {"NONE", "TRANSFER", "DEPOSIT", "WITHDRAWAL"}
  PROVE  ReversalType(type) \in {"NONE", "TRANSFER", "DEPOSIT", "WITHDRAWAL"}
BY DEF ReversalType

\* Executing a transfer or a reversal keeps the shape of all tables.
LEMMA TInvExecute ==
  ASSUME TInv, NEW r \in Actors
  PROVE  /\ ConfirmExecute(r) => TInv'
         /\ ReverseExecute(r) => TInv'
<1> USE DEF TInv
<1>w. Working(req[r]) => /\ req[r].txn \in TxnIds
                         /\ txn[req[r].txn].status # "NONE"
                         /\ txn[req[r].txn] \in Transaction
                         /\ conf[req[r].txn] \in Confirmation
  BY DEF WorkingRows, TypeOK
<1>1. ASSUME ConfirmExecute(r) PROVE TInv'
  <2> DEFINE t == req[r].txn
             m == Movement(r, t)
             row == [txn[t] EXCEPT !.status = "SUCCESS", !.otpVerified = TRUE]
             challenge == [conf[t] EXCEPT !.verified = TRUE]
  <2>1. /\ Permitted(m) /\ Post(m) /\ Release(r) /\ Finish(r)
        /\ txn' = [txn EXCEPT ![t].status = "SUCCESS", ![t].otpVerified = TRUE]
        /\ conf' = [conf EXCEPT ![t].verified = TRUE]
        /\ Working(req[r])
    BY <1>1 DEF ConfirmExecute, At, Working
  <2>2. t \in TxnIds /\ txn[t] \in Transaction /\ conf[t] \in Confirmation
    BY <1>w, <2>1
  <2>3. m \in MovementType
    BY <2>2, MovementOfSession
  <2>4. row \in Transaction /\ row.status # "NONE" /\ challenge \in Confirmation
    BY <2>2 DEF Transaction, Confirmation
  <2>5. txn' = [txn EXCEPT ![t] = row] /\ conf' = [conf EXCEPT ![t] = challenge]
    BY <2>1, <2>2 DEF TypeOK
  <2>6. /\ txn' \in [TxnIds -> Transaction] /\ RowsPersist
        /\ conf' \in [TxnIds -> Confirmation]
    <3> HIDE DEF row, challenge
    <3> QED
      BY <2>2, <2>4, <2>5 DEF TypeOK, RowsPersist
  <2> QED
    BY <2>1, <2>3, <2>6, PostType, ReleaseType, TInvFinish
<1>2. ASSUME ReverseExecute(r) PROVE TInv'
  <2> DEFINE t == req[r].txn
  <2>1. Release(r) /\ Finish(r) /\ UNCHANGED conf /\ Working(req[r])
    BY <1>2 DEF ReverseExecute, At, Working
  <2>2. t \in TxnIds /\ txn[t] \in Transaction
    BY <1>w, <2>1
  <2> DEFINE done == [txn[t] EXCEPT !.status = "REVERSED"]
             new(u) == [type |-> ReversalType(txn[t].type),
                        sender |-> Movement(r, u).from,
                        receiver |-> Movement(r, u).to,
                        amount |-> Movement(r, u).debit,
                        credit |-> Movement(r, u).credit,
                        status |-> "SUCCESS", otpVerified |-> FALSE,
                        reversalOf |-> t]
  <2>3. PICK u \in TxnIds :
          /\ Permitted(Movement(r, u)) /\ Post(Movement(r, u))
          /\ txn' = [txn EXCEPT ![t].status = "REVERSED", ![u] = new(u)]
    BY <1>2 DEF ReverseExecute
  <2>4. Movement(r, u) \in MovementType
    BY <2>2, MovementOfSession
  <2>5. done \in Transaction /\ done.status # "NONE"
    BY <2>2 DEF Transaction
  <2>6. new(u) \in Transaction /\ new(u).status # "NONE"
    <3>1. txn[t].type \in {"NONE", "TRANSFER", "DEPOSIT", "WITHDRAWAL"}
      BY <2>2 DEF Transaction
    <3>2. ReversalType(txn[t].type)
            \in {"NONE", "TRANSFER", "DEPOSIT", "WITHDRAWAL"}
      BY <3>1, ReversalTypeType
    <3> QED
      BY <2>2, <2>4, <3>2 DEF Transaction, MovementType
  <2>7. txn' = [txn EXCEPT ![t] = done, ![u] = new(u)]
    BY <2>2, <2>3 DEF TypeOK
  <2>8. txn' \in [TxnIds -> Transaction] /\ RowsPersist
    <3> HIDE DEF done, new
    <3> QED
      BY <2>2, <2>5, <2>6, <2>7 DEF TypeOK, RowsPersist
  <2> QED
    BY <2>1, <2>3, <2>4, <2>8, PostType, ReleaseType, TInvFinish DEF TypeOK
<1> QED
  BY <1>1, <1>2

\* resend_otp keeps the shape of the challenge.
LEMMA TInvResend ==
  ASSUME TInv, NEW r \in Actors
  PROVE  /\ \A t \in TxnIds : ResendBegin(r, t) => TInv'
         /\ ResendReadOtp(r) => TInv'
         /\ Reissue(r) => TInv'
<1> USE DEF TInv
<1>r. req[r] \in Session
  BY DEF TypeOK
<1>h. /\ txnHolder \in [TxnIds -> Actors \cup {Nobody}]
      /\ acctHolder \in [Accounts -> Actors \cup {Nobody}]
  BY DEF TypeOK
<1>w. Working(req[r]) => /\ req[r].txn \in TxnIds
                         /\ txn[req[r].txn].status # "NONE"
                         /\ conf[req[r].txn] \in Confirmation
  BY DEF WorkingRows, TypeOK
<1>1. ASSUME NEW t \in TxnIds, ResendBegin(r, t) PROVE TInv'
  <2> DEFINE new == [req[r] EXCEPT !.op = "resend", !.pc = "readOtp", !.txn = t]
  <2>1. new \in Session /\ new.txn = t
    BY <1>r DEF Session
  <2>2. /\ req' = [req EXCEPT ![r] = new]
        /\ UNCHANGED <<acct, txn, conf, ledger, txnHolder, acctHolder>>
        /\ txn[t].status # "NONE"
    BY <1>1 DEF ResendBegin, TypeOK
  <2> QED
    BY <1>h, <2>1, <2>2, TInvSessionStep
<1>2. ASSUME ResendReadOtp(r) PROVE TInv'
  <2> DEFINE new == [req[r] EXCEPT !.pc = "reissue",
                                   !.attempts = conf[req[r].txn].attempts]
  <2>1. Working(req[r])
    BY <1>2 DEF ResendReadOtp, At, Working
  <2>2. new \in Session /\ new.txn = req[r].txn
    BY <1>r, <1>w, <2>1 DEF Session, Confirmation
  <2>3. /\ req' = [req EXCEPT ![r] = new]
        /\ UNCHANGED <<acct, txn, conf, ledger, txnHolder, acctHolder>>
    BY <1>2 DEF ResendReadOtp, TypeOK
  <2> QED
    BY <1>h, <1>w, <2>1, <2>2, <2>3, TInvSessionStep
<1>3. ASSUME Reissue(r) PROVE TInv'
  <2> DEFINE t == req[r].txn
             attempts == IF req[r].attempts = 0 THEN conf[t].attempts ELSE 0
             row == [conf[t] EXCEPT !.code = conf[t].code + 1, !.expired = FALSE,
                                    !.attempts = attempts]
  <2>1. Working(req[r])
    BY <1>3 DEF Reissue, At, Working
  <2>2. t \in TxnIds /\ conf[t] \in Confirmation
    BY <1>w, <2>1
  <2>3. row \in Confirmation
    <3>1. conf[t].code + 1 \in Nat /\ attempts \in Nat
      BY <2>2 DEF Confirmation
    <3> HIDE DEF attempts
    <3> QED
      BY <2>2, <3>1 DEF Confirmation
  <2>4. conf' = [conf EXCEPT ![t] = row]
    BY <1>3, <2>2 DEF Reissue, TypeOK
  <2>5. conf' \in [TxnIds -> Confirmation]
    <3> HIDE DEF row
    <3> QED
      BY <2>3, <2>4 DEF TypeOK
  <2>6. Finish(r) /\ UNCHANGED <<acct, txn, ledger, txnHolder, acctHolder>>
    BY <1>3 DEF Reissue
  <2> QED
    BY <2>5, <2>6, RowsPersistUnchanged, TInvFinish DEF TypeOK
<1> QED
  BY <1>1, <1>2, <1>3

\* deposit and withdraw keep the shape of all tables.
LEMMA SingleSidedType ==
  ASSUME TInv, NEW type \in {"DEPOSIT", "WITHDRAWAL"}, NEW m \in MovementType,
         SingleSided(type, m)
  PROVE  TInv'
<1> USE DEF TInv
<1> DEFINE row == [type |-> type, sender |-> m.from, receiver |-> m.to,
                   amount |-> m.debit, credit |-> m.credit,
                   status |-> "SUCCESS", otpVerified |-> FALSE,
                   reversalOf |-> NoTxn]
<1>1. row \in Transaction /\ row.status # "NONE"
  BY DEF MovementType, Transaction
<1>2. txn' = [txn EXCEPT ![m.id] = row]
  BY DEF SingleSided
<1>3. txn' \in [TxnIds -> Transaction] /\ RowsPersist
  <2> HIDE DEF row
  <2> QED
    BY <1>1, <1>2 DEF TypeOK, RowsPersist
<1>4. Permitted(m) /\ Post(m) /\ UNCHANGED <<conf, txnHolder, acctHolder, req>>
  BY DEF SingleSided
<1>5. TypeOK'
  BY <1>3, <1>4, PostType DEF TypeOK
<1>6. WorkingRows'
  BY <1>3, <1>4 DEF WorkingRows, RowsPersist, Working
<1> QED
  BY <1>5, <1>6

\* So do the clock, the sweep, the teller, the administrator and crashes.
LEMMA TInvEnvironment ==
  ASSUME TInv
  PROVE  /\ Environment => TInv'
         /\ \A w \in Actors : SweepSelect(w) => TInv'
         /\ \A r \in Actors : DeadlockAbort(r) \/ Crash(r) => TInv'
<1> USE DEF TInv
<1>h. /\ txnHolder \in [TxnIds -> Actors \cup {Nobody}]
      /\ acctHolder \in [Accounts -> Actors \cup {Nobody}]
  BY DEF TypeOK
<1>1. ASSUME NEW t \in TxnIds, ExpireOtp(t) PROVE TInv'
  <2> DEFINE row == [conf[t] EXCEPT !.expired = TRUE]
  <2>1. row \in Confirmation
    <3>1. conf[t] \in Confirmation
      BY DEF TypeOK
    <3> QED
      BY <3>1 DEF Confirmation
  <2>2. /\ conf' = [conf EXCEPT ![t] = row]
        /\ UNCHANGED <<acct, txn, ledger, txnHolder, acctHolder, req>>
    BY <1>1 DEF ExpireOtp, TypeOK
  <2>3. conf' \in [TxnIds -> Confirmation]
    <3> HIDE DEF row
    <3> QED
      BY <2>1, <2>2 DEF TypeOK
  <2> QED
    BY <2>2, <2>3 DEF TypeOK, WorkingRows, Working
<1>2. ASSUME NEW a \in Accounts, NEW amount \in Amounts,
             Deposit(a, amount) \/ Withdraw(a, amount)
      PROVE  TInv'
  <2>1. PICK t \in TxnIds :
          \/ SingleSided("DEPOSIT", [id |-> t, from |-> NoAccount, to |-> a,
                 debit |-> amount, credit |-> amount, seen |-> acct])
          \/ SingleSided("WITHDRAWAL", [id |-> t, from |-> a, to |-> NoAccount,
                 debit |-> amount, credit |-> amount, seen |-> acct])
    BY <1>2 DEF Deposit, Withdraw
  <2>2. ASSUME NEW from \in Accounts \cup {NoAccount},
               NEW to \in Accounts \cup {NoAccount}
        PROVE  [id |-> t, from |-> from, to |-> to, debit |-> amount,
                credit |-> amount, seen |-> acct] \in MovementType
    BY MoneyAssumption DEF MovementType, TypeOK
  <2> QED
    BY <2>1, <2>2, SingleSidedType
<1>3. ASSUME NEW a \in Accounts, NEW status \in NewStatuses,
             SetAccountStatus(a, status)
      PROVE  TInv'
  <2> DEFINE row == [acct[a] EXCEPT !.status = status]
  <2>1. row \in Account
    <3>1. acct[a] \in Account
      BY DEF TypeOK
    <3> QED
      BY <3>1, NamesAssumption DEF Account
  <2>2. /\ acct' = [acct EXCEPT ![a] = row]
        /\ UNCHANGED <<txn, conf, ledger, txnHolder, acctHolder, req>>
    BY <1>3 DEF SetAccountStatus, TypeOK
  <2>3. acct' \in [Accounts -> Account]
    <3> HIDE DEF row
    <3> QED
      BY <2>1, <2>2 DEF TypeOK
  <2> QED
    BY <2>2, <2>3 DEF TypeOK, WorkingRows, Working
<1>4. ASSUME NEW w \in Actors, SweepSelect(w) PROVE TInv'
  <2> DEFINE new == [req[w] EXCEPT !.op = "sweep", !.pc = "markFailed",
                                   !.failing = StaleTransactions]
  <2>1. new \in Session /\ ~Working(new)
    <3>1. req[w] \in Session /\ StaleTransactions \in SUBSET TxnIds
      BY DEF TypeOK, StaleTransactions
    <3> QED
      BY <3>1 DEF Session, Working
  <2>2. /\ req' = [req EXCEPT ![w] = new]
        /\ UNCHANGED <<acct, txn, conf, ledger, txnHolder, acctHolder>>
    BY <1>4 DEF SweepSelect, TypeOK
  <2> QED
    BY <1>h, <2>1, <2>2, TInvSessionStep
<1>5. ASSUME NEW r \in Actors, DeadlockAbort(r) \/ Crash(r) PROVE TInv'
  <2>1. Release(r) /\ Finish(r) /\ UNCHANGED <<acct, txn, conf, ledger>>
    BY <1>5 DEF DeadlockAbort, Crash
  <2> QED
    BY <2>1, ReleaseType, RowsPersistUnchanged, TInvFinish DEF TypeOK
<1> QED
  BY <1>1, <1>2, <1>3, <1>4, <1>5 DEF Environment

\* TInv is inductive.
LEMMA TInvNext == TInv /\ [Next]_vars => TInv'
<1> SUFFICES ASSUME TInv, [Next]_vars PROVE TInv'
  OBVIOUS
<1>1. CASE UNCHANGED vars
  BY <1>1 DEF vars, TInv, TypeOK, WorkingRows, Working
<1>2. ASSUME NEW r \in Requests, Start(r) PROVE TInv'
  <2>1. r \in Actors
    BY DEF Actors
  <2> QED
    BY <1>2, <2>1, TInvInitiate, TInvConfirmReads, TInvLocking, TInvResend
       DEF Start
<1>3. ASSUME NEW r \in Actors, Step(r) PROVE TInv'
  BY <1>3, TInvInitiate, TInvConfirmReads, TInvFailures, TInvLocking,
     TInvExecute, TInvResend DEF Step
<1>4. ASSUME NEW w \in Workers, SweepSelect(w) PROVE TInv'
  BY <1>4, TInvEnvironment DEF Actors
<1>5. CASE Environment
  BY <1>5, TInvEnvironment
<1>6. ASSUME NEW r \in Actors, DeadlockAbort(r) \/ Crash(r) PROVE TInv'
  BY <1>6, TInvEnvironment
<1> QED
  BY <1>1, <1>2, <1>3, <1>4, <1>5, <1>6 DEF Next

\* A handler only ever works on a transaction that exists.
THEOREM WorkingRowsInvariant == Spec => []TInv
<1> QED
  BY TInvInit, TInvNext, PTL DEF Spec

\* Every row and every session keeps the shape its table or handler gives it:
\* no balance below zero, no unknown status, no entry of a wrong kind.
THEOREM TypeCorrect == Spec => []TypeOK
<1>1. TInv => TypeOK
  BY DEF TInv
<1> QED
  BY <1>1, WorkingRowsInvariant, PTL

-----------------------------------------------------------------------------
(* The ledger explains the balances.  A session writes balances computed   *)
(* from what it read; this is right because the rows it is about to write  *)
(* are rows it holds, and a row that is held is what its holder read.      *)

Locking(s) == s.pc \in {"lockAccounts", "execute"}

ViewsAreCurrent ==
  \A r \in Actors, a \in Accounts : acctHolder[a] = r =>
    Locking(req[r]) /\ req[r].view[a] = acct[a]

ExecutorsHoldRows ==
  \A r \in Actors : req[r].pc = "execute" =>
    \A a \in AccountsOf(req[r].txn) : acctHolder[a] = r

LInv == TInv /\ ViewsAreCurrent /\ ExecutorsHoldRows /\ LedgerExplainsBalance

\* Nothing changes whom an existing transaction is between.
SidesPersist ==
  \A t \in TxnIds : txn[t].status # "NONE" =>
    txn'[t].sender = txn[t].sender /\ txn'[t].receiver = txn[t].receiver

\* A step that writes no entry and changes no balance keeps the chains.
LEMMA LedgerUnchanged ==
  ASSUME LedgerExplainsBalance, UNCHANGED ledger,
         \A a \in Accounts : acct'[a].balance = acct[a].balance
  PROVE  LedgerExplainsBalance'
BY DEF LedgerExplainsBalance, BalanceBefore

\* A step of session r keeps what is known of the rows the others hold.
LEMMA HoldersStep ==
  ASSUME TInv, ViewsAreCurrent, ExecutorsHoldRows, SidesPersist,
         NEW r \in Actors, OthersKeepTheirState(r),
         \A a \in Accounts, s \in Actors \ {r} :
           /\ acctHolder'[a] = s <=> acctHolder[a] = s
           /\ acctHolder[a] = s => acct'[a] = acct[a],
         \A a \in Accounts : acctHolder'[a] = r =>
           Locking(req'[r]) /\ req'[r].view[a] = acct'[a],
         req'[r].pc = "execute" =>
           \A a \in AccountsOf(req[r].txn)' : acctHolder'[a] = r
  PROVE  ViewsAreCurrent' /\ ExecutorsHoldRows'
<1>1. ViewsAreCurrent'
  <2> SUFFICES ASSUME NEW s \in Actors, NEW a \in Accounts, acctHolder'[a] = s
               PROVE  Locking(req'[s]) /\ req'[s].view[a] = acct'[a]
    BY DEF ViewsAreCurrent, Locking
  <2>1. CASE s = r
    BY <2>1
  <2>2. CASE s # r
    BY <2>2 DEF ViewsAreCurrent, OthersKeepTheirState
  <2> QED
    BY <2>1, <2>2
<1>2. ExecutorsHoldRows'
  <2> SUFFICES ASSUME NEW s \in Actors, req'[s].pc = "execute",
                      NEW a \in AccountsOf(req[s].txn)'
               PROVE  acctHolder'[a] = s
    BY DEF ExecutorsHoldRows
  <2>1. CASE s = r
    BY <2>1
  <2>2. CASE s # r
    <3>1. req'[s] = req[s] /\ req[s].pc = "execute"
      BY <2>2 DEF OthersKeepTheirState
    <3>2. req[s].txn \in TxnIds /\ txn[req[s].txn].status # "NONE"
      BY <3>1 DEF TInv, WorkingRows, Working
    <3>3. AccountsOf(req[s].txn)' = AccountsOf(req[s].txn)
      BY <3>1, <3>2 DEF SidesPersist, AccountsOf
    <3>4. a \in Accounts
      <4>1. txn[req[s].txn] \in Transaction
        BY <3>2 DEF TInv, TypeOK
      <4> QED
        BY <3>3, <4>1 DEF AccountsOf, Transaction
    <3>5. acctHolder[a] = s
      BY <3>1, <3>3 DEF ExecutorsHoldRows
    <3> QED
      BY <2>2, <3>4, <3>5
  <2> QED
    BY <2>1, <2>2
<1> QED
  BY <1>1, <1>2

\* Steps outside the part of a handler that holds accounts rows.
LEMMA LInvMove ==
  ASSUME LInv, TInv', NEW r \in Actors, OthersKeepTheirState(r),
         ~Locking(req[r]), req'[r].pc # "execute",
         UNCHANGED <<acct, txn, ledger, acctHolder>>
  PROVE  LInv'
<1>1. SidesPersist
  BY DEF SidesPersist
<1>2. \A a \in Accounts : acctHolder'[a] # r
  BY DEF LInv, ViewsAreCurrent
<1>3. ViewsAreCurrent' /\ ExecutorsHoldRows'
  BY <1>1, <1>2, HoldersStep DEF LInv
<1> QED
  BY <1>3, LedgerUnchanged DEF LInv

\* Steps that end a handler without moving money.
LEMMA LInvFinish ==
  ASSUME LInv, TInv', NEW r \in Actors, Finish(r), SidesPersist,
         UNCHANGED <<acct, ledger>>,
         Release(r) \/ (UNCHANGED acctHolder /\ ~Locking(req[r]))
  PROVE  LInv'
<1>1. OthersKeepTheirState(r) /\ req'[r].pc # "execute"
  BY DEF LInv, TInv, TypeOK, Finish, IdleSession, OthersKeepTheirState
<1>2. \A a \in Accounts : acctHolder'[a] # r
  <2>1. CASE Release(r)
    BY <2>1, NamesAssumption DEF Release
  <2>2. CASE UNCHANGED acctHolder /\ ~Locking(req[r])
    BY <2>2 DEF LInv, ViewsAreCurrent
  <2> QED
    BY <2>1, <2>2
<1>3. \A a \in Accounts, s \in Actors \ {r} :
        acctHolder'[a] = s <=> acctHolder[a] = s
  BY NamesAssumption DEF Release
<1>4. ViewsAreCurrent' /\ ExecutorsHoldRows'
  BY <1>1, <1>2, <1>3, HoldersStep DEF LInv
<1> QED
  BY <1>4, LedgerUnchanged DEF LInv

\* What LedgerExplainsBalance says of one account.
Explained(a) ==
  /\ \A i \in 1..Len(ledger[a]) :
       /\ ledger[a][i].before = BalanceBefore(a, i)
       /\ ledger[a][i].after =
            IF ledger[a][i].kind = "CREDIT"
            THEN ledger[a][i].before + ledger[a][i].amount
            ELSE ledger[a][i].before - ledger[a][i].amount
  /\ acct[a].balance = BalanceBefore(a, Len(ledger[a]) + 1)

\* LedgerExplainsBalance, one account at a time.
LEMMA LedgerByAccount ==
  LedgerExplainsBalance <=> \A a \in Accounts : Explained(a)
BY DEF LedgerExplainsBalance, Explained

\* Entries computed from the balances as they are continue every chain.
LEMMA PostKeepsLedger ==
  ASSUME TypeOK, LedgerExplainsBalance, NEW m \in MovementType, Post(m),
         \A a \in {m.from, m.to} \ {NoAccount} : m.seen[a] = acct[a]
  PROVE  LedgerExplainsBalance'
<1> SUFFICES ASSUME NEW a \in Accounts
             PROVE  Explained(a)'
  BY DEF LedgerExplainsBalance, Explained
<1>1. ledger[a] \in Seq(Entry) /\ Explained(a)
  BY LedgerByAccount DEF TypeOK
<1>2. CASE a \notin {m.from, m.to}
  <2>1. ledger'[a] = ledger[a] /\ acct'[a] = acct[a]
    BY <1>2 DEF Post
  <2> QED
    BY <1>1, <2>1 DEF Explained, BalanceBefore
<1>3. CASE a \in {m.from, m.to}
  <2>1. PICK e : e = EntryOf(m, a)
    OBVIOUS
  <2>2. PICK n \in Nat : n = Len(ledger[a])
    BY <1>1
  <2>3. /\ ledger'[a] = Append(ledger[a], e)
        /\ acct'[a].balance = BalanceAfter(m, a)
    BY <1>3, <2>1 DEF Post, TypeOK, Account
  <2>4. m.seen[a] = acct[a]
    BY <1>3, NoAccountIsNoAccount
  <2>5. /\ e.before = acct[a].balance
        /\ e.after = BalanceAfter(m, a)
        /\ e.after = IF e.kind = "CREDIT" THEN e.before + e.amount
                                         ELSE e.before - e.amount
    BY <2>1, <2>4 DEF EntryOf, BalanceAfter
  <2>6. /\ Len(ledger'[a]) = n + 1
        /\ \A i \in 1..n : ledger'[a][i] = ledger[a][i]
        /\ ledger'[a][n + 1] = e
    BY <1>1, <2>2, <2>3
  <2>7. ASSUME NEW i \in 1..(n + 1)
        PROVE  BalanceBefore(a, i)' = BalanceBefore(a, i)
    <3>1. i # 1 => i - 1 \in 1..n
      OBVIOUS
    <3> QED
      BY <2>6, <3>1 DEF BalanceBefore
  <2>8. BalanceBefore(a, n + 2)' = e.after
    BY <2>6 DEF BalanceBefore
  <2>9. ASSUME NEW i \in 1..(n + 1)
        PROVE  /\ ledger'[a][i].before = BalanceBefore(a, i)'
               /\ ledger'[a][i].after =
                    IF ledger'[a][i].kind = "CREDIT"
                    THEN ledger'[a][i].before + ledger'[a][i].amount
                    ELSE ledger'[a][i].before - ledger'[a][i].amount
    <3>1. CASE i \in 1..n
      BY <1>1, <2>2, <2>6, <2>7, <3>1 DEF Explained
    <3>2. CASE i = n + 1
      BY <1>1, <2>2, <2>5, <2>6, <2>7, <3>2 DEF Explained
    <3> QED
      BY <3>1, <3>2
  <2>10. acct'[a].balance = BalanceBefore(a, Len(ledger[a]) + 1)'
    <3>1. Len(ledger'[a]) + 1 = n + 2
      BY <2>6
    <3> QED
      BY <2>3, <2>5, <2>8, <3>1
  <2> QED
    BY <2>6, <2>9, <2>10 DEF Explained
<1> QED
  BY <1>2, <1>3

\* Empty ledgers explain the opening balances; no row is held.
LEMMA LInvInit == Init => LInv
<1> SUFFICES ASSUME Init PROVE LInv
  OBVIOUS
<1>1. ViewsAreCurrent
  BY NamesAssumption DEF Init, ViewsAreCurrent
<1>2. ExecutorsHoldRows
  BY DEF Init, ExecutorsHoldRows, IdleSession
<1>3. LedgerExplainsBalance
  <2>1. \A a \in Accounts : ledger[a] = << >> /\ acct[a].balance = Opening[a]
    BY DEF Init
  <2>2. ASSUME NEW a \in Accounts PROVE Len(ledger[a]) = 0
    <3>1. Len(<< >>) = 0
      OBVIOUS
    <3> QED
      BY <2>1, <3>1, Zenon
  <2>3. ASSUME NEW a \in Accounts PROVE Explained(a)
    BY <2>1, <2>2 DEF Explained, BalanceBefore
  <2> QED
    BY <2>3, LedgerByAccount
<1> QED
  BY <1>1, <1>2, <1>3, TInvInit DEF LInv

\* Steps that move money from and to rows which their session holds.
LEMMA LInvPost ==
  ASSUME LInv, TInv', NEW r \in Actors, req[r].pc = "execute",
         NEW m \in MovementType,
         {m.from, m.to} \ {NoAccount} = AccountsOf(req[r].txn),
         m.seen = req[r].view,
         Post(m), SidesPersist, Release(r), Finish(r)
  PROVE  LInv'
<1>1. OthersKeepTheirState(r) /\ req'[r].pc # "execute"
  BY DEF LInv, TInv, TypeOK, Finish, IdleSession, OthersKeepTheirState
<1>2. \A a \in Accounts : acctHolder'[a] # r
  BY NamesAssumption DEF Release
<1>3. \A a \in {m.from, m.to} \ {NoAccount} :
        a \in Accounts /\ acctHolder[a] = r /\ m.seen[a] = acct[a]
  BY DEF LInv, ExecutorsHoldRows, ViewsAreCurrent, MovementType
<1>4. ASSUME NEW a \in Accounts, NEW s \in Actors \ {r}
      PROVE  /\ acctHolder'[a] = s <=> acctHolder[a] = s
             /\ acctHolder[a] = s => acct'[a] = acct[a]
  <2>1. acctHolder'[a] = s <=> acctHolder[a] = s
    BY NamesAssumption DEF Release
  <2>2. ASSUME acctHolder[a] = s PROVE acct'[a] = acct[a]
    <3>1. a \notin {m.from, m.to}
      BY <1>3, <2>2, NoAccountIsNoAccount
    <3> QED
      BY <3>1 DEF Post
  <2> QED
    BY <2>1, <2>2
<1>5. ViewsAreCurrent' /\ ExecutorsHoldRows'
  BY <1>1, <1>2, <1>4, HoldersStep DEF LInv
<1>6. LedgerExplainsBalance'
  BY <1>3, PostKeepsLedger DEF LInv, TInv
<1> QED
  BY <1>5, <1>6 DEF LInv

\* A session writes the accounts of its transaction, from what it read.
LEMMA MovementSides ==
  ASSUME NEW r \in Actors, NEW u
  PROVE  /\ {Movement(r, u).from, Movement(r, u).to} \ {NoAccount}
               = AccountsOf(req[r].txn)
         /\ Movement(r, u).seen = req[r].view
BY DEF Movement, AccountsOf

\* Steps outside the locked part of a handler, and rollbacks, keep LInv.
LEMMA LInvQuiet ==
  ASSUME LInv, TInv', NEW r \in Actors
  PROVE  /\ Start(r) => LInv'
         /\ SweepSelect(r) => LInv'
         /\ Step(r) /\ req[r].pc # "lockAccounts" /\ req[r].pc # "execute" => LInv'
         /\ DeadlockAbort(r) \/ Crash(r) => LInv'
<1>t. req \in [Actors -> Session] /\ txn \in [TxnIds -> Transaction]
  BY DEF LInv, TInv, TypeOK
<1>0. UNCHANGED txn => SidesPersist
  BY DEF SidesPersist
<1>1. ASSUME Start(r) PROVE LInv'
  <2>1. req[r].pc = "idle" /\ UNCHANGED <<acct, txn, ledger, acctHolder>>
    BY <1>1 DEF Start, InitiateValidate, ConfirmBegin, ResendBegin, ReverseBegin
  <2>2. ASSUME NEW s \in Accounts, NEW d \in Accounts, NEW amount \in Amounts,
               InitiateValidate(r, s, d, amount)
        PROVE  OthersKeepTheirState(r) /\ req'[r].pc # "execute"
    BY <1>t, <2>2 DEF InitiateValidate, OthersKeepTheirState, Session
  <2>3. ASSUME NEW t \in TxnIds,
               ConfirmBegin(r, t) \/ ResendBegin(r, t) \/ ReverseBegin(r, t)
        PROVE  OthersKeepTheirState(r) /\ req'[r].pc # "execute"
    BY <1>t, <2>3 DEF ConfirmBegin, ResendBegin, ReverseBegin,
       OthersKeepTheirState, Session
  <2> QED
    BY <1>1, <2>1, <2>2, <2>3, LInvMove DEF Locking, Start
<1>2. ASSUME SweepSelect(r) PROVE LInv'
  <2>1. /\ OthersKeepTheirState(r)
        /\ ~Locking(req[r]) /\ req'[r].pc # "execute"
        /\ UNCHANGED <<acct, txn, ledger, acctHolder>>
    BY <1>2, <1>t DEF SweepSelect, OthersKeepTheirState, Locking
  <2> QED
    BY <2>1, LInvMove
<1>3. ASSUME DeadlockAbort(r) \/ Crash(r) PROVE LInv'
  <2>1. Finish(r) /\ Release(r) /\ UNCHANGED <<acct, txn, ledger>>
    BY <1>3 DEF DeadlockAbort, Crash
  <2> QED
    BY <1>0, <2>1, LInvFinish
<1>4. ASSUME Step(r), ~Locking(req[r]) PROVE LInv'
  <2>1. ASSUME \/ InitiateInsert(r) \/ ConfirmUnusableOtp(r)
               \/ ConfirmWrongCode(r) \/ ConfirmRightCode(r)
               \/ LockTxn(r) \/ ResendReadOtp(r)
        PROVE  LInv'
    <3>1. UNCHANGED <<acct, txn, ledger, acctHolder>>
      BY <2>1 DEF InitiateInsert, ConfirmUnusableOtp, ConfirmWrongCode,
         ConfirmRightCode, LockTxn, ResendReadOtp
    <3>2. ASSUME InitiateInsert(r)
          PROVE  OthersKeepTheirState(r) /\ req'[r].pc # "execute"
      BY <1>t, <3>2 DEF InitiateInsert, OthersKeepTheirState, Session
    <3>3. ASSUME ConfirmUnusableOtp(r)
          PROVE  OthersKeepTheirState(r) /\ req'[r].pc # "execute"
      BY <1>t, <3>3 DEF ConfirmUnusableOtp, OthersKeepTheirState, Session
    <3>4. ASSUME ConfirmWrongCode(r)
          PROVE  OthersKeepTheirState(r) /\ req'[r].pc # "execute"
      BY <1>t, <3>4 DEF ConfirmWrongCode, OthersKeepTheirState, Session
    <3>5. ASSUME ConfirmRightCode(r)
          PROVE  OthersKeepTheirState(r) /\ req'[r].pc # "execute"
      BY <1>t, <3>5 DEF ConfirmRightCode, OthersKeepTheirState, Session
    <3>6. ASSUME LockTxn(r)
          PROVE  OthersKeepTheirState(r) /\ req'[r].pc # "execute"
      BY <1>t, <3>6 DEF LockTxn, OthersKeepTheirState, Session
    <3>7. ASSUME ResendReadOtp(r)
          PROVE  OthersKeepTheirState(r) /\ req'[r].pc # "execute"
      BY <1>t, <3>7 DEF ResendReadOtp, OthersKeepTheirState, Session
    <3> QED
      BY <1>4, <2>1, <3>1, <3>2, <3>3, <3>4, <3>5, <3>6, <3>7, LInvMove
  <2>2. ASSUME \/ InitiateUnstorable(r) \/ RegisterFailedAttempt(r) \/ Reissue(r)
        PROVE  LInv'
    <3>1. Finish(r) /\ UNCHANGED <<acct, txn, ledger, acctHolder>>
      BY <2>2 DEF InitiateUnstorable, RegisterFailedAttempt, Reissue
    <3> QED
      BY <1>0, <1>4, <3>1, LInvFinish
  <2>3. ASSUME InitiateCommit(r) PROVE LInv'
    <3>1. Finish(r) /\ SidesPersist /\ UNCHANGED <<acct, ledger, acctHolder>>
      BY <2>3, <1>t DEF InitiateCommit, SidesPersist
    <3> QED
      BY <1>4, <3>1, LInvFinish
  <2>4. ASSUME ExhaustChallenge(r) PROVE LInv'
    <3>1. /\ Finish(r) /\ UNCHANGED <<acct, ledger, acctHolder>>
          /\ txn' = [txn EXCEPT ![req[r].txn].status = "FAILED"]
      BY <2>4 DEF ExhaustChallenge
    <3>2. SidesPersist
      BY <3>1, <1>t DEF SidesPersist, Transaction
    <3> QED
      BY <1>4, <3>1, <3>2, LInvFinish
  <2>5. ASSUME MarkFailed(r) PROVE LInv'
    <3>1. /\ Finish(r) /\ UNCHANGED <<acct, ledger, acctHolder>>
          /\ txn' = [t \in TxnIds |-> IF t \in req[r].failing
                                      THEN [txn[t] EXCEPT !.status = "FAILED"]
                                      ELSE txn[t]]
      BY <2>5 DEF MarkFailed
    <3>2. SidesPersist
      BY <3>1, <1>t DEF SidesPersist, Transaction
    <3> QED
      BY <1>4, <3>1, <3>2, LInvFinish
  <2>6. ASSUME LockTxnRefused(r) \/ Reload(r) PROVE LInv'
    <3>1. UNCHANGED <<acct, txn, ledger, acctHolder>>
      BY <2>6 DEF LockTxnRefused, Reload
    <3>2. ASSUME LockTxnRefused(r), ~Finish(r)
          PROVE  OthersKeepTheirState(r) /\ req'[r].pc # "execute"
      <4>1. req' = [req EXCEPT ![r].pc = "reload"]
        BY <3>2 DEF LockTxnRefused, AfterRefusal
      <4> QED
        BY <1>t, <4>1 DEF OthersKeepTheirState, Session
    <3>3. ASSUME Reload(r), ~Finish(r)
          PROVE  OthersKeepTheirState(r) /\ req'[r].pc # "execute"
      <4>1. req' = [req EXCEPT ![r].pc = "markFailed",
                               ![r].failing = {req[r].txn}]
        BY <3>3 DEF Reload
      <4> QED
        BY <1>t, <4>1 DEF OthersKeepTheirState, Session
    <3> QED
      BY <1>0, <1>4, <2>6, <3>1, <3>2, <3>3, LInvFinish, LInvMove
  <2> QED
    BY <1>4, <2>1, <2>2, <2>3, <2>4, <2>5, <2>6
       DEF Step, LockAccount, ConfirmExecute, ReverseExecute, ExecuteRefused,
           ExecuteUnstorable, At, Locking
<1> QED
  BY <1>1, <1>2, <1>3, <1>4 DEF Locking

\* Steps between the first account lock and the commit keep LInv.
LEMMA LInvHoldingRows ==
  ASSUME LInv, TInv', NEW r \in Actors
  PROVE  /\ LockAccount(r) => LInv'
         /\ ConfirmExecute(r) => LInv'
         /\ ReverseExecute(r) => LInv'
         /\ ExecuteRefused(r) => LInv'
         /\ ExecuteUnstorable(r) => LInv'
<1>t. /\ req \in [Actors -> Session] /\ txn \in [TxnIds -> Transaction]
      /\ acctHolder \in [Accounts -> Actors \cup {Nobody}]
      /\ acct \in [Accounts -> Account]
  BY DEF LInv, TInv, TypeOK
<1>0. UNCHANGED txn => SidesPersist
  BY DEF SidesPersist
<1>w. Working(req[r]) => req[r].txn \in TxnIds /\ txn[req[r].txn].status # "NONE"
  BY DEF LInv, TInv, WorkingRows
<1>1. ASSUME LockAccount(r) PROVE LInv'
  <2>1. PICK a \in Unlocked(r) :
          /\ AccountFree(a)
          /\ acctHolder' = [acctHolder EXCEPT ![a] = r]
          /\ req' = [req EXCEPT ![r].view[a] = acct[a],
                       ![r].pc = IF Unlocked(r) = {a} THEN "execute" ELSE @]
    BY <1>1 DEF LockAccount
  <2>2. req[r].pc = "lockAccounts" /\ UNCHANGED <<acct, txn, conf, ledger>>
    BY <1>1 DEF LockAccount
  <2>3. a \in Accounts
    <3>1. txn[req[r].txn] \in Transaction
      BY <1>t, <1>w, <2>2 DEF Working
    <3> QED
      BY <3>1 DEF Unlocked, AccountsOf, Transaction
  <2>4. OthersKeepTheirState(r)
    BY <1>t, <2>1 DEF OthersKeepTheirState
  <2>5. /\ req'[r].txn = req[r].txn
        /\ req'[r].pc \in {"lockAccounts", "execute"}
        /\ req'[r].pc = "execute" => Unlocked(r) = {a}
        /\ req'[r].view = [req[r].view EXCEPT ![a] = acct[a]]
    BY <1>t, <2>1, <2>2 DEF Session
  <2>6. ASSUME NEW b \in Accounts, NEW s \in Actors \ {r}
        PROVE  /\ acctHolder'[b] = s <=> acctHolder[b] = s
               /\ acctHolder[b] = s => acct'[b] = acct[b]
    BY <1>t, <2>1, <2>2, <2>3, NamesAssumption DEF AccountFree
  <2>7. ASSUME NEW b \in Accounts, acctHolder'[b] = r
        PROVE  Locking(req'[r]) /\ req'[r].view[b] = acct'[b]
    <3>1. req[r].view \in [Accounts -> Account]
      BY <1>t DEF Session
    <3> QED
      BY <1>t, <2>1, <2>2, <2>3, <2>5, <2>7, <3>1
         DEF LInv, ViewsAreCurrent, Locking
  <2>8. ASSUME req'[r].pc = "execute", NEW b \in AccountsOf(req[r].txn)'
        PROVE  acctHolder'[b] = r
    <3>1. b \in AccountsOf(req[r].txn)
      BY <2>2, <2>5 DEF AccountsOf
    <3>2. b # a => acctHolder[b] = r
      BY <2>5, <2>8, <3>1 DEF Unlocked
    <3>3. b \in Accounts
      BY <1>t, <1>w, <2>2, <3>1 DEF Working, AccountsOf, Transaction
    <3> QED
      BY <1>t, <2>1, <3>2, <3>3
  <2>9. ViewsAreCurrent' /\ ExecutorsHoldRows'
    BY <1>0, <2>2, <2>4, <2>6, <2>7, <2>8, HoldersStep DEF LInv
  <2> QED
    BY <2>2, <2>9, LedgerUnchanged DEF LInv
<1>2. ASSUME ConfirmExecute(r) PROVE LInv'
  <2> DEFINE t == req[r].txn
             m == Movement(r, t)
  <2>1. /\ req[r].pc = "execute" /\ Post(m) /\ Release(r) /\ Finish(r)
        /\ txn' = [txn EXCEPT ![t].status = "SUCCESS", ![t].otpVerified = TRUE]
    BY <1>2 DEF ConfirmExecute, At
  <2>2. m \in MovementType
    BY <1>w, <2>1, MovementOfSession DEF LInv, TInv, Working
  <2>3. SidesPersist
    BY <1>t, <2>1 DEF SidesPersist, Transaction
  <2> QED
    BY <2>1, <2>2, <2>3, MovementSides, LInvPost
<1>3. ASSUME ReverseExecute(r) PROVE LInv'
  <2> DEFINE t == req[r].txn
  <2>1. req[r].pc = "execute" /\ Release(r) /\ Finish(r)
    BY <1>3 DEF ReverseExecute, At
  <2>2. PICK u \in TxnIds :
          /\ txn[u].status = "NONE"
          /\ Post(Movement(r, u))
          /\ \E row : txn' = [txn EXCEPT ![t].status = "REVERSED", ![u] = row]
    BY <1>3 DEF ReverseExecute
  <2>3. Movement(r, u) \in MovementType
    BY <1>w, <2>1, MovementOfSession DEF LInv, TInv, Working
  <2>4. SidesPersist
    BY <1>t, <2>2 DEF SidesPersist, Transaction
  <2> QED
    BY <2>1, <2>2, <2>3, <2>4, MovementSides, LInvPost
<1>4. ASSUME ExecuteRefused(r) PROVE LInv'
  <2>1. Release(r) /\ UNCHANGED <<acct, txn, ledger>>
    BY <1>4 DEF ExecuteRefused
  <2>2. CASE Finish(r)
    BY <1>0, <2>1, <2>2, LInvFinish
  <2>3. CASE req' = [req EXCEPT ![r].pc = "reload"]
    <3>1. OthersKeepTheirState(r) /\ req'[r].pc # "execute"
      BY <1>t, <2>3 DEF OthersKeepTheirState, Session
    <3>2. ASSUME NEW a \in Accounts, NEW s \in Actors \ {r}
          PROVE  acctHolder'[a] # r /\ (acctHolder'[a] = s <=> acctHolder[a] = s)
      BY <2>1, NamesAssumption DEF Release
    <3>3. \A a \in Accounts : acctHolder'[a] # r
      BY <2>1, NamesAssumption DEF Release
    <3>4. ViewsAreCurrent' /\ ExecutorsHoldRows'
      BY <1>0, <2>1, <3>1, <3>2, <3>3, HoldersStep DEF LInv
    <3> QED
      BY <2>1, <3>4, LedgerUnchanged DEF LInv
  <2> QED
    BY <1>4, <2>2, <2>3 DEF ExecuteRefused, AfterRefusal
<1>5. ASSUME ExecuteUnstorable(r) PROVE LInv'
  BY <1>0, <1>5, LInvFinish DEF ExecuteUnstorable
<1> QED
  BY <1>1, <1>2, <1>3, <1>4, <1>5

\* The teller's one-row operations read the row as it is.
LEMMA SingleSidedMovement ==
  ASSUME TInv, NEW a \in Accounts, NEW amount \in Amounts,
         Deposit(a, amount) \/ Withdraw(a, amount)
  PROVE  \E m \in MovementType, type \in {"DEPOSIT", "WITHDRAWAL"} :
           m.seen = acct /\ SingleSided(type, m)
<1>1. PICK t \in TxnIds :
        \/ SingleSided("DEPOSIT", [id |-> t, from |-> NoAccount, to |-> a,
               debit |-> amount, credit |-> amount, seen |-> acct])
        \/ SingleSided("WITHDRAWAL", [id |-> t, from |-> a, to |-> NoAccount,
               debit |-> amount, credit |-> amount, seen |-> acct])
  BY DEF Deposit, Withdraw
<1>2. ASSUME NEW from \in Accounts \cup {NoAccount},
             NEW to \in Accounts \cup {NoAccount}
      PROVE  /\ [id |-> t, from |-> from, to |-> to, debit |-> amount,
                 credit |-> amount, seen |-> acct] \in MovementType
             /\ [id |-> t, from |-> from, to |-> to, debit |-> amount,
                 credit |-> amount, seen |-> acct].seen = acct
  BY MoneyAssumption DEF MovementType, TInv, TypeOK
<1> QED
  BY <1>1, <1>2

\* The teller waits for a free row and reads it as it is; the administrator
\* waits for it as well.
LEMMA LInvEnvironment ==
  ASSUME LInv, TInv', Environment
  PROVE  LInv'
<1>t. /\ acct \in [Accounts -> Account] /\ txn \in [TxnIds -> Transaction]
  BY DEF LInv, TInv, TypeOK
<1>n. ASSUME SidesPersist, UNCHANGED <<acctHolder, req>>,
             \A a \in Accounts : acctHolder[a] # Nobody => acct'[a] = acct[a]
      PROVE  ViewsAreCurrent' /\ ExecutorsHoldRows'
  <2>1. ViewsAreCurrent'
    BY <1>n, NamesAssumption DEF LInv, ViewsAreCurrent, Locking
  <2>2. ASSUME NEW r \in Actors, req[r].pc = "execute"
        PROVE  AccountsOf(req[r].txn)' = AccountsOf(req[r].txn)
    <3>1. req[r].txn \in TxnIds /\ txn[req[r].txn].status # "NONE"
      BY <2>2 DEF LInv, TInv, WorkingRows, Working
    <3> QED
      BY <1>n, <3>1 DEF SidesPersist, AccountsOf
  <2>3. ExecutorsHoldRows'
    BY <1>n, <2>2 DEF LInv, ExecutorsHoldRows
  <2> QED
    BY <2>1, <2>3
<1>1. ASSUME NEW t \in TxnIds, ExpireOtp(t) PROVE LInv'
  <2>1. UNCHANGED <<acct, txn, ledger, acctHolder, req>>
    BY <1>1 DEF ExpireOtp
  <2>2. SidesPersist
    BY <2>1 DEF SidesPersist
  <2> QED
    BY <1>n, <2>1, <2>2, LedgerUnchanged DEF LInv
<1>2. ASSUME NEW a \in Accounts, NEW amount \in Amounts,
             Deposit(a, amount) \/ Withdraw(a, amount)
      PROVE  LInv'
  <2>1. PICK m \in MovementType, type \in {"DEPOSIT", "WITHDRAWAL"} :
          m.seen = acct /\ SingleSided(type, m)
    BY <1>2, SingleSidedMovement DEF LInv
  <2>2. PICK row :
          /\ txn[m.id].status = "NONE" /\ txn' = [txn EXCEPT ![m.id] = row]
          /\ Post(m) /\ UNCHANGED <<acctHolder, req>>
          /\ \A b \in {m.from, m.to} \ {NoAccount} : AccountFree(b)
    BY <2>1 DEF SingleSided
  <2>3. SidesPersist
    BY <1>t, <2>2 DEF SidesPersist
  <2>4. ASSUME NEW b \in Accounts, acctHolder[b] # Nobody
        PROVE  acct'[b] = acct[b]
    <3>1. b \notin {m.from, m.to}
      BY <2>2, <2>4, NoAccountIsNoAccount DEF AccountFree
    <3> QED
      BY <2>2, <3>1 DEF Post
  <2>5. LedgerExplainsBalance'
    BY <2>1, <2>2, PostKeepsLedger DEF LInv, TInv
  <2> QED
    BY <1>n, <2>2, <2>3, <2>4, <2>5 DEF LInv
<1>3. ASSUME NEW a \in Accounts, NEW status \in NewStatuses,
             SetAccountStatus(a, status)
      PROVE  LInv'
  <2>1. /\ acctHolder[a] = Nobody
        /\ acct' = [acct EXCEPT ![a].status = status]
        /\ UNCHANGED <<txn, ledger, acctHolder, req>>
    BY <1>3 DEF SetAccountStatus
  <2>2. \A b \in Accounts : /\ acct'[b].balance = acct[b].balance
                           /\ b # a => acct'[b] = acct[b]
    BY <1>t, <2>1 DEF Account
  <2>3. SidesPersist
    BY <2>1 DEF SidesPersist
  <2> QED
    BY <1>n, <2>1, <2>2, <2>3, LedgerUnchanged DEF LInv
<1> QED
  BY <1>1, <1>2, <1>3 DEF Environment

\* LInv is inductive.
LEMMA LInvNext == LInv /\ [Next]_vars => LInv'
<1> SUFFICES ASSUME LInv, [Next]_vars PROVE LInv'
  OBVIOUS
<1>0. TInv'
  BY TInvNext DEF LInv
<1>1. CASE UNCHANGED vars
  <2>1. ViewsAreCurrent' /\ ExecutorsHoldRows'
    BY <1>1 DEF vars, LInv, ViewsAreCurrent, ExecutorsHoldRows, Locking, AccountsOf
  <2>2. LedgerExplainsBalance'
    BY <1>1, LedgerUnchanged DEF LInv, vars
  <2> QED
    BY <1>0, <2>1, <2>2 DEF LInv
<1>2. ASSUME NEW r \in Requests, Start(r) PROVE LInv'
  BY <1>0, <1>2, LInvQuiet DEF Actors
<1>3. ASSUME NEW r \in Actors, Step(r) PROVE LInv'
  <2>1. CASE Locking(req[r])
    <3>1. \/ LockAccount(r) \/ ConfirmExecute(r) \/ ReverseExecute(r)
          \/ ExecuteRefused(r) \/ ExecuteUnstorable(r)
      BY <1>3, <2>1 DEF Step, Locking, At, InitiateInsert, InitiateCommit,
         InitiateUnstorable, ConfirmUnusableOtp, ConfirmWrongCode,
         ConfirmRightCode, RegisterFailedAttempt, ExhaustChallenge,
         MarkFailed, LockTxn, LockTxnRefused, Reload,
         ResendReadOtp, Reissue
    <3> QED
      BY <1>0, <3>1, LInvHoldingRows
  <2>2. CASE ~Locking(req[r])
    BY <1>0, <1>3, <2>2, LInvQuiet DEF Locking
  <2> QED
    BY <2>1, <2>2
<1>4. ASSUME NEW w \in Workers, SweepSelect(w) PROVE LInv'
  BY <1>0, <1>4, LInvQuiet DEF Actors
<1>5. CASE Environment
  BY <1>0, <1>5, LInvEnvironment
<1>6. ASSUME NEW r \in Actors, DeadlockAbort(r) \/ Crash(r) PROVE LInv'
  BY <1>0, <1>6, LInvQuiet
<1> QED
  BY <1>1, <1>2, <1>3, <1>4, <1>5, <1>6 DEF Next

\* The locking discipline: a row that is held is what its holder read, and a
\* session that is about to write holds every account it will write.
THEOREM LockingDiscipline == Spec => []LInv
<1> QED
  BY LInvInit, LInvNext, PTL DEF Spec

\* Every balance is reconstructable from the ledger alone, for any number of
\* accounts, transactions and concurrent sessions.
THEOREM LedgerIsReconstructable == Spec => []LedgerExplainsBalance
<1>1. LInv => LedgerExplainsBalance
  BY DEF LInv
<1> QED
  BY <1>1, LockingDiscipline, PTL

-----------------------------------------------------------------------------
(* Money moves only on active accounts. *)

MovesAreOnActiveAccounts ==
  \A a \in Accounts :
    acct'[a].balance # acct[a].balance =>
      acct[a].status = "ACTIVE" /\ acct'[a].status = "ACTIVE"

\* A movement permitted on what the rows hold now is on ACTIVE accounts.
LEMMA PermittedPostIsOnActive ==
  ASSUME TypeOK, NEW m \in MovementType, Permitted(m), Post(m),
         \A a \in {m.from, m.to} \ {NoAccount} : m.seen[a] = acct[a]
  PROVE  MovesAreOnActiveAccounts
<1> SUFFICES ASSUME NEW a \in Accounts, acct'[a].balance # acct[a].balance
             PROVE  acct[a].status = "ACTIVE" /\ acct'[a].status = "ACTIVE"
  BY DEF MovesAreOnActiveAccounts
<1>1. a \in {m.from, m.to} \ {NoAccount}
  BY NoAccountIsNoAccount DEF Post
<1>2. acct'[a] = [acct[a] EXCEPT !.balance = BalanceAfter(m, a)]
  BY <1>1 DEF Post
<1>3. acct[a] \in Account
  BY DEF TypeOK
<1> QED
  BY <1>1, <1>2, <1>3 DEF Permitted, Account

\* Under LInv every step moves money on ACTIVE accounts only.
LEMMA StepsMoveOnActive == LInv /\ [Next]_vars => MovesAreOnActiveAccounts
<1> SUFFICES ASSUME LInv, [Next]_vars PROVE MovesAreOnActiveAccounts
  OBVIOUS
<1>t. TypeOK /\ acct \in [Accounts -> Account]
  BY DEF LInv, TInv, TypeOK
<1>u. UNCHANGED acct => MovesAreOnActiveAccounts
  BY DEF MovesAreOnActiveAccounts
<1>m. ASSUME NEW r \in Actors, req[r].pc = "execute", NEW u \in TxnIds,
             Permitted(Movement(r, u)), Post(Movement(r, u))
      PROVE  MovesAreOnActiveAccounts
  <2>1. req[r].txn \in TxnIds
    BY <1>m DEF LInv, TInv, WorkingRows, Working
  <2>2. Movement(r, u) \in MovementType
    BY <1>t, <2>1, MovementOfSession
  <2>3. \A a \in {Movement(r, u).from, Movement(r, u).to} \ {NoAccount} :
          Movement(r, u).seen[a] = acct[a]
    BY <1>m, <2>2, MovementSides
       DEF LInv, ExecutorsHoldRows, ViewsAreCurrent, MovementType
  <2> QED
    BY <1>m, <1>t, <2>2, <2>3, PermittedPostIsOnActive
<1>1. ASSUME NEW r \in Actors, Step(r) PROVE MovesAreOnActiveAccounts
  <2>1. CASE ConfirmExecute(r)
    <3>1. req[r].txn \in TxnIds
      BY <2>1 DEF ConfirmExecute, At, LInv, TInv, WorkingRows, Working
    <3> QED
      BY <1>m, <2>1, <3>1 DEF ConfirmExecute, At
  <2>2. CASE ReverseExecute(r)
    BY <1>m, <2>2 DEF ReverseExecute, At
  <2> QED
    BY <1>1, <1>u, <2>1, <2>2 DEF Step, InitiateInsert, InitiateCommit,
       InitiateUnstorable, ConfirmUnusableOtp, ConfirmWrongCode,
       ConfirmRightCode, RegisterFailedAttempt, ExhaustChallenge,
       MarkFailed, LockTxn, LockTxnRefused, LockAccount,
       ExecuteRefused, ExecuteUnstorable, Reload, ResendReadOtp, Reissue
<1>2. ASSUME NEW a \in Accounts, NEW amount \in Amounts,
             Deposit(a, amount) \/ Withdraw(a, amount)
      PROVE  MovesAreOnActiveAccounts
  <2>1. PICK m \in MovementType, type \in {"DEPOSIT", "WITHDRAWAL"} :
          m.seen = acct /\ SingleSided(type, m)
    BY <1>2, SingleSidedMovement DEF LInv
  <2> QED
    BY <1>t, <2>1, PermittedPostIsOnActive DEF SingleSided
<1>3. ASSUME NEW a \in Accounts, NEW status \in NewStatuses,
             SetAccountStatus(a, status)
      PROVE  MovesAreOnActiveAccounts
  BY <1>3, <1>t DEF SetAccountStatus, MovesAreOnActiveAccounts, Account
<1>4. ASSUME NEW r \in Actors, Start(r) \/ SweepSelect(r) \/ DeadlockAbort(r) \/ Crash(r)
      PROVE  MovesAreOnActiveAccounts
  <2>1. UNCHANGED acct
    BY <1>4 DEF Start, InitiateValidate, ConfirmBegin, ResendBegin, ReverseBegin,
                SweepSelect, DeadlockAbort, Crash
  <2> QED
    BY <2>1, <1>u
<1>5. ASSUME NEW t \in TxnIds, ExpireOtp(t) PROVE MovesAreOnActiveAccounts
  BY <1>5, <1>u DEF ExpireOtp
<1>6. CASE Environment
  BY <1>6, <1>2, <1>3, <1>5 DEF Environment
<1>7. CASE UNCHANGED vars
  BY <1>7, <1>u DEF vars
<1> QED
  BY <1>1, <1>4, <1>6, <1>7 DEF Next, Actors

\* However long ago the accounts were validated, no balance changes unless its
\* account is ACTIVE in the very commit that changes it.
THEOREM ActiveAccountsOnly == Spec => OnlyActiveAccountsMove
<1>1. LInv /\ [Next]_vars => [MovesAreOnActiveAccounts]_vars
  BY StepsMoveOnActive
<1> QED
  BY <1>1, LockingDiscipline, PTL
     DEF Spec, OnlyActiveAccountsMove, MovesAreOnActiveAccounts
=============================================================================
