----------------------------- MODULE Transfers -----------------------------
(***************************************************************************)
(* Money movement in backend/app/modules/transactions: the OTP-confirmed   *)
(* transfer, resend, deposit, withdrawal, admin reversal, the sweep that   *)
(* expires abandoned transfers, and the admin change of an account's       *)
(* status.  An actor is one HTTP request or one Celery task with its own   *)
(* database session.  PostgreSQL runs it READ COMMITTED: an unlocked       *)
(* SELECT sees the last commit, SELECT ... FOR UPDATE and UPDATE wait for  *)
(* the row's lock, and nothing a session writes is visible before its      *)
(* commit.  Hence one action per await at which another session can come   *)
(* in between; a flush and the commit that follows it are one action,      *)
(* enabled when every row it writes is unlocked.                           *)
(***************************************************************************)
EXTENDS Integers, Sequences

CONSTANTS
  Accounts,     \* account ids; numbers, because rows are locked in id order
  TxnIds,       \* transaction ids (bounds the transactions of a behaviour)
  Requests,     \* sessions of the web API
  Workers,      \* sessions of Celery workers
  Currency,     \* the currency of each account
  Opening,      \* balance of each account when the ledger starts
  Amounts,      \* amounts a caller may ask for, in hundredths
  Rates,        \* rates exchange_rates may hold between two currencies
  MaxMoney,     \* largest value of a NUMERIC(18,2) column, in hundredths
  MaxAttempts,  \* transfer_confirmations.max_attempts
  MaxCodes,     \* bound: no resend starts once this many codes were issued
  NewStatuses,  \* statuses an admin sets on an account
  Enabled,      \* the entry points a run exercises
  NoTxn, Nobody

VARIABLES
  acct,         \* accounts rows: balance and status
  txn,          \* transactions rows; status "NONE" for an id not inserted
  conf,         \* transfer_confirmations rows, by transaction; code 0: no row
  ledger,       \* ledger_entries rows of each account in commit order
  txnHolder,    \* the session that holds FOR UPDATE on a transactions row
  acctHolder,   \* the session that holds FOR UPDATE on an accounts row
  req           \* the local state of each session

vars == <<acct, txn, conf, ledger, txnHolder, acctHolder, req>>

NoAccount == -1
Actors == Requests \cup Workers
AccountStatus == {"ACTIVE", "BLOCKED", "CLOSED", "PENDING"}
Rate == [num : Nat \ {0}, den : Nat \ {0}]

ASSUME AccountsAssumption == Accounts \subseteq Nat
ASSUME MoneyAssumption ==
  /\ Opening \in [Accounts -> Nat]
  /\ Amounts \subseteq Nat \ {0}
  /\ Rates \subseteq Rate
  /\ MaxMoney \in Nat
ASSUME BoundsAssumption == MaxAttempts \in Nat \ {0} /\ MaxCodes \in Nat
ASSUME NamesAssumption ==
  /\ NoTxn \notin TxnIds
  /\ Nobody \notin Actors
  /\ NewStatuses \subseteq AccountStatus

-----------------------------------------------------------------------------
(* Rows and session state *)

Account == [balance : Nat, status : AccountStatus]

Transaction ==
  [type : {"NONE", "TRANSFER", "DEPOSIT", "WITHDRAWAL"},
   sender : Accounts \cup {NoAccount}, receiver : Accounts \cup {NoAccount},
   amount : Nat, credit : Nat,
   status : {"NONE", "PENDING", "SUCCESS", "FAILED", "REVERSED"},
   otpVerified : BOOLEAN, reversalOf : TxnIds \cup {NoTxn}]

Confirmation ==
  [code : Nat, attempts : Nat, expired : BOOLEAN, verified : BOOLEAN]

Entry ==
  [txn : TxnIds, kind : {"DEBIT", "CREDIT"}, amount : Nat,
   before : Nat, after : Nat]

Draft ==
  [sender : Accounts \cup {NoAccount}, receiver : Accounts \cup {NoAccount},
   amount : Nat, credit : Nat]

(* txn: the transaction worked on; code: the code that matched; attempts:  *)
(* the counter as read; failing: transactions read as PENDING that the     *)
(* session will write as FAILED; view: account rows as read under lock.    *)
Session ==
  [op : {"none", "initiate", "confirm", "resend", "reverse", "sweep"},
   pc : {"idle", "insert", "insertReceiver", "readOtp", "wrongCode", "reissue",
         "lockTxn", "lockAccounts", "execute", "reload", "markFailed"},
   txn : TxnIds \cup {NoTxn}, code : Nat, attempts : Nat,
   failing : SUBSET TxnIds, draft : Draft, view : [Accounts -> Account]]

NoTransaction ==
  [type |-> "NONE", sender |-> NoAccount, receiver |-> NoAccount,
   amount |-> 0, credit |-> 0, status |-> "NONE", otpVerified |-> FALSE,
   reversalOf |-> NoTxn]

NoConfirmation ==
  [code |-> 0, attempts |-> 0, expired |-> FALSE, verified |-> FALSE]

NoDraft ==
  [sender |-> NoAccount, receiver |-> NoAccount, amount |-> 0, credit |-> 0]

IdleSession ==
  [op |-> "none", pc |-> "idle", txn |-> NoTxn, code |-> 0, attempts |-> 0,
   failing |-> {}, draft |-> NoDraft,
   view |-> [a \in Accounts |-> [balance |-> 0, status |-> "PENDING"]]]

Init ==
  /\ acct = [a \in Accounts |-> [balance |-> Opening[a], status |-> "ACTIVE"]]
  /\ txn = [t \in TxnIds |-> NoTransaction]
  /\ conf = [t \in TxnIds |-> NoConfirmation]
  /\ ledger = [a \in Accounts |-> << >>]
  /\ txnHolder = [t \in TxnIds |-> Nobody]
  /\ acctHolder = [a \in Accounts |-> Nobody]
  /\ req = [r \in Actors |-> IdleSession]

-----------------------------------------------------------------------------
(* Helpers *)

\* (amount * rate).quantize(Decimal("0.01"), ROUND_HALF_UP), in hundredths.
Convert(amount, rate) ==
  (2 * amount * rate.num + rate.den) \div (2 * rate.den)

\* The converted amounts a transfer may be quoted; none when no rate exists.
CreditAmounts(sender, receiver, amount) ==
  IF Currency[sender] = Currency[receiver]
  THEN {amount}
  ELSE {Convert(amount, rate) : rate \in Rates}

At(r, op, pc) == req[r].op = op /\ req[r].pc = pc

Finish(r) == req' = [req EXCEPT ![r] = IdleSession]

\* COMMIT or ROLLBACK gives back every row lock of the session.
Release(r) ==
  /\ txnHolder' = [t \in TxnIds |->
                     IF txnHolder[t] = r THEN Nobody ELSE txnHolder[t]]
  /\ acctHolder' = [a \in Accounts |->
                      IF acctHolder[a] = r THEN Nobody ELSE acctHolder[a]]

\* The INSERT of a transfer checks its foreign keys one after the other: it
\* holds FOR KEY SHARE on the sender's row while it asks for the receiver's.
KeySharers(a) ==
  {r \in Actors : At(r, "initiate", "insertReceiver") /\ req[r].draft.sender = a}

\* Whether FOR UPDATE on an accounts row is granted at once.
AccountFree(a) == acctHolder[a] = Nobody /\ KeySharers(a) = {}

AccountsOf(t) == {txn[t].sender, txn[t].receiver} \ {NoAccount}

HasEntry(t, kind) ==
  \E a \in Accounts : \E i \in DOMAIN ledger[a] :
    ledger[a][i].txn = t /\ ledger[a][i].kind = kind

(* A movement takes "debit" from account "from" and adds "credit" to       *)
(* account "to", either of which may be absent, for transaction "id"; "seen" *)
(* is what the session read of the accounts under their locks.             *)

\* Faulty variant: the account status is not tested again under the lock.
PermittedAnyStatus(m) ==
  m.from # NoAccount => m.seen[m.from].balance >= m.debit

\* The checks the services make on the locked rows; each raises DomainError.
Permitted(m) ==
  /\ \A a \in {m.from, m.to} \ {NoAccount} : m.seen[a].status = "ACTIVE"
  /\ m.from # NoAccount => m.seen[m.from].balance >= m.debit

\* The database's own limits (CHECK amount > 0, CHECK balance >= 0, NUMERIC
\* width, and UNIQUE (transaction_id, entry_type)); breaking one is not a
\* DomainError.
Storable(m) ==
  /\ m.from # NoAccount =>
       /\ m.debit > 0 /\ ~HasEntry(m.id, "DEBIT")
       /\ m.seen[m.from].balance >= m.debit
  /\ m.to # NoAccount =>
       /\ m.credit > 0 /\ ~HasEntry(m.id, "CREDIT")
       /\ m.seen[m.to].balance + m.credit <= MaxMoney

BalanceAfter(m, a) ==
  IF a = m.from THEN m.seen[a].balance - m.debit
                ELSE m.seen[a].balance + m.credit

EntryOf(m, a) ==
  [txn |-> m.id, kind |-> IF a = m.from THEN "DEBIT" ELSE "CREDIT",
   amount |-> IF a = m.from THEN m.debit ELSE m.credit,
   before |-> m.seen[a].balance, after |-> BalanceAfter(m, a)]

\* Writes the new balances and one ledger entry per side.
Post(m) ==
  /\ acct' = [a \in Accounts |->
                IF a \in {m.from, m.to}
                THEN [acct[a] EXCEPT !.balance = BalanceAfter(m, a)]
                ELSE acct[a]]
  /\ ledger' = [a \in Accounts |->
                  IF a \in {m.from, m.to}
                  THEN Append(ledger[a], EntryOf(m, a))
                  ELSE ledger[a]]

-----------------------------------------------------------------------------
(* initiate_transfer: validate on unlocked reads, then insert the PENDING  *)
(* transaction with its OTP challenge.  A failed check changes nothing.    *)

InitiateValidate(r, sender, receiver, amount) ==
  /\ "initiate" \in Enabled
  /\ req[r].pc = "idle"
  /\ acct[sender].status = "ACTIVE"
  /\ receiver # sender
  /\ acct[receiver].status = "ACTIVE"
  /\ acct[sender].balance >= amount
  /\ \E credit \in CreditAmounts(sender, receiver, amount) :
       req' = [req EXCEPT ![r].op = "initiate", ![r].pc = "insert",
                 ![r].draft = [sender |-> sender, receiver |-> receiver,
                               amount |-> amount, credit |-> credit]]
  /\ UNCHANGED <<acct, txn, conf, ledger, txnHolder, acctHolder>>

InitiateInsert(r) ==
  /\ At(r, "initiate", "insert")
  /\ req[r].draft.credit <= MaxMoney
  /\ acctHolder[req[r].draft.sender] = Nobody
  /\ req' = [req EXCEPT ![r].pc = "insertReceiver"]
  /\ UNCHANGED <<acct, txn, conf, ledger, txnHolder, acctHolder>>

InitiateCommit(r) ==
  LET d == req[r].draft IN
  /\ At(r, "initiate", "insertReceiver")
  /\ acctHolder[d.receiver] = Nobody
  /\ \E t \in TxnIds :
       /\ txn[t].status = "NONE"
       /\ txn' = [txn EXCEPT ![t] =
                    [type |-> "TRANSFER", sender |-> d.sender,
                     receiver |-> d.receiver, amount |-> d.amount,
                     credit |-> d.credit, status |-> "PENDING",
                     otpVerified |-> FALSE, reversalOf |-> NoTxn]]
       /\ conf' = [conf EXCEPT ![t] = [NoConfirmation EXCEPT !.code = 1]]
  /\ Finish(r)
  /\ UNCHANGED <<acct, ledger, txnHolder, acctHolder>>

\* A converted amount too large for its column is no DomainError: the request
\* ends and nothing is stored.  Running out of ids (a bound) ends it too.
InitiateUnstorable(r) ==
  /\ \/ At(r, "initiate", "insert") /\ req[r].draft.credit > MaxMoney
     \/ /\ At(r, "initiate", "insertReceiver")
        /\ \A t \in TxnIds : txn[t].status # "NONE"
  /\ Finish(r)
  /\ UNCHANGED <<acct, txn, conf, ledger, txnHolder, acctHolder>>

-----------------------------------------------------------------------------
(* confirm_transfer, up to the comparison of the code: two unlocked reads. *)
(* The caller is the sender's customer; anyone else is told "not found"    *)
(* and nothing changes.                                                    *)

ConfirmBegin(r, t) ==
  /\ "confirm" \in Enabled
  /\ req[r].pc = "idle"
  /\ txn[t].status = "PENDING"
  /\ req' = [req EXCEPT ![r].op = "confirm", ![r].pc = "readOtp",
                        ![r].txn = t]
  /\ UNCHANGED <<acct, txn, conf, ledger, txnHolder, acctHolder>>

OtpUsable(c) == ~c.expired /\ c.attempts < MaxAttempts

ConfirmUnusableOtp(r) ==
  /\ At(r, "confirm", "readOtp")
  /\ ~OtpUsable(conf[req[r].txn])
  /\ req' = [req EXCEPT ![r].pc = "markFailed", ![r].failing = {req[r].txn}]
  /\ UNCHANGED <<acct, txn, conf, ledger, txnHolder, acctHolder>>

ConfirmWrongCode(r) ==
  /\ At(r, "confirm", "readOtp")
  /\ OtpUsable(conf[req[r].txn])
  /\ req' = [req EXCEPT ![r].pc = "wrongCode",
                        ![r].attempts = conf[req[r].txn].attempts]
  /\ UNCHANGED <<acct, txn, conf, ledger, txnHolder, acctHolder>>

ConfirmRightCode(r) ==
  /\ At(r, "confirm", "readOtp")
  /\ OtpUsable(conf[req[r].txn])
  /\ req' = [req EXCEPT ![r].pc = "lockTxn",
                        ![r].code = conf[req[r].txn].code]
  /\ UNCHANGED <<acct, txn, conf, ledger, txnHolder, acctHolder>>

\* Faulty variant: off by one at the last permitted attempt.
OneAttemptTooMany(r) == req[r].attempts + 1 > MaxAttempts

\* attempts_remaining <= 0, from the counter as this session read it.
LastAttempt(r) == req[r].attempts + 1 >= MaxAttempts

\* attempts += 1 on the value read before.
RegisterFailedAttempt(r) ==
  LET t == req[r].txn IN
  /\ At(r, "confirm", "wrongCode")
  /\ ~LastAttempt(r)
  /\ conf' = [conf EXCEPT ![t].attempts = req[r].attempts + 1]
  /\ Finish(r)
  /\ UNCHANGED <<acct, txn, ledger, txnHolder, acctHolder>>

\* The last wrong code also fails the transaction, whatever its status is by
\* now.  The flush updates the transaction first, so it waits before it holds
\* anything.
ExhaustChallenge(r) ==
  LET t == req[r].txn IN
  /\ At(r, "confirm", "wrongCode")
  /\ LastAttempt(r)
  /\ txnHolder[t] = Nobody
  /\ conf' = [conf EXCEPT ![t].attempts = req[r].attempts + 1]
  /\ txn' = [txn EXCEPT ![t].status = "FAILED"]
  /\ Finish(r)
  /\ UNCHANGED <<acct, ledger, txnHolder, acctHolder>>

\* mark_failed and commit: UPDATE by primary key, without a status test.
MarkFailed(r) ==
  /\ req[r].pc = "markFailed"
  /\ \A t \in req[r].failing : txnHolder[t] = Nobody
  /\ txn' = [t \in TxnIds |-> IF t \in req[r].failing
                              THEN [txn[t] EXCEPT !.status = "FAILED"]
                              ELSE txn[t]]
  /\ Finish(r)
  /\ UNCHANGED <<acct, conf, ledger, txnHolder, acctHolder>>

-----------------------------------------------------------------------------
(* _execute_locked_transfer and reverse_transaction: lock the transaction  *)
(* row and test its status again, lock the accounts in id order, test them *)
(* on the locked rows, write everything and commit.                        *)

ReverseBegin(r, t) ==
  /\ "reverse" \in Enabled
  /\ req[r].pc = "idle"
  /\ txn[t].status # "NONE"
  /\ req' = [req EXCEPT ![r].op = "reverse", ![r].pc = "lockTxn",
                        ![r].txn = t]
  /\ UNCHANGED <<acct, txn, conf, ledger, txnHolder, acctHolder>>

Reversals(t) == {u \in TxnIds : txn[u].reversalOf = t}

\* Faulty variants: no second test of the status; the status tested before
\* the lock only, so that another administrator's reversal may have committed
\* by the time the lock is granted.
StillOpenUnchecked(r) == req[r].op = "confirm" \/ Reversals(req[r].txn) = {}

StillOpenBeforeLock(r) ==
  LET t == req[r].txn IN
  \/ req[r].op = "confirm" /\ txn[t].status = "PENDING"
  \/ req[r].op = "reverse" /\ txn[t].status \in {"SUCCESS", "REVERSED"}

\* The test of the transaction row under its lock.
StillOpen(r) ==
  LET t == req[r].txn IN
  \/ req[r].op = "confirm" /\ txn[t].status = "PENDING"
  \/ req[r].op = "reverse" /\ txn[t].status = "SUCCESS" /\ Reversals(t) = {}

LockTxn(r) ==
  /\ req[r].pc = "lockTxn"
  /\ txnHolder[req[r].txn] = Nobody
  /\ StillOpen(r)
  /\ txnHolder' = [txnHolder EXCEPT ![req[r].txn] = r]
  /\ req' = [req EXCEPT ![r].pc = "lockAccounts"]
  /\ UNCHANGED <<acct, txn, conf, ledger, acctHolder>>

\* DomainError under lock: rollback; a confirm goes on to look at the row.
AfterRefusal(r) ==
  IF req[r].op = "confirm"
  THEN req' = [req EXCEPT ![r].pc = "reload"]
  ELSE Finish(r)

LockTxnRefused(r) ==
  /\ req[r].pc = "lockTxn"
  /\ txnHolder[req[r].txn] = Nobody
  /\ ~StillOpen(r)
  /\ AfterRefusal(r)
  /\ UNCHANGED <<acct, txn, conf, ledger, txnHolder, acctHolder>>

\* The account rows the session still has to lock.
Unlocked(r) == {a \in AccountsOf(req[r].txn) : acctHolder[a] # r}

\* Faulty variants: rows locked in any order; rows read without FOR UPDATE.
LockAccountUnordered(r) ==
  /\ req[r].pc = "lockAccounts"
  /\ \E a \in Unlocked(r) :
       /\ AccountFree(a)
       /\ acctHolder' = [acctHolder EXCEPT ![a] = r]
       /\ req' = [req EXCEPT ![r].view[a] = acct[a],
                    ![r].pc = IF Unlocked(r) = {a} THEN "execute" ELSE @]
  /\ UNCHANGED <<acct, txn, conf, ledger, txnHolder>>

ReadAccountsUnlocked(r) ==
  /\ req[r].pc = "lockAccounts"
  /\ req' = [req EXCEPT ![r].view = acct, ![r].pc = "execute"]
  /\ UNCHANGED <<acct, txn, conf, ledger, txnHolder, acctHolder>>

\* ORDER BY id FOR UPDATE, one row at a time, populate_existing=True.
LockAccount(r) ==
  /\ req[r].pc = "lockAccounts"
  /\ \E a \in Unlocked(r) :
       /\ \A b \in Unlocked(r) : a <= b
       /\ AccountFree(a)
       /\ acctHolder' = [acctHolder EXCEPT ![a] = r]
       /\ req' = [req EXCEPT ![r].view[a] = acct[a],
                    ![r].pc = IF Unlocked(r) = {a} THEN "execute" ELSE @]
  /\ UNCHANGED <<acct, txn, conf, ledger, txnHolder>>

\* Faulty variant: the receiver is credited with the amount, unconverted.
MovementUnconverted(r, id) ==
  LET t == txn[req[r].txn] IN
  [id |-> id, debit |-> t.amount, credit |-> t.amount, seen |-> req[r].view,
   from |-> IF req[r].op = "confirm" THEN t.sender ELSE t.receiver,
   to |-> IF req[r].op = "confirm" THEN t.receiver ELSE t.sender]

\* The movement a session at "execute" would make: the transfer itself, or
\* the original amount the opposite way, under a transaction id of its own.
Movement(r, id) ==
  LET t == txn[req[r].txn] IN
  IF req[r].op = "confirm"
  THEN [id |-> id, from |-> t.sender, to |-> t.receiver,
        debit |-> t.amount, credit |-> t.credit, seen |-> req[r].view]
  ELSE [id |-> id, from |-> t.receiver, to |-> t.sender,
        debit |-> t.amount, credit |-> t.amount, seen |-> req[r].view]

\* Faulty variants: the transaction is not marked; the OTP is not marked.
ConfirmExecuteUnmarked(r) ==
  LET m == Movement(r, req[r].txn) IN
  /\ At(r, "confirm", "execute")
  /\ Permitted(m) /\ Storable(m)
  /\ Post(m)
  /\ conf' = [conf EXCEPT ![req[r].txn].verified = TRUE]
  /\ Release(r)
  /\ Finish(r)
  /\ UNCHANGED txn

ConfirmExecuteUnverified(r) ==
  LET t == req[r].txn
      m == Movement(r, t)
  IN
  /\ At(r, "confirm", "execute")
  /\ Permitted(m) /\ Storable(m)
  /\ Post(m)
  /\ txn' = [txn EXCEPT ![t].status = "SUCCESS", ![t].otpVerified = TRUE]
  /\ Release(r)
  /\ Finish(r)
  /\ UNCHANGED conf

ConfirmExecute(r) ==
  LET t == req[r].txn
      m == Movement(r, t)
  IN
  /\ At(r, "confirm", "execute")
  /\ Permitted(m) /\ Storable(m)
  /\ Post(m)
  /\ txn' = [txn EXCEPT ![t].status = "SUCCESS", ![t].otpVerified = TRUE]
  /\ conf' = [conf EXCEPT ![t].verified = TRUE]
  /\ Release(r)
  /\ Finish(r)

\* Faulty variant: a type the table's enum does not have.
ReversalTypeUnknown(type) == "REVERSAL"

\* The type of the transaction that undoes one of type "type".
ReversalType(type) ==
  CASE type = "DEPOSIT" -> "WITHDRAWAL"
    [] type = "WITHDRAWAL" -> "DEPOSIT"
    [] OTHER -> type

ReverseExecute(r) ==
  /\ At(r, "reverse", "execute")
  /\ \E u \in TxnIds :
       LET t == req[r].txn
           m == Movement(r, u)
       IN
       /\ txn[u].status = "NONE"
       /\ Permitted(m) /\ Storable(m)
       /\ Post(m)
       /\ txn' = [txn EXCEPT
                    ![t].status = "REVERSED",
                    ![u] = [type |-> ReversalType(txn[t].type),
                            sender |-> m.from, receiver |-> m.to,
                            amount |-> m.debit, credit |-> m.credit,
                            status |-> "SUCCESS", otpVerified |-> FALSE,
                            reversalOf |-> t]]
  /\ Release(r)
  /\ Finish(r)
  /\ UNCHANGED conf

ExecuteRefused(r) ==
  /\ req[r].pc = "execute"
  /\ ~Permitted(Movement(r, req[r].txn))
  /\ Release(r)
  /\ AfterRefusal(r)
  /\ UNCHANGED <<acct, txn, conf, ledger>>

\* An IntegrityError or DataError at flush is no DomainError: get_db rolls
\* back and the request ends; a transfer stays PENDING.  A reversal that finds
\* no id left (a bound) ends the same way.
ExecuteUnstorable(r) ==
  LET ids == IF req[r].op = "confirm"
             THEN {req[r].txn}
             ELSE {u \in TxnIds : txn[u].status = "NONE"}
  IN
  /\ req[r].pc = "execute"
  /\ Permitted(Movement(r, req[r].txn))
  /\ \A u \in ids : ~Storable(Movement(r, u))
  /\ Release(r)
  /\ Finish(r)
  /\ UNCHANGED <<acct, txn, conf, ledger>>

\* The unlocked read after the rollback decides whether to fail the transfer.
Reload(r) ==
  /\ At(r, "confirm", "reload")
  /\ IF txn[req[r].txn].status = "PENDING"
     THEN req' = [req EXCEPT ![r].pc = "markFailed",
                             ![r].failing = {req[r].txn}]
     ELSE Finish(r)
  /\ UNCHANGED <<acct, txn, conf, ledger, txnHolder, acctHolder>>

-----------------------------------------------------------------------------
(* resend_otp: two unlocked reads, then one UPDATE of the challenge.       *)

ResendBegin(r, t) ==
  /\ "resend" \in Enabled
  /\ req[r].pc = "idle"
  /\ txn[t].status = "PENDING"
  /\ conf[t].code < MaxCodes
  /\ req' = [req EXCEPT ![r].op = "resend", ![r].pc = "readOtp",
                        ![r].txn = t]
  /\ UNCHANGED <<acct, txn, conf, ledger, txnHolder, acctHolder>>

ResendReadOtp(r) ==
  /\ At(r, "resend", "readOtp")
  /\ req' = [req EXCEPT ![r].pc = "reissue",
                        ![r].attempts = conf[req[r].txn].attempts]
  /\ UNCHANGED <<acct, txn, conf, ledger, txnHolder, acctHolder>>

\* The ORM writes only columns that differ from what it read: an attempts
\* counter read as 0 is not part of the UPDATE.
Reissue(r) ==
  LET t == req[r].txn IN
  /\ At(r, "resend", "reissue")
  /\ conf' = [conf EXCEPT ![t].code = @ + 1, ![t].expired = FALSE,
                ![t].attempts = IF req[r].attempts = 0 THEN @ ELSE 0]
  /\ Finish(r)
  /\ UNCHANGED <<acct, txn, ledger, txnHolder, acctHolder>>

-----------------------------------------------------------------------------
(* The clock, the sweep, the teller and the administrator.                 *)

ExpireOtp(t) ==
  /\ "expire" \in Enabled
  /\ conf[t].code # 0 /\ ~conf[t].expired
  /\ conf' = [conf EXCEPT ![t].expired = TRUE]
  /\ UNCHANGED <<acct, txn, ledger, txnHolder, acctHolder, req>>

\* Faulty variant: the sweep skips transfers nobody tried to confirm.
StaleTriedTransactions ==
  {t \in TxnIds : /\ txn[t].status = "PENDING" /\ conf[t].expired
                  /\ conf[t].attempts > 0}

StaleTransactions ==
  {t \in TxnIds : txn[t].status = "PENDING" /\ conf[t].expired}

\* The sweep's SELECT; MarkFailed writes what it found.
SweepSelect(w) ==
  /\ req[w].pc = "idle"
  /\ StaleTransactions # {}
  /\ req' = [req EXCEPT ![w].op = "sweep", ![w].pc = "markFailed",
                        ![w].failing = StaleTransactions]
  /\ UNCHANGED <<acct, txn, conf, ledger, txnHolder, acctHolder>>

\* deposit and withdraw take one row lock, so they are one action each,
\* enabled when the lock is free; a failed check changes nothing.
SingleSided(type, m) ==
  /\ txn[m.id].status = "NONE"
  /\ \A a \in {m.from, m.to} \ {NoAccount} : AccountFree(a)
  /\ Permitted(m) /\ Storable(m)
  /\ Post(m)
  /\ txn' = [txn EXCEPT ![m.id] =
               [type |-> type, sender |-> m.from, receiver |-> m.to,
                amount |-> m.debit, credit |-> m.credit, status |-> "SUCCESS",
                otpVerified |-> FALSE, reversalOf |-> NoTxn]]
  /\ UNCHANGED <<conf, txnHolder, acctHolder, req>>

Deposit(a, amount) ==
  /\ "deposit" \in Enabled
  /\ \E t \in TxnIds :
       SingleSided("DEPOSIT", [id |-> t, from |-> NoAccount, to |-> a,
                     debit |-> amount, credit |-> amount, seen |-> acct])

Withdraw(a, amount) ==
  /\ "withdraw" \in Enabled
  /\ \E t \in TxnIds :
       SingleSided("WITHDRAWAL", [id |-> t, from |-> a, to |-> NoAccount,
                     debit |-> amount, credit |-> amount, seen |-> acct])

\* update_account_status: its UPDATE waits for FOR UPDATE on the row, not for
\* FOR KEY SHARE; any status may follow any other.
SetAccountStatus(a, status) ==
  /\ acctHolder[a] = Nobody
  /\ acct[a].status # status
  /\ acct' = [acct EXCEPT ![a].status = status]
  /\ UNCHANGED <<txn, conf, ledger, txnHolder, acctHolder, req>>

\* A session that dies (process killed, connection lost) is rolled back.
Crash(r) ==
  /\ "crash" \in Enabled
  /\ req[r].pc # "idle"
  /\ Release(r)
  /\ Finish(r)
  /\ UNCHANGED <<acct, txn, conf, ledger>>

\* Whom a session that holds a row lock waits for.
Blockers(r) ==
  LET s == req[r]
      wanted == {a \in Unlocked(r) : \A b \in Unlocked(r) : a <= b}
      sessions ==
        CASE s.pc = "insertReceiver" -> {acctHolder[s.draft.receiver]}
          [] s.pc = "lockAccounts" ->
               UNION {{acctHolder[a]} \cup KeySharers(a) : a \in wanted}
          [] OTHER -> {}
  IN sessions \ {Nobody}

\* Every session of S waits for another one of S.
Deadlocked(S) == S # {} /\ \A r \in S : Blockers(r) \cap S # {}

\* PostgreSQL's deadlock detector aborts one session of a cycle; the error is
\* no DomainError, so the request ends.
DeadlockAbort(r) ==
  /\ \E S \in SUBSET Actors :
       /\ r \in S /\ Deadlocked(S)
       /\ \A Q \in SUBSET S : Deadlocked(Q) => Q = S
  /\ Release(r)
  /\ Finish(r)
  /\ UNCHANGED <<acct, txn, conf, ledger>>

-----------------------------------------------------------------------------
\* What a session does on its own once it has been started.
Step(r) ==
  \/ InitiateInsert(r) \/ InitiateCommit(r) \/ InitiateUnstorable(r)
  \/ ConfirmUnusableOtp(r) \/ ConfirmWrongCode(r) \/ ConfirmRightCode(r)
  \/ RegisterFailedAttempt(r) \/ ExhaustChallenge(r)
  \/ MarkFailed(r)
  \/ LockTxn(r) \/ LockTxnRefused(r) \/ LockAccount(r)
  \/ ConfirmExecute(r) \/ ReverseExecute(r)
  \/ ExecuteRefused(r) \/ ExecuteUnstorable(r) \/ Reload(r)
  \/ ResendReadOtp(r) \/ Reissue(r)

Start(r) ==
  \/ \E s, d \in Accounts, amount \in Amounts : InitiateValidate(r, s, d, amount)
  \/ \E t \in TxnIds : ConfirmBegin(r, t) \/ ResendBegin(r, t) \/ ReverseBegin(r, t)

Environment ==
  \/ \E t \in TxnIds : ExpireOtp(t)
  \/ \E a \in Accounts, amount \in Amounts : Deposit(a, amount) \/ Withdraw(a, amount)
  \/ \E a \in Accounts, status \in NewStatuses : SetAccountStatus(a, status)

Next ==
  \/ \E r \in Requests : Start(r)
  \/ \E w \in Workers : SweepSelect(w)
  \/ \E r \in Actors : Step(r) \/ DeadlockAbort(r) \/ Crash(r)
  \/ Environment

Spec == Init /\ [][Next]_vars

\* PostgreSQL queues the waiters of a row lock, so a session that waits for one
\* is not overtaken for ever (strong fairness), and it resolves deadlocks; Celery
\* beat starts a sweep every minute; the clock does not stop.  Clients owe
\* nothing.
FairSpec ==
  /\ Spec
  /\ \A r \in Actors : SF_vars(Step(r)) /\ WF_vars(DeadlockAbort(r))
  /\ \A w \in Workers : WF_vars(SweepSelect(w))
  /\ \A t \in TxnIds : WF_vars(ExpireOtp(t))

-----------------------------------------------------------------------------
(* Properties *)

\* Every row and every session has the shape its table or handler gives it.
TypeOK ==
  /\ acct \in [Accounts -> Account]
  /\ txn \in [TxnIds -> Transaction]
  /\ conf \in [TxnIds -> Confirmation]
  /\ ledger \in [Accounts -> Seq(Entry)]
  /\ txnHolder \in [TxnIds -> Actors \cup {Nobody}]
  /\ acctHolder \in [Accounts -> Actors \cup {Nobody}]
  /\ req \in [Actors -> Session]

\* "Every balance change is reconstructable from this table alone": each
\* account's entries form a chain from its opening balance to the balance in
\* its row, however the sessions that wrote them interleaved.
BalanceBefore(a, i) ==
  IF i = 1 THEN Opening[a] ELSE ledger[a][i - 1].after

LedgerExplainsBalance ==
  \A a \in Accounts :
    /\ \A i \in 1..Len(ledger[a]) :
         LET e == ledger[a][i] IN
         /\ e.before = BalanceBefore(a, i)
         /\ e.after = IF e.kind = "CREDIT" THEN e.before + e.amount
                                           ELSE e.before - e.amount
    /\ acct[a].balance = BalanceBefore(a, Len(ledger[a]) + 1)

\* Double entry: whatever requests race for a transaction, money moves for it
\* at most once and never by halves: at most one entry of a kind, on the right
\* account and for the right amount, none while it is PENDING, both sides or
\* none, and all of them once it is SUCCESS or REVERSED.
EntriesMatchTransaction ==
  /\ \A a \in Accounts : \A i \in 1..Len(ledger[a]) :
       LET e == ledger[a][i] IN
       /\ txn[e.txn].status \notin {"NONE", "PENDING"}
       /\ IF e.kind = "DEBIT"
          THEN a = txn[e.txn].sender /\ e.amount = txn[e.txn].amount
          ELSE a = txn[e.txn].receiver /\ e.amount = txn[e.txn].credit
       /\ \A j \in 1..Len(ledger[a]) :
            ledger[a][j].txn = e.txn /\ ledger[a][j].kind = e.kind => i = j
  /\ \A t \in TxnIds :
       LET sides == {kind \in {"DEBIT", "CREDIT"} :
                       IF kind = "DEBIT" THEN txn[t].sender # NoAccount
                                         ELSE txn[t].receiver # NoAccount}
       IN \/ \A kind \in sides : HasEntry(t, kind)
          \/ /\ \A kind \in sides : ~HasEntry(t, kind)
             /\ txn[t].status \in {"NONE", "PENDING", "FAILED"}

\* The row locks and the second test under them do the work: a session that
\* is about to write never needs UNIQUE (transaction_id, entry_type) to stop
\* a second execution, nor does it hold a reading of an account that another
\* session has made stale.
ExecutorsAreCurrent ==
  \A r \in Actors : req[r].pc = "execute" =>
    /\ \A a \in AccountsOf(req[r].txn) : req[r].view[a] = acct[a]
    /\ req[r].op = "confirm" =>
         ~HasEntry(req[r].txn, "DEBIT") /\ ~HasEntry(req[r].txn, "CREDIT")

\* At most one reversal exists for a transaction, also when two administrators
\* race for it or a sweep overwrites its status, and it undoes a movement that
\* really happened.
ReversalsAreUnique ==
  \A t \in TxnIds : \A u \in Reversals(t) :
    /\ Reversals(t) = {u}
    /\ HasEntry(t, "DEBIT") \/ HasEntry(t, "CREDIT")
    /\ txn[t].status \in {"REVERSED", "FAILED"}

\* Money only moves on accounts that are ACTIVE at the commit that moves it,
\* although they were checked long before by unlocked reads.
OnlyActiveAccountsMove ==
  [][\A a \in Accounts :
       acct'[a].balance # acct[a].balance =>
         acct[a].status = "ACTIVE" /\ acct'[a].status = "ACTIVE"]_vars

\* No race brings a FAILED or REVERSED transaction back to life, and none
\* posts an entry for it.
ResolvedStaysResolved ==
  [][\A t \in TxnIds : txn[t].status \in {"FAILED", "REVERSED"} =>
       /\ txn'[t].status \in {"FAILED", "REVERSED"}
       /\ \A kind \in {"DEBIT", "CREDIT"} : HasEntry(t, kind)' = HasEntry(t, kind)]_vars

\* The last wrong code fails the transfer in the commit that counts it, so an
\* exhausted challenge never belongs to a transfer that can still be executed,
\* nor, other than the docstring of resend_otp has it, be given a new code.
ExhaustedIsFailed ==
  \A t \in TxnIds :
    conf[t].attempts >= MaxAttempts => txn[t].status = "FAILED"

\* A customer's transfer moved money exactly if its OTP is recorded as
\* verified, on the transaction and on the challenge alike.
MovedMeansVerified ==
  \A t \in TxnIds : txn[t].type = "TRANSFER" /\ txn[t].reversalOf = NoTxn =>
    /\ HasEntry(t, "DEBIT") <=> txn[t].otpVerified
    /\ HasEntry(t, "DEBIT") <=> conf[t].verified

\* The abstract promise: whatever sessions race, fail or die, each order moves
\* its money in one step, at most once, from current balances, and a reversal
\* moves the same money back.
Orders ==
  [t \in TxnIds |->
     IF txn[t].status = "NONE" THEN NoTxn
     ELSE [from |-> txn[t].sender, to |-> txn[t].receiver,
           out |-> txn[t].amount, in |-> txn[t].credit]]

TheBank == INSTANCE Bank WITH
  Ids <- TxnIds, Nowhere <- NoAccount, NoOrder <- NoTxn,
  balance <- [a \in Accounts |-> acct[a].balance],
  order <- Orders,
  settled <- {t \in TxnIds : HasEntry(t, "DEBIT") \/ HasEntry(t, "CREDIT")},
  undoneBy <- [t \in TxnIds |-> Reversals(t)]

ImplementsBank == TheBank!BankSpec

\* Locking rows in id order does its work: confirmations that execute and
\* reversals never wait for each other in a circle.  Every circle needs an
\* INSERT, which asks for the sender first and then for the receiver.
ExecutorsNeverDeadlock ==
  \A S \in SUBSET Actors : Deadlocked(S) =>
    \E r \in S : At(r, "initiate", "insertReceiver")

\* "A transaction the customer simply abandons would otherwise stay PENDING
\* forever": the sweep or a confirmation resolves every transfer.
PendingIsResolved ==
  \A t \in TxnIds : txn[t].status = "PENDING" ~> txn[t].status # "PENDING"

(* What comments in the code promise and the code does not keep.           *)

\* "never overwrite an already-SUCCESS/FAILED row" (service.py): a
\* transaction that succeeded is only ever reversed.
SuccessIsNeverOverwritten ==
  [][\A t \in TxnIds : txn[t].status \in {"SUCCESS", "REVERSED"} =>
       txn'[t].status \in {"SUCCESS", "REVERSED"}]_vars
=============================================================================
