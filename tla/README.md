# Verification of the online banking system

TLA+ models of the backend (`src/backend/app`, FastAPI, SQLAlchemy, PostgreSQL,
Celery, Redis), the TLC runs that check them on small instances, and TLAPS
proofs of theorems about them for every value of their constants. Paths below
are relative to `src/`; `transactions/service.py` stands for
`backend/app/modules/transactions/service.py`, and so on.

```
tlc -workers 2 -config money.cfg MCTransfers     # a run
tlc -workers 2 -config dispatch.cfg MCAfterCommit
tlapm TransfersProofs.tla                        # the proofs of a module
```

Every run and the module it belongs to is in the table of section 3.

## 1. The system

Requests and Celery tasks are the only actors. Each has one database session
(`db/session.py`); sessions share nothing but PostgreSQL (READ COMMITTED) and
Redis. `get_db` rolls back when a handler raises. The session factory sets
`expire_on_commit=False` and `autoflush=False`: a handler keeps working on the
objects it has read until it re-reads them, and nothing it writes reaches the
database before a flush or a commit.

| component | state | operations | interacts with |
|---|---|---|---|
| Transactions (`transactions/`) | `transactions`, `transfer_confirmations` | initiate, resend, confirm, deposit, withdraw, reverse, scheduled execution | locks and updates accounts, appends ledger entries; queues audit and notification tasks after the commit |
| Accounts (`accounts/`) | `accounts`: balance, status | open (admin), change status (admin), lock one, lock two in id order, statement | read and written by Transactions, Cards, Admin |
| Ledger entries (`ledger_entries/`) | append-only `ledger_entries`, UNIQUE (transaction, kind) | create, list | written in the commit of the balance it explains |
| Expiry sweep (`background_tasks/tasks.py`) | none | every minute: select PENDING transactions with an expired code, mark them FAILED | races with confirm and resend |
| Scheduled payments (`scheduled_payments/`, `tasks.py`) | `scheduled_payments`: status, next_run_at, failure count | create, cancel, sweep of due ones every five minutes | executes transfers through Transactions, then advances the schedule in a second commit |
| Cards (`cards/`) | `cards`: status | block, pay; admin create, block, delete | debits one account |
| Exchange rates | `exchange_rates`: one active rate per pair | replace (admin), read at initiation | fixes the converted amount of a transfer |
| Authentication (`auth/`, `core/security.py`) | users, refresh tokens, registration confirmations, TOTP secret | register, confirm, resend, login, second factor, refresh, logout, change password, reset password, enrol and leave 2FA | stateless access, challenge and reset tokens; the frontend; e-mail and SMS tasks |
| Customers, users, beneficiaries (`customers/`, `users/`, `beneficiaries/`, `admin/`) | rows with `deleted_at` | create, update, soft delete, restore, change status | a deleted customer is not found by customer-scoped handlers and by the sweep; accounts and cards stay as they are |
| Rate limiter (`core/rate_limiter.py`, `core/middleware.py`, `main.py`) | counters in Redis or hits in each worker's memory; the table of rules | check a request | every request; lets it through when Redis fails |
| Audit log, notifications (`audit_logs/`, `tasks.py`, `celery_app.py`) | append-only rows; messages in Redis | queued after the commit, written or sent by a worker | late acknowledgement and redelivery |
| Web frontend (`frontend/src/api/client.ts`, `lib/apiClient.ts`, `context/AuthContext.tsx`, the pages over them) | the access token in memory, the refresh token in a cookie all tabs share | bootstrap at load, one refresh for the concurrent 401s of a page, login, logout, a new password from the profile page or from the link in a mail | Authentication |
| Configuration, logging, metrics, e-mail, SMS | none | I/O | everything |

What is hard here:

* **Interleaving.** Every handler reads without a lock, awaits, and writes
  later. Only executions lock (`SELECT ... FOR UPDATE`); the branches that mark
  a transaction FAILED, the resend and the attempts counter do not.
* **Locks.** An execution locks the transaction row, then its accounts in id
  order. An INSERT into `transactions` locks the accounts too
  (`FOR KEY SHARE`, for its foreign keys), in the order of the constraints.
* **Uniqueness and counters.** Sign-up, the attempts of a code, refresh tokens and
  TOTP secrets are read, decided on and written without a lock: what holds them
  together is a UNIQUE constraint, the columns the ORM does not write, or nothing.
* **Failure.** A `DomainError` under lock is rolled back, then the status is
  read again and FAILED is written in a second transaction. A database error is
  no `DomainError` and ends the request. A process may die anywhere, also between
  the two commits of a registration or of a scheduled payment, and between a
  commit and the tasks that report it. A response or a request may be lost.
* **Timeouts and retries.** Codes expire, are reissued, run out of attempts; the
  sweep competes with late confirmations; Celery redelivers tasks that were not
  acknowledged; pages of one browser refresh at the same time.
* **Boundaries.** Converted amounts are rounded to two digits and may become
  0.00 or too wide for NUMERIC(18,2); the last attempt of a code.

What makes each component correct: balances are explained by the ledger, money
moves at most once per transaction and never by halves, a reversal undoes one
movement once, every transfer is resolved in the end (Transactions, Accounts,
Ledger, sweep); each due occurrence is paid at most once and one bad schedule
does not stop the others (Scheduled payments); a card payment never passes a
committed block, and charges a balance that is still current (Cards); an identity
has one user, a user is verified by its own code, wrong codes are counted
(Registration); a session has one live refresh token, none outlives a new
password (but for overlaps that section 4 names), 2FA is on only with a proven secret (Sessions); a counter always
expires and no window admits more than twice the limit (Rate limiter); what is
committed is reported, and what is sent is worked off (Audit, notifications); a
refresh in flight does not log the user out (Frontend). `PROJECT.json` lists the
hazards at their lines with the properties that watch them.

## 2. Modules

| module | what it is |
|---|---|
| `Transfers` | money movement as it is implemented: sessions, row locks, challenges, sweep |
| `Bank` | what it promises: orders carried out at most once, in one step |
| `MCTransfers` | instances for TLC |
| `TransfersProofs` | theorems about `Transfers`: types, row locks, the ledger |
| `ExecutionProofs` | further theorems: each transaction executed once, resolved once, without deadlock; that `Transfers` implements `Bank` |
| `ScheduledPayments` | schedules, the sweep that executes them, and what interferes |
| `MCScheduledPayments` | instances for TLC |
| `ScheduledPaymentsProofs` | theorems about `ScheduledPayments` |
| `Registration` | sign-up: registration in two commits, its code, resend, creation by an admin |
| `MCRegistration` | instance for TLC |
| `Sessions` | login, rotation and reuse of refresh tokens, logout, change and reset of the password, 2FA |
| `Identity` | `Registration` and `Sessions` on the same users rows |
| `MCIdentity`, `IdentityProofs` | instance for TLC; theorems about `Registration`, `Sessions` and `Identity` |
| `Browser` | the frontend's tabs, the cookie and the network over the handlers of `Sessions` |
| `MCBrowser`, `BrowserProofs` | instance for TLC; theorems |
| `Cards` | card payments against deposits, blocking, removal and account status |
| `MCCards`, `CardsProofs` | instance for TLC; theorems |
| `RateLimiter` | the limiter's two backends, its table of rules, the clock |
| `MCRateLimiter`, `RateLimiterProofs` | instance for TLC; theorems |
| `AfterCommit` | audit and notification tasks between a commit and their effect |
| `MCAfterCommit`, `AfterCommitProofs` | instance for TLC; theorems |

Composition: `Identity` extends `Registration` and instantiates `Sessions` with the
users that exist and those that are verified; `Browser` instantiates `Sessions` with
one verified user and lets HTTP requests run its handlers step by step;
`Transfers` is shown to implement `Bank`. The definitions of `Sessions` are thus
checked twice, under two environments.

### Transfers

State. `acct`, `txn`, `conf` are the rows of `accounts`, `transactions` and
`transfer_confirmations` as last committed; `ledger[a]` the entries of account
`a` in commit order; `txnHolder`, `acctHolder` the sessions that hold a row
`FOR UPDATE`; `req[r]` the local variables of session `r`: where it is (`pc`),
the transaction it works on, the code it compared, the attempts it read, the
rows it will mark FAILED, the account rows as it read them under lock (`view`).

Steps. One action per await at which another session can come in between. A
flush and the commit after it are one action, enabled when every row it writes
is unlocked. The reductions this rests on:

* a session that waits for a row while it holds another must be visible, or
  deadlocks would be lost: the locks of an execution (`LockTxn`, `LockAccount`)
  and of an INSERT (`InitiateInsert`, `InitiateCommit`) are steps of their own;
* `MarkFailed` writes several rows at once: the unit of work sends the UPDATEs in
  primary-key order, so sweeps never wait for each other in a circle, and nobody
  who holds a transactions row waits for a sweep;
* `ExhaustChallenge` writes the transaction and its challenge at once: the
  flush sends the UPDATE of `transactions` first, so it waits with empty hands;
* `deposit` and `withdraw` lock one row and wait for nothing else: one action.

| code | actions |
|---|---|
| `initiate_transfer` | `InitiateValidate`, `InitiateInsert`, `InitiateCommit`, `InitiateUnstorable` |
| `confirm_transfer` up to the comparison | `ConfirmBegin`, `ConfirmUnusableOtp`, `ConfirmWrongCode`, `ConfirmRightCode`, `RegisterFailedAttempt`, `ExhaustChallenge`, `MarkFailed` |
| `_execute_locked_transfer` | `LockTxn`, `LockTxnRefused`, `LockAccount`, `ConfirmExecute`, `ExecuteRefused`, `ExecuteUnstorable`, `Reload`, `MarkFailed` |
| `reverse_transaction` | `ReverseBegin`, `LockTxn`, `LockTxnRefused`, `LockAccount`, `ReverseExecute`, `ExecuteRefused`, `ExecuteUnstorable` |
| `resend_otp` | `ResendBegin`, `ResendReadOtp`, `Reissue` |
| `_expire_stale_transactions_async` | `SweepSelect`, `MarkFailed` |
| `deposit`, `withdraw` | `Deposit`, `Withdraw` |
| `update_account_status` | `SetAccountStatus` |
| the clock, PostgreSQL, the process | `ExpireOtp`, `DeadlockAbort`, `Crash` |

Data. Amounts are natural numbers of hundredths and keep the column's width
(`MaxMoney`); conversion is the code's ROUND_HALF_UP. A code is the number of
times one was issued. Time is one bit per challenge. Who calls is left out: the
ownership test ends the request without a change. Account numbers, references,
descriptions, hashes and messages are left out. A request that fails a check
without having changed or locked anything is not a step.

`Faulty variant` operators (`OneAttemptTooMany`, `ReadAccountsUnlocked`, ...)
are no part of the specification. Each is what a definition would be with a
plausible mistake in the code, and shows that a property would notice it.

### Bank and the refinement

`Bank` has four variables: balances, accepted orders, the settled ones, and who
undid whom. `Transfers!TheBank` maps a transactions row to an order, the
existence of an entry to "settled", and `reversal_of` to "undone by".
`ImplementsBank` says that each step of `Transfers` is then one step of `Bank` or
none: an order is settled in one step, at most once, from the current balance
and exactly as accepted, and a reversal returns exactly what the original moved.

### ScheduledPayments

State. `schedule` are the rows of `scheduled_payments` (active, first run, next
run, whether the last result was a failure), `deleted`, `open` and `balance` what
the sweep reads of customers and accounts, `paid[s]` the number of SUCCESS
transactions made for `s`, `sweep[w]` the local variables of a sweep: the list,
the `next_run_at` of each listed row object, the schedule in hand.

| code | actions |
|---|---|
| `ScheduledPaymentService.create`, `cancel` | `Create`, `Cancel` |
| `list_due` and the loop of `_execute_scheduled_payments_async` | `Begin`, `Take` |
| `execute_scheduled_transfer` | `Take` (validation), `Insert`, `Pay`, `PayAborted` |
| `record_success`, `record_failure` and their commits | `RecordSuccess`, `RecordFailure` |
| process, database, broker | `Interrupt` |
| other handlers | `Spend`, `Block`, `DeleteCustomer` |

The uncommitted INSERT holds FOR KEY SHARE on both accounts, so between `Insert`
and `Pay` no balance changes but a status can. Execution under lock is one
action: two sweeps that share an account after `Insert` deadlock in any case (each
needs FOR UPDATE on a row the other shares) and the victim ends by `Interrupt`; two
that share none do not wait for each other. A sweep whose second FOR UPDATE waits for a
customer's execution is the deadlock of `Transfers`. `Poisoned` are schedules
whose transfer the database rejects at flush. Validation reads current rows: the
session's identity map holds rows weakly, and of those a sweep keeps only the
schedules. Currencies and rates only decide whether a transfer is refused, which
an account that is not ACTIVE does as well. Money only leaves accounts here
(`Spend`) and blocked accounts stay blocked (`Block`), which makes
`DueIsHandled` independent of an environment that changes its mind for ever.

### Registration

State. `user` are the users and customers rows of a registration, `confirmation`
the code rows; a code is the number of times one was issued. `told` are the users
whose id went out in an answer: only they can be confirmed or resent to. `client[r]`
is what a session has read and where it is. Ghosts: `lost` (cut off between the first
commit and the answer), `guesses` (wrong codes tried against the current code), `raced` (users
whose code row was written by a session that had read an older version of it).

| code | actions |
|---|---|
| `register`: checks, insert and first commit; first code and second commit; its dispatch and the answer | `Register`, `InsertUser`; `IssueFirstCode`; `AnswerRegistration` |
| `AdminService.create_customer` | `CreateCustomer`, `InsertUser` |
| `confirm_registration` | `ConfirmRegistration`, `CompareCode`, `RegisterFailedAttempt`, `VerifyEmail` |
| `resend_registration_otp` | `ResendRegistrationOtp`, `ReadCodeRow`, `Reissue` |
| the clock, the process | `ExpireCode`, `Stop` |

`Stop` is any end without an answer: a process that dies, or a `.delay()` the broker
refuses, of the audit task ahead of the second commit or of the code behind it. The
answer is the only message that names the user, so a registration adds to `told` only
in `AnswerRegistration`. A resend that fails after its commit changes nothing more:
its caller knows the id already.

The ORM sends only the columns that changed. `Reissue` therefore leaves `attempts`
alone when the session read 0: a wrong code counted in between survives the
resend. `RegisterFailedAttempt` writes the attempts *read*, plus one.

### Sessions, Identity

State. `account` are the columns of `users` that sign-in reads, `token` the
`refresh_tokens` rows, `challenges` the users an MFA challenge was signed for (it
is a JWT and leaves no row), `req[r]` the local variables of a request. Passwords
and secrets are numbered in the order they are set. Ghosts: the session a live token
belongs to, with its login and the password this login found, whether a refresh issued
it for a token that was revoked since it was read (`forked`), and the last new password
whose SELECT of the tokens to revoke did not see it (`escaped`); `proven`, the last secret a code was
accepted for; `clobbered`, users whose enrolment was written on a stale read.

| code | actions |
|---|---|
| `login`, `verify_mfa_login` | `Login`, `LoginChallenge`, `VerifyMfaLogin`, `IssueTokenPair` |
| `refresh` | `Refresh`, `Rotate`; after a reuse `ReadLiveTokens`, `RevokeAllForUser` |
| `logout` | `Logout`, `RevokeOne` |
| `change_password`, `confirm_password_reset` | `ChangePassword`, `ConfirmPasswordReset`, `ReadLiveTokens`, `ReplacePassword` |
| `setup_two_factor`, `enable_two_factor`, `disable_two_factor` | `SetupTwoFactor`, `EnableTwoFactor`, `DisableTwoFactor`, `SaveSecret`, `SaveEnabled`, `SaveDisabled` |
| the clock, the process | `ExpireRefreshToken`, `StopRequest` |

With autoflush off, the SELECT of the tokens to revoke comes before every write of
the handler, and the writes come with the commit: one action for each. There is
no clock in a JWT: it may be used whenever, or never.

The ghosts except one token from one property, not a session from all of them. A token
is `forked` at the commit of a refresh that finds its own token revoked; one that
`escaped` a new password was inserted after the SELECT of that password's handler, or
is about to be by a request past its own reads. The next new password must end it.

### Browser

State. `cookie`, each tab's `status`, and for each request under way (`http`) the
cookie it took along, the answer it brings, and the tab whose page sent it, if that page
is still loaded. `Serve` and `Respond` are the steps of the handlers of `Sessions`;
`Deliver` applies the response in whatever order it arrives; `Lose` loses a
request, a response or the server. `disturbed` marks behaviours in which two
requests overlapped that the client does not coordinate, or one was lost; `changed`
those in which this browser has set a password and nobody has logged in since.

| code | actions |
|---|---|
| bootstrap in `AuthContext` | `Load`, `Deliver` |
| the 401 middleware of `api/client.ts`, `refreshPromise` | `RejectedCall`, `Deliver` |
| login, logout | `Login`, `Logout`, `Deliver` |
| `ChangePasswordForm` of the profile page, `ResetPasswordPage` | `ChangePassword`, `Deliver` |
| router and cookies of `auth/` | `Serve`, `Respond` |

A new password leaves the cookie and the pages as they are, and takes every refresh
token with it (`S!ReplacePassword`). Any page may get a 401, and any 401 makes it refresh:
a wrong current password, one-time code or reset token is answered like an expired
access token. After a refresh the fetch client repeats the call, which fails where the
call had a body: `request.clone()` throws for a body already sent, and the page ends its
session (`api/client.ts:70-75`), the one thing `Outcomes` leaves open. The axios client
of `lib/apiClient.ts` only serves the bootstrap; no page sends calls through it, so the
promise of `api/client.ts` is the only one a page shares.

### Cards

State. `card`, `balance`, `status`, `gone` (customers with `deleted_at`), the ledger
`entries` in commit order, the row locks, and `call[r]`.

| code | actions |
|---|---|
| `pay_with_card` | `PayWithCard`, `LockCard`, `LockAccount`, `CommitMove` |
| `block_own_card`; admin block, delete, create | `BlockOwnCard`, `BlockCard`, `DeleteCard`, `SaveCard`, `CreateCard`, `InsertCard` |
| `deposit`, as the competing movement | `Deposit`, `LockAccount`, `CommitMove` |
| `update_account_status` | `UpdateAccountStatus`, `SaveStatus` |
| delete and restore a customer | `DeleteCustomer`, `RestoreCustomer` |
| the process | `Crash` |

A payment holds its card from `LockCard` and its account from `LockAccount`;
nobody takes them in the other order, and the writers wait with empty hands.

### RateLimiter

State. The backend, whether Redis is up, its counters with the life they have
left, the ages of the hits in each worker's memory, and where each check is. The
rules are the table of `main.py`, in its order; a path is its segments. INCR and
EXPIRE are two steps, and `FailOpen` and `RestartWorker` cut either off, applied
or not (`CutOff`). `Tick` lets a tick of the window pass once every check begun in
it is over: the socket timeout is a sixtieth of the window.

| code | actions |
|---|---|
| `RateLimitMiddleware`, `RedisRateLimiter.is_allowed` | `Arrive`, `Incr`, `Expire`, `FailOpen`, `Answer` |
| `InMemoryRateLimiter.is_allowed` | `CheckMemory`, `Answer` |
| process, Redis, time | `RestartWorker`, `RedisFails`, `RedisReturns`, `Tick` |

Redis keeps its counters over an outage; losing them would only admit more.

### AfterCommit

State. Where each handler is in its list of tasks, the copies of each message that
wait, what each pool process has taken, and how often the effect of a message
happened. Ghosts: `copies`, and `missed`, the failures that lost a task.

| code | actions |
|---|---|
| the commit of a service and its `.delay()` calls | `Commit`, `Refuse`, `Publish`, `BreakPublish` |
| `write_audit_log_task`, `send_notification_task` | `Take`, `WriteAuditLog`, `SendNotification`, `SkipNotification`, `FailTask`, `Acknowledge` |
| process, worker, pool, broker | `StopHandler`, `LoseWorker`, `KillPoolProcess`, `FlipBroker` |

`QueueOf` is the routing of `celery_app.py`, `TaskQueues` the queues its worker
listens to. Celery and Redis themselves are external and modelled as the code
configures them: late acknowledgement, no rejection on worker loss.

## 3. Runs

| run | module | expected | what it shows |
|---|---|---|---|
| `money` | `MCTransfers` | pass | two sessions initiate, confirm, reverse, deadlock and crash over two accounts, with a teller and administrators: ledger, double entry, single execution, unique reversals, deadlock freedom among executions, and `ImplementsBank` |
| `otp` | `MCTransfers` | pass | right and wrong codes, resend, expiry, sweep, between two currencies at rates that give 0.00, a sum that fits, or too much for the column: a transfer is credited as quoted or not at all, an exhausted challenge has failed its transfer, money moved exactly if the code was verified, FAILED is final, and every transfer is resolved |
| `overwritten` | `MCTransfers` | violation | FAILED is written over a SUCCESS committed in between |
| `reversal_currency` | `MCTransfers` | violation | reversing a transfer between currencies moves another sum |
| `sweeps` | `MCScheduledPayments` | pass | one sweep at a time, cut short once at any point, over two schedules of one account: every due run is dealt with, cancellation is final although sweeps work with old rows, and an interruption costs one duplicate payment and nothing else does |
| `blocked` | `MCScheduledPayments` | violation | a transfer the database rejects keeps every sweep from the schedules after it |
| `registration` | `MCRegistration` | pass | two sessions register, confirm, resend and create over two users: one user per identity, verification by the user's own code, every wrong code counted, and nobody stranded but by a registration cut off between its first commit and its answer |
| `identity` | `MCIdentity` | pass | sign-up and sessions of one user: no session before verification, one live token per session that did not fork, a live token is of the present password or escaped its setting, the active TOTP secret is a proven one |
| `browser` | `MCBrowser` | pass | two tabs, two requests under way, new passwords, and lost or reordered responses: undisturbed, the cookie is the live token and no refresh is taken for a theft, until the browser sets a new password |
| `cards` | `MCCards` | pass | two sessions over two cards of one account: no blocked card is charged, the ledger has no gap, every call ends |
| `limiter` | `MCRateLimiter` | pass | two workers, both backends: admissions are bounded, refusals are earned |
| `dispatch` | `MCAfterCommit` | pass | one operation that is audited and announced, two pool processes: every task is accounted for, and what is sent ends |

Bounds of `money`, `otp` and the runs like them. Two accounts: every lock conflict
is between two rows. Two sessions: each race in the code is between two handlers;
the proofs cover any number. Three transaction ids in `money`: a
transfer, another one the other way, and a reversal; or a transfer and whatever two
administrators can make of it and of its reversal, so that a second reversal would have
a row of its own. `TwoOrders` leaves out three orders. One id in `otp` and `overwritten`,
where the interest is in one challenge. When ids are used up, `InitiateUnstorable` and `ExecuteUnstorable` end
the handler. `Amounts = {1}` with `Opening` 1 makes the second debit fail for lack of
funds; `MaxMoney` of 2 or 3 lets a credit hit the column's width. `MaxAttempts` is 2
in `otp` (a wrong code that is not the last, and one that is) and 1 elsewhere.
`MaxCodes` bounds resends. `Enabled` names the entry points a run exercises. Symmetry
is used for safety only. The deadlocks that matter there are stated over the
wait-for graph (`Deadlocked`), as the system may rightly stop: all ids used, nobody
calling. TLC's own deadlock check is on in `limiter` and `dispatch`.

`sweeps`. Both schedules draw on one account that can pay two runs of four, so
runs are paid, refused at validation and refused under lock. `LastDay` 1 gives each
schedule up to two runs, `MaxInterruptions` 1 one crash at any point. One sweep at a
time: two that overlap both pay (section 4); the cancellation properties are
proved for any number of sweeps.

`registration`. Two users with two e-mails and one national id: each pair of
requests can compete for either key. `MaxAttempts` 2 has a wrong code that is not
the last; `MaxCodes` 2 one resend. Theorems cover all other sizes.

`identity`. One user (no handler of `Sessions` relates two), two requests, three
tokens, two new passwords, two secrets; `FewRows` bounds their sum by four, and by
three once a secret is drawn, so that each reaches its own bound and each pair occurs:
two logins and a rotation, a secret drawn under another one, and a rotated token that
escapes one new password and is ended by the next.

`browser`. Two tabs and two requests suffice for every overlap of two; three
tokens are a login and two rotations, the second of which may reuse the first; or
a login, a new password, and the login after it (`MaxRows` bounds tokens and passwords
together by three). `View` leaves out the ghosts of `Sessions`, which no definition of
`Browser` and no property of the run reads.

`cards`. Two cards of one account compete for its balance of 1; two ledger entries
make a movement that follows another.

`limiter`. A path that four rules match, of which only the most special is meant;
limits of 2 and 1; a window of two ticks, so a border falls inside any window of requests.

`dispatch`. One operation: messages of different operations do not meet but for
a worker, and a worker serves any. Two tasks of different queues, one retry of a
publish, two copies of a message by redelivery.

Fairness is assumed where the code or its platform owes it, never of a client:

* `FairSpec` (`otp`). PostgreSQL grants a row lock in the order of its queue, so a
  waiting session is not overtaken for ever: strong fairness of `Step`. The
  deadlock detector runs: weak fairness of `DeadlockAbort`. Celery beat starts the
  sweep every minute (`celery_app.py:19-57`): weak fairness of `SweepSelect`. The
  clock goes on: weak fairness of `ExpireOtp`. `PendingIsResolved` supposes that the
  customer does not resend for ever; `MaxCodes` says so. A task that dies in a sweep
  is followed by the next sweep.
* `FairSchedules` (`sweeps`): beat starts sweeps and workers run them; nothing is owed
  by customers, the administrator, or the clock.
* `CardsFairness` (`cards`): a handler goes on while its process lives, and waiters of
  a row are served in turn: strong fairness of a session's own steps.
* `CommitFairness` (`dispatch`): an outage of the broker ends (weak fairness of its
  return); a worker that dies is restarted and goes on (strong fairness of its
  steps); each queue the worker listens to is served (strong fairness of taking a
  message). The queues are read from the configuration: a task routed to a queue
  nobody listens to would wait for ever, and `SentTasksEnd` would fail.

## 4. What the code does not do as it says

Each is a finding in `PROJECT.json`; the first three have a `violation` run.

1. `tasks.py:214`, `transactions/service.py:247, 261, 286, 436`: FAILED is
   written by primary key after an unlocked read, so it can overwrite SUCCESS;
   service.py:446 says "never overwrite an already-SUCCESS/FAILED row". The
   ledger stays right (proved below) and the money is not moved again, but the
   customer is told FAILED and an administrator cannot reverse the transfer.
   (`overwritten`)
2. `transactions/service.py:799`: `reverse_transaction` uses `original.amount` on
   both sides. (`reversal_currency`)
3. `tasks.py:263`: failures that are no `DomainError` (a rejected row, the assertion
   at `transactions/service.py:437`) end the sweep; tasks.py:237-240 says one
   failing never blocks the others. (`blocked`)
4. `transactions/service.py:285`: the wrong code that uses up the attempts fails the
   transfer in the same commit, as does a later confirmation (260-261), and
   `resend_otp` asks for a PENDING one. Its docstring (185-187) promises a customer
   "already stuck on max failed attempts" a "clean slate rather than having to abandon
   the transfer and start over": that customer does have to. This one is seen by a
   property that holds: `ExhaustedIsFailed` of the run `otp`, proved as
   `ExhaustionFails`, says that the promised case does not exist.

The models also have behaviours that a comment or a docstring excludes, or that a
reader would not expect, without a run of their own:

* `transactions/service.py:276`: the code is compared once, without a lock, so a
  confirmation under way still executes with the code a resend has replaced;
  transactions/repository.py:201-202 calls it unusable from that instant.
* `auth/service.py:416-423`: the fingerprint of a reset token is compared with a
  hash read without a lock and the new hash is written without a test, so two
  overlapping requests with one token both succeed; core/security.py:90-92 says
  "implicit single-use / no reuse after a successful reset". One after the other,
  the second is refused (`ConfirmPasswordReset`). No property is stated of it, as
  without the overlaps nothing is left but this test.
* `transactions/service.py:421`: only `DomainError` is handled, so an execution the
  database rejects leaves the transfer PENDING until the sweep;
  service.py:229-231 says any failure marks it FAILED.
* `accounts/repository.py:48-54`: locking in id order does not prevent the deadlock
  between an INSERT of a PENDING transfer, whose foreign keys lock both accounts,
  and an execution. Executions among themselves keep the promise
  (`ExecutorsNeverDeadlock`); PostgreSQL aborts one of the others.
* `tasks.py:254`: the due schedules are listed without a lock and nothing ties a
  transfer to its run: overlapping or interrupted sweeps pay twice.

The "unless" of a property is where the code has a gap:

* `GuessesAreCounted`: overlapping wrong codes count once, and a resend may keep an
  attempt or drop one.
* `OnlyAStopStrands`: a registration that is cut off between its first commit and its
  answer holds the e-mail for good: the process stops, or the broker refuses the audit
  task (auth/service.py:123) or, with the code already committed, a notification (157).
  Registering again is answered 409, and the id that a confirmation or a resend needs
  was never sent; a code that did go out cannot be used without it.
* `OneLiveTokenPerSession`: two refreshes that read one token before either commits both
  issue a successor, and a refresh revives a session that a logout or a reuse ended
  since its read.
* `OldPasswordsOpenNothing`: a token inserted after a password change has read the tokens
  to revoke is not among them, so a login or refresh that overlaps the change
  outlives it, until the next one. An MFA challenge outlives it as well: it names the
  user and not the password (its token counts as opened with the new password).
* `ActiveSecretIsProven`: a setup that overlaps an enable replaces the secret under
  it, and the user's authenticator no longer fits.
* `AdmissionsAreBounded`: twice the limit around the border of a fixed window; with
  the memory backend once per worker.
* `RefusalsAreEarned`: a counter whose EXPIRE was lost never goes, and the client is
  refused for ever, though rate_limiter.py:10-14 says a Redis hiccup must not take
  the API down.
* `TasksAreAccountedFor`: when the broker is down after a commit the client reads 500
  of a committed operation, and a retry of a card payment charges twice; later
  tasks are not sent. `max_retries=3` has no effect, as nothing calls `retry`. A pool
  process killed in a task acknowledges it. A redelivery doubles a mail.
* `KeepsInStep`: two tabs, a page loaded twice (as React's StrictMode does in
  development), a refresh that overlaps a logout, or a lost response end with a
  token taken for a theft, or with a live cookie after a logout. And a browser that
  changes its own password loses its session: the change revokes its refresh token
  (auth/service.py:383) and leaves it in the cookie, so that the next refresh, at the
  latest when the access token expires, is answered 401 and recorded as
  REFRESH_TOKEN_REUSE_DETECTED (344-352), although ProfilePage.tsx:265 says "You'll need
  it next time you sign in".

## 5. Proofs

| module | theorem | statement |
|---|---|---|
| `TransfersProofs` | `TypeCorrect` | `Spec => []TypeOK` |
| | `LockingDiscipline` | `Spec => []LInv` |
| | `LedgerIsReconstructable` | `Spec => []LedgerExplainsBalance` |
| | `ActiveAccountsOnly` | `Spec => OnlyActiveAccountsMove` |
| `ExecutionProofs` | `ExecutionDiscipline` | `Spec => []XInv` |
| | `DoubleEntry` | `Spec => []EntriesMatchTransaction` |
| | `OneReversal` | `Spec => []ReversalsAreUnique` |
| | `MovedOnlyIfVerified` | `Spec => []MovedMeansVerified` |
| | `ExhaustionFails` | `Spec => []ExhaustedIsFailed` |
| | `CurrentExecutors` | `Spec => []ExecutorsAreCurrent` |
| | `ResolvedIsFinal` | `Spec => ResolvedStaysResolved` |
| | `NoDeadlockOfExecutors` | `Spec => []ExecutorsNeverDeadlock`, finitely many accounts |
| | `BankButForConvertedReversals` | `Spec /\ [][PlainReversal]_vars => ImplementsBank` |
| | `BankRefinement` | `Spec => ImplementsBank`, one currency |
| `ScheduledPaymentsProofs` | `SchedulesTypeCorrect` | `SpecSchedules => []SchedulesTypeOK` |
| | `CancellationIsFinal` | `SpecSchedules => CancellationSticks` |
| | `CancelledNeverReturns` | `SpecSchedules => CancelledIsOver` |
| | `DuplicatesCostInterruptions` | `SpecSchedules => []DuplicatesAreInterruptions`, one sweep at a time |
| `IdentityProofs` | `SignUpIsOrderly` | `RegistrationSpec => []RInv` |
| | `RegistrationTypeCorrect` | `RegistrationSpec => []RegistrationTypeOK` |
| | `IdentitiesAreUnique` | `RegistrationSpec => []OneUserPerIdentity` |
| | `VerificationIsByCode` | `RegistrationSpec => []VerifiedByItsCode` |
| | `AttemptsAreBounded` | `RegistrationSpec => []GuessesAreCounted` |
| | `OnlyStopsStrand` | `RegistrationSpec => []OnlyAStopStrands` |
| | `SessionsAreSound` | `IdentitySpec => []QInv` |
| | `OneTokenPerSession` | `IdentitySpec => []OneLiveTokenPerSession` |
| | `OldPasswordsAreDead` | `IdentitySpec => []OldPasswordsOpenNothing` |
| | `SecondFactorIsProven` | `IdentitySpec => []ActiveSecretIsProven` |
| | `IdentityIsSound` | `IdentitySpec => []IdentityInv` |
| | `IdentityTypeCorrect` | `IdentitySpec => []IdentityTypeOK` |
| | `VerificationComesFirst` | `IdentitySpec => []NoSessionBeforeVerification` |
| `AfterCommitProofs` | `CommitsAreCounted` | `CommitSpec => []ACInv`, finitely many workers |
| | `CommitTypeCorrect` | `CommitSpec => []CommitTypeOK`, finitely many workers |
| | `TasksAccounted` | `CommitSpec => []TasksAreAccountedFor`, finitely many workers |
| `CardsProofs` | `PaymentsHoldTheirRows` | `CardsSpec => []CInv` |
| | `CardsTypeCorrect` | `CardsSpec => []CardsTypeOK` |
| | `BlockedCardsAreNotCharged` | `CardsSpec => ChargesNeedAnActiveCard` |
| | `LedgerHasNoGap` | `CardsSpec => []EntriesExplainBalance` |
| `BrowserProofs` | `BrowserIsSound` | `BrowserSpec => []BInv` |
| | `BrowserTypeCorrect` | `BrowserSpec => []BrowserTypeOK` |
| | `BrowserKeepsInStep` | `BrowserSpec => []KeepsInStep` |
| `RateLimiterProofs` | `FirstMatchIsMeant` | the first rule that matches a path is the longest one that does |
| | `RateIsSound` | `LimiterSpec => []RateInv` |
| | `LimiterTypeCorrect` | `LimiterSpec => []LimiterTypeOK` |
| | `AdmissionsBounded` | `LimiterSpec => []AdmissionsAreBounded` |
| | `RefusalsEarned` | `LimiterSpec => []RefusalsAreEarned` |
| | `CountersExpire` | `LimiterSpec => []`(a counter without an expiry is `stuck` or about to get one) |

Each holds for every value of the constants that satisfies the module's
assumptions: bounds and amounts are natural numbers, the names for "nobody" and
"nothing" are not among the ids, every operation of `AfterCommit` sends something,
and for `RateLimiter` (`LimiterAssumption`) the workers are finitely many, a path is a
sequence of segments, the limits are natural numbers and the window is not empty.
Three hypotheses are stated with the theorems that need them:

* `IsFiniteSet(Accounts)`, `IsFiniteSet(Workers)`: tables and pools are finite. The
  first gives every set of locked accounts a largest one, the second makes counting
  the workers that run a task mean something.
* `OneCurrencyOnly` of `BankRefinement`: what the code promises of reversals is false
  otherwise, as the run `reversal_currency` shows. `BankButForConvertedReversals` has
  no such hypothesis and says precisely which step is to blame.
* `OneSweepAtATime` of `DuplicatesCostInterruptions`: beat starts a sweep every five
  minutes, and nothing keeps a slow one from overlapping the next; two that overlap
  may pay the same run both (section 4).

`TransfersProofs`. `TypeOK` is not inductive: a handler that updates
`txn[req[r].txn]` must know that the row exists. `TInv` adds `WorkingRows`, which says
so; rows are never deleted. `LedgerExplainsBalance` is not inductive either: a session
writes balances it computed from what it read. `LInv` adds the locking discipline:
whoever holds an account row has read it as it is now (`ViewsAreCurrent`), and a
session about to write holds every account of its transaction
(`ExecutorsHoldRows`). Both need that the accounts of an existing transaction never
change (`SidesPersist`). Then a movement computed from the views is a movement
computed from the rows (`PostKeepsLedger`), and the statuses tested on the views are
those of the rows (`PermittedPostIsOnActive`), which gives `ActiveAccountsOnly`.

`ExecutionProofs`. `XInv` joins three layers. `LInv` is above. `SessionsInv` says what a
session may rely on between its awaits: past `LockTxn` it holds its transaction
row, whose status is still the one tested under the lock (`LockedRowsAreOpen`), so
the comparison made without a lock plays no part. `RowsInv` relates tables:
`EntriesMatchTransaction`, `ReversalsAreUnique`, `MovedMeansVerified` and
`ExhaustedIsFailed` hold each other up, as a row that is still open can have no
entry, no reversal and no exhausted challenge. `PostKeepsEntries` and its companions say
what one posting does to them. The unlocked writes of FAILED, which do overwrite a
SUCCESS (section 4), do not hurt: a row leaves the set of open ones by them and
never returns, which is `ResolvedIsFinal`.

`NoDeadlockOfExecutors` is the lock-order argument. A session takes its transaction row with
empty hands, so whoever waits while it holds something waits for an account. What it has
not locked yet is larger than all it has locked (`LocksInOrder`), and it waits for the
smallest of that. In a circle without an INSERT, whoever holds the account waited for
waits for a larger one itself (`BlockersHoldMore`); of finitely many there is a largest
(`CirclesNeedInserts`).

The refinement of `Bank`, at the end of `ExecutionProofs`. `BankAccepts`, `BankPaysTransfer`, `BankPaysTeller` and `BankUndoes` map the
steps that move the bank, and `XInv` makes their guards true: an executed order is not
settled yet, a reversal is the first. All other steps stutter, among them every
write of a status. For a reversal the money that comes back is the
money that went only if the two amounts of the row are equal; this is `PlainReversal`.
With one currency all rows are plain (`PlainAmounts`, an invariant of its own).

`ScheduledPaymentsProofs`. The inductive invariant `SInv` adds `InHand`: past `take`, a
sweep has a schedule in hand, so it never pays or records for none.
`CancelledIsOver` follows from what each step adds to a sweep: `Begin` lists active
schedules only, `Take` moves a listed one into hand, `Pay` pays the one in hand.
`DuplicatesAreInterruptions` counts payments against the runs due by now, which relates them only
through the row: `DInv` says that a schedule was advanced `k` times, each from a run
that was due (`Advanced`), and paid at most `k` times, plus once per interruption, plus the
payment that the sweep at work has not recorded yet (`AllPaced`). With one sweep
its list is current (`ListedAreDue`), so recording never sets `next_run_at` back. The
rest is that `k` periods fit into the time passed (`MultiplesBelow`).

`IdentityProofs`, sign-up. None of the properties is inductive, as a session writes what
it decided on earlier. `RInv` says what it may still rely on (`SessionKnows`: the
user of a first code is not yet told and not verified, one that guesses had
attempts left), that an untold user has no code row (`RowsAgree`), and that no two
sessions issue the first code of one user (`IssuersDiffer`). With it each property
is inductive: uniqueness needs only the insert, where the constraint is tested
against the rows of that instant; `GuessesAreCounted` needs that a write that is
not stale adds one to what it read; `OnlyAStopStrands` that whoever leaves the
places between the first commit and the answer (`Unanswered`) has told its user or is
noted as lost, and that a lost user, whom no session works for, stays unknown and
unverified.

`IdentityProofs`, sessions. The handlers of `Sessions` lock nothing: a request writes what it
decided on rows it has read. `Knows` says what it may still rely on, whatever ran since.
A rotation has either lost its token to a revocation, and then notes the fork at its commit, or
its token is live and its session is that of the token (`KnowsToken`). A request about
to revoke has on its list every token of its user that is live and was inserted before its
SELECT (`KnowsLive`). A request that issues a token has found the present password,
or a new one has been set since and has marked it (`KnowsPassword`). With these the properties are inductive: a
rotation that does not fork replaces the only live token of its session by one, and a new password
revokes all that is on the list and marks all that is not. `VInv` carries verification from
`Registration` to sign-in: nothing there makes a verified user unverified, and
nothing in `Sessions` enters for a user that was not.

`AfterCommitProofs`. `TasksAreAccountedFor` counts a message in three places and is not
inductive. `Counted` bounds the count of effects, waiting and running copies by the
copies that came into the queue from above, and by one from below unless a failure hit
the message; `Sent` ties the first copy to where the handler is in its list: sent
behind it, unsent ahead of it, and at it unknown only once a publish broke.
`WorkerKeepsACInv` reduces each step of a worker to what it does to the count of the
one message it holds (`Recount`).

`CardsProofs`. `CInv` is the two-row locking discipline: past `LockCard` a payment holds
its card, active and of the account it charges (`HoldsCard`); past `LockAccount` every
movement holds its account, active, as read, with the amount (`HoldsAccount`).
`OneSessionMoves` shows once that a step which leaves alone the rows that others hold
keeps what they know. Then what a commit writes (`WhatACommitWrites`) is computed
from the current balance, and appending it extends the chain of entries
(`StoodStays`).

`BrowserProofs`. `KeepsInStep` speaks of the moments when nothing is under way and says
nothing of what happens in between, so it is not inductive. `BInv` follows the one live token through
a request. `Corresponds` ties each HTTP request to the handler that serves it, disturbed or not:
a request that is served runs login, rotation, logout or a new password, the former
with the cookie it took along.
`Undisturbed` says that at most one request is under way and that the live token is in
one place only: in the cookie while a refresh or a logout travels or is served,
nowhere while a login is, and in the response once the handler has answered (`OneHolds`).
A new password ends that token while the cookie keeps it: `InStep` says that from then
on nothing is live, until the clean slate of the next login.
That the handler finds the token valid, and so takes no refresh for a theft, needs
that live tokens of an undisturbed browser have not expired, which `Undisturbed` carries
as well. The steps of `Sessions` are reduced first to what the
browser can see of them (`Alike`: a new password marks the requests of others and changes
nothing else of theirs), then each step of a request changes the stage of that request alone.

`RateLimiterProofs`. The properties add up requests over the window, so the model counts
them as a set of numbered requests (`Recorded`), whose cardinality the prover can reason
about; ageing by a tick (`Older`) and one more request (`OneMore`) are the lemmas.

* With Redis (`RedisInv`), per key. `KeysExpire`: a counter without an expiry has exactly one
  worker about to set it, or is `stuck`. `CountedWasAsked`: a counter counts no more than was
  asked since it was created, which makes a refusal earned. `TwoGenerations`:
  the passes of the window are those of this counter and those of counters before it, and
  either part is at most one limit. When a counter expires, its passes
  become the earlier part, and what was there before has left the window; hence twice the limit.
  A worker between INCR and EXPIRE may still pass, so while there is one the count
  exceeds the passes and the limit is not used up.
* In memory (`MemoryInv`), per worker. `PassesAreHits`: an injection maps the passes of the window
  to hits of the same age, so there are no more than the workers have places for.
  `HitsAreKept`: the hits of a worker are ordered by age and no more than the limit, and an
  injection maps those in the window to requests asked, so a full memory earns
  the refusal. A check drops hits that no pass in the window
  needs (`CheckKeepsBacking`), as they stand in order of age; a restart drops others, and marks the
  key `stuck`.
* `FirstMatchIsMeant` is proved for every path from the segments of the rules: where two rules
  match the same path, the earlier is the longer. So the key a request is
  counted under is the one that is meant, and the two invariants may use
  either.

TLC checks `RateInv` and `BInv` on the instances of `limiter` and `browser` too when they are
added to those configurations; they hold there.

Only model-checked: liveness (`PendingIsResolved`, `DueIsHandled`, `CallsEnd`,
`SentTasksEnd`), as the prover does not handle fairness or ENABLED.
Every other property of a passing run is the subject of a theorem. What a property
such as `ImplementsBank` needs beyond the specification stands with its theorem above.

## 6. Not modelled, and what comes next

Not modelled:

* The read-only endpoints (history, search, dashboard, lists, statements). They keep
  no state; a statement is ordered by `created_at`, the start of a database
  transaction, and may show balances out of the order of the commits.
* Beneficiaries: rows nothing else depends on.
* Opening an account, and replacing an exchange rate: a rate is read once, at
  initiation, and `Transfers` lets it be any.
* `is_blocked`, `is_active` and `deleted_at` of users, `EXPIRED` and `expiry_date` of
  cards, the status of customers: no code sets or no code consults them.
* Audit entries of refused requests, which a failed login writes without a commit of
  its own; the admin's queries of the log.
* Formats, rendering, hashing and encryption, e-mail and SMS delivery, metrics,
  logging, configuration, containers: no state of the system's own logic. A
  provider that refuses is `FailTask`.
* A restart of Redis that loses messages or counters.

Next, in this order:

1. `Transfers` with `execute_scheduled_transfer` as a further session, so that
   customers, tellers and sweeps meet on the same rows.
2. Statement order: `created_at` against commit order.
