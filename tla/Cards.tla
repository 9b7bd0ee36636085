------------------------------- MODULE Cards -------------------------------
(***************************************************************************)
(* Cards: payment and self-service blocking in backend/app/modules/cards,  *)
(* issue, blocking and removal by an admin in backend/app/modules/admin.   *)
(* A payment locks the card and then the account, and decides on the rows  *)
(* read under those locks; everybody else decides on an unlocked read and  *)
(* then writes, which waits for the row.  Other movements of money appear  *)
(* as deposits; a customer is deleted and restored in one action, as its   *)
(* handler decides on its own column alone.                                *)
(***************************************************************************)
EXTENDS Integers, Sequences, FiniteSets

CONSTANTS
  CardIds, AccountIds, Customers,
  Owner,         \* the customer of each account
  OpeningBalance,
  Prices,        \* amounts a merchant or a teller may ask for
  Calls,         \* sessions of the web API
  MaxEntries,    \* bound: ledger entries, finished or on their way
  NoCard, NoAccount, Free

VARIABLES
  card,          \* cards rows; status "NONE": not issued
  balance,       \* accounts.balance
  status,        \* accounts.status
  gone,          \* customers with deleted_at set
  entries,       \* ledger_entries in commit order
  cardLock,      \* the session that holds FOR UPDATE on a cards row
  accountLock,   \* the session that holds FOR UPDATE on an accounts row
  call           \* the local state of each session

cardVars == <<card, balance, status, gone, entries, cardLock, accountLock,
              call>>

ASSUME CardsAssumption ==
  /\ Owner \in [AccountIds -> Customers]
  /\ OpeningBalance \in [AccountIds -> Nat]
  /\ Prices \subseteq Nat \ {0}
  /\ MaxEntries \in Nat
  /\ NoCard \notin CardIds /\ NoAccount \notin AccountIds /\ Free \notin Calls

\* EXPIRED is a status of the model, but no code sets it.
CardRow ==
  [status : {"NONE", "ACTIVE", "BLOCKED"}, account : AccountIds \cup {NoAccount},
   deleted : BOOLEAN]

EntryRow ==
  [account : AccountIds, card : CardIds \cup {NoCard}, change : Int,
   after : Nat]

CallState ==
  [op : {"none", "pay", "deposit", "issue", "block", "delete", "setStatus"},
   pc : {"idle", "lockCard", "lockAccount", "commit", "write"},
   card : CardIds \cup {NoCard}, account : AccountIds \cup {NoAccount},
   amount : Nat, view : Nat, status : {"ACTIVE", "BLOCKED", "CLOSED"}]

IdleCall ==
  [op |-> "none", pc |-> "idle", card |-> NoCard, account |-> NoAccount,
   amount |-> 0, view |-> 0, status |-> "ACTIVE"]

CardsInit ==
  /\ card = [c \in CardIds |-> [status |-> "NONE", account |-> NoAccount,
                                deleted |-> FALSE]]
  /\ balance = OpeningBalance
  /\ status = [a \in AccountIds |-> "ACTIVE"]
  /\ gone = {}
  /\ entries = << >>
  /\ cardLock = [c \in CardIds |-> Free]
  /\ accountLock = [a \in AccountIds |-> Free]
  /\ call = [r \in Calls |-> IdleCall]

-----------------------------------------------------------------------------
(* Helpers *)

On(r, pc) == call[r].pc = pc
Leave(r) == call' = [call EXCEPT ![r] = IdleCall]
Moving == {r \in Calls : call[r].op \in {"pay", "deposit"}}

\* get_by_id and get_one_for_update of the card repository.
Visible(c) == card[c].status # "NONE" /\ ~card[c].deleted

\* get_owned_card: the card, its account and a customer that is not deleted.
OwnedCard(c) == Visible(c) /\ Owner[card[c].account] \notin gone

\* COMMIT or ROLLBACK gives back the row locks of the session.
Unlock(r) ==
  /\ cardLock' = [c \in CardIds |-> IF cardLock[c] = r THEN Free ELSE cardLock[c]]
  /\ accountLock' = [a \in AccountIds |->
                       IF accountLock[a] = r THEN Free ELSE accountLock[a]]

\* ROLLBACK, and a 4xx answer.
Refuse(r) ==
  /\ Unlock(r) /\ Leave(r)
  /\ UNCHANGED <<card, balance, status, gone, entries>>

BeginMove(r, new) ==
  /\ On(r, "idle")
  /\ Len(entries) + Cardinality(Moving) < MaxEntries  \* bound
  /\ call' = [call EXCEPT ![r] = new]
  /\ UNCHANGED <<card, balance, status, gone, entries, cardLock, accountLock>>

-----------------------------------------------------------------------------
(* POST /cards/{id}/pay, with deposits as the competing movement *)

PayWithCard(r, c, amount) ==
  /\ OwnedCard(c)
  /\ BeginMove(r, [IdleCall EXCEPT !.op = "pay", !.pc = "lockCard", !.card = c,
                     !.amount = amount])

Deposit(r, a, amount) ==
  BeginMove(r, [IdleCall EXCEPT !.op = "deposit", !.pc = "lockAccount",
                  !.account = a, !.amount = amount])

\* Faulty variant: the card is read again, but without FOR UPDATE.
ReadCardUnlocked(r) ==
  LET c == call[r].card IN
  /\ On(r, "lockCard")
  /\ Visible(c) /\ card[c].status = "ACTIVE"
  /\ call' = [call EXCEPT ![r].pc = "lockAccount",
                          ![r].account = card[c].account]
  /\ UNCHANGED <<card, balance, status, gone, entries, cardLock, accountLock>>

\* A card deleted or blocked since the request began is refused.
LockCard(r) ==
  LET c == call[r].card IN
  /\ On(r, "lockCard") /\ cardLock[c] = Free
  /\ \/ /\ ~Visible(c) \/ card[c].status # "ACTIVE"
        /\ Refuse(r)
     \/ /\ Visible(c) /\ card[c].status = "ACTIVE"
        /\ cardLock' = [cardLock EXCEPT ![c] = r]
        /\ call' = [call EXCEPT ![r].pc = "lockAccount",
                                ![r].account = card[c].account]
        /\ UNCHANGED <<card, balance, status, gone, entries, accountLock>>

\* Faulty variant: a refusal answers without a rollback, and the session
\* goes back to its pool with the card still locked.
LockAccountKeepingLocks(r) ==
  LET a == call[r].account IN
  /\ On(r, "lockAccount") /\ accountLock[a] = Free
  /\ \/ /\ status[a] # "ACTIVE"
        /\ Leave(r)
        /\ UNCHANGED <<card, balance, status, gone, entries, cardLock,
                       accountLock>>
     \/ /\ status[a] = "ACTIVE"
        /\ accountLock' = [accountLock EXCEPT ![a] = r]
        /\ call' = [call EXCEPT ![r].pc = "commit", ![r].view = balance[a]]
        /\ UNCHANGED <<card, balance, status, gone, entries, cardLock>>

\* Faulty variant: the row is read without FOR UPDATE.
ReadAccountUnlocked(r) ==
  LET a == call[r].account IN
  /\ On(r, "lockAccount")
  /\ call' = [call EXCEPT ![r].pc = "commit", ![r].view = balance[a]]
  /\ UNCHANGED <<card, balance, status, gone, entries, cardLock, accountLock>>

\* Faulty variant: a payment does not ask for the balance.
LockAccountOnCredit(r) ==
  LET a == call[r].account IN
  /\ On(r, "lockAccount") /\ accountLock[a] = Free
  /\ \/ status[a] # "ACTIVE" /\ Refuse(r)
     \/ /\ status[a] = "ACTIVE"
        /\ accountLock' = [accountLock EXCEPT ![a] = r]
        /\ call' = [call EXCEPT ![r].pc = "commit", ![r].view = balance[a]]
        /\ UNCHANGED <<card, balance, status, gone, entries, cardLock>>

\* The account must be active and, for a payment, hold the amount.
LockAccount(r) ==
  LET a == call[r].account
      Accepted ==
        /\ status[a] = "ACTIVE"
        /\ call[r].op = "pay" => balance[a] >= call[r].amount
  IN
  /\ On(r, "lockAccount") /\ accountLock[a] = Free
  /\ \/ ~Accepted /\ Refuse(r)
     \/ /\ Accepted
        /\ accountLock' = [accountLock EXCEPT ![a] = r]
        /\ call' = [call EXCEPT ![r].pc = "commit", ![r].view = balance[a]]
        /\ UNCHANGED <<card, balance, status, gone, entries, cardLock>>

\* Transaction, balance and ledger entry in one commit, from the row as it
\* was read under the lock.
CommitMove(r) ==
  LET me == call[r]
      change == IF me.op = "pay" THEN -me.amount ELSE me.amount
  IN
  /\ On(r, "commit")
  /\ balance' = [balance EXCEPT ![me.account] = me.view + change]
  /\ entries' = Append(entries,
       [account |-> me.account, card |-> me.card, change |-> change,
        after |-> me.view + change])
  /\ Unlock(r) /\ Leave(r)
  /\ UNCHANGED <<card, status, gone>>

\* The process or its connection dies: PostgreSQL rolls back.
Crash(r) == ~On(r, "idle") /\ Refuse(r)

-----------------------------------------------------------------------------
(* Handlers that read a row without a lock and write it afterwards *)

BeginWrite(r, new) ==
  /\ On(r, "idle")
  /\ call' = [call EXCEPT ![r] = [new EXCEPT !.pc = "write"]]
  /\ UNCHANGED <<card, balance, status, gone, entries, cardLock, accountLock>>

CreateCard(r, a) ==
  /\ Cardinality({c \in CardIds : card[c].status = "NONE"}) >
       Cardinality({q \in Calls : call[q].op = "issue"})  \* bound
  /\ BeginWrite(r, [IdleCall EXCEPT !.op = "issue", !.account = a])

InsertCard(r) ==
  /\ On(r, "write") /\ call[r].op = "issue"
  /\ \E c \in {d \in CardIds : card[d].status = "NONE"} :
       card' = [card EXCEPT ![c] = [status |-> "ACTIVE",
                                    account |-> call[r].account,
                                    deleted |-> FALSE]]
  /\ Leave(r)
  /\ UNCHANGED <<balance, status, gone, entries, cardLock, accountLock>>

\* By the customer, on a card that is not blocked yet, or by an admin, on any.
BlockOwnCard(r, c) ==
  /\ OwnedCard(c) /\ card[c].status = "ACTIVE"
  /\ BeginWrite(r, [IdleCall EXCEPT !.op = "block", !.card = c])
BlockCard(r, c) ==
  /\ Visible(c)
  /\ BeginWrite(r, [IdleCall EXCEPT !.op = "block", !.card = c])

DeleteCard(r, c) ==
  /\ Visible(c)
  /\ BeginWrite(r, [IdleCall EXCEPT !.op = "delete", !.card = c])

\* The UPDATE waits for a payment that holds the card.
SaveCard(r) ==
  LET c == call[r].card IN
  /\ On(r, "write") /\ call[r].op \in {"block", "delete"}
  /\ cardLock[c] = Free
  /\ card' = [card EXCEPT
       ![c] = IF call[r].op = "block" THEN [@ EXCEPT !.status = "BLOCKED"]
              ELSE [@ EXCEPT !.deleted = TRUE]]
  /\ Leave(r)
  /\ UNCHANGED <<balance, status, gone, entries, cardLock, accountLock>>

\* The ORM sends no UPDATE when the status it read is the one asked for.
UpdateAccountStatus(r, a, s) ==
  /\ status[a] # s
  /\ BeginWrite(r, [IdleCall EXCEPT !.op = "setStatus", !.account = a,
                      !.status = s])

SaveStatus(r) ==
  /\ On(r, "write") /\ call[r].op = "setStatus"
  /\ accountLock[call[r].account] = Free
  /\ status' = [status EXCEPT ![call[r].account] = call[r].status]
  /\ Leave(r)
  /\ UNCHANGED <<card, balance, gone, entries, cardLock, accountLock>>

DeleteCustomer(u) ==
  /\ u \notin gone
  /\ gone' = gone \cup {u}
  /\ UNCHANGED <<card, balance, status, entries, cardLock, accountLock, call>>

RestoreCustomer(u) ==
  /\ u \in gone
  /\ gone' = gone \ {u}
  /\ UNCHANGED <<card, balance, status, entries, cardLock, accountLock, call>>

-----------------------------------------------------------------------------

MoveStep(r) == LockCard(r) \/ LockAccount(r) \/ CommitMove(r)
WriteStep(r) == InsertCard(r) \/ SaveCard(r) \/ SaveStatus(r)

CallNext(r) ==
  \/ \E amount \in Prices :
       \/ \E c \in CardIds : PayWithCard(r, c, amount)
       \/ \E a \in AccountIds : Deposit(r, a, amount)
  \/ \E c \in CardIds : BlockOwnCard(r, c) \/ BlockCard(r, c) \/ DeleteCard(r, c)
  \/ \E a \in AccountIds :
       \/ CreateCard(r, a)
       \/ \E s \in {"ACTIVE", "BLOCKED", "CLOSED"} : UpdateAccountStatus(r, a, s)
  \/ MoveStep(r) \/ WriteStep(r) \/ Crash(r)

CardsNext ==
  \/ \E r \in Calls : CallNext(r)
  \/ \E u \in Customers : DeleteCustomer(u) \/ RestoreCustomer(u)

\* A handler goes on while its process lives; PostgreSQL serves the waiters
\* of a row in their order, so that none waits while others pass for ever.
CardsFairness == \A r \in Calls : SF_cardVars(MoveStep(r) \/ WriteStep(r))

CardsSpec == CardsInit /\ [][CardsNext]_cardVars
FairCardsSpec == CardsSpec /\ CardsFairness

-----------------------------------------------------------------------------
(* Properties *)

\* The type invariant: rows and session states have the columns and values
\* of the models in cards, accounts and ledger_entries; in particular no
\* payment overdraws an account.
CardsTypeOK ==
  /\ card \in [CardIds -> CardRow]
  /\ balance \in [AccountIds -> Nat]
  /\ status \in [AccountIds -> {"ACTIVE", "BLOCKED", "CLOSED"}]
  /\ gone \subseteq Customers
  /\ entries \in Seq(EntryRow)
  /\ cardLock \in [CardIds -> Calls \cup {Free}]
  /\ accountLock \in [AccountIds -> Calls \cup {Free}]
  /\ call \in [Calls -> CallState]

\* No card is charged once its blocking or removal, by its customer or an
\* admin, was committed, however far the payment had got; nor is an account
\* that is not active by then.
ChargesNeedAnActiveCard ==
  [][\A i \in DOMAIN entries' \ DOMAIN entries :
       LET e == entries'[i] IN
       /\ status[e.account] = "ACTIVE"
       /\ e.card # NoCard => /\ card[e.card].status = "ACTIVE"
                             /\ ~card[e.card].deleted
                             /\ card[e.card].account = e.account]_cardVars

\* amount is what an account had before position i of the ledger: the
\* balance of its last entry before it, or what it was opened with.
Stood(a, i, amount) ==
  LET earlier == {j \in 1 .. i - 1 : entries[j].account = a} IN
  \/ earlier = {} /\ amount = OpeningBalance[a]
  \/ \E j \in earlier :
       (\A k \in earlier : k <= j) /\ amount = entries[j].after

\* The entries of an account, in the order of their commits, lead from its
\* opening balance to its balance without a gap: no movement is computed from
\* a balance that another one has replaced.
EntriesExplainBalance ==
  /\ \A a \in AccountIds : Stood(a, Len(entries) + 1, balance[a])
  /\ \A i \in DOMAIN entries :
       LET e == entries[i] IN Stood(e.account, i, e.after - e.change)

\* Every payment, deposit and change of a card or an account that was begun
\* comes to an end: no session is left waiting for a row, and none for ever
\* behind the others.
CallsEnd == \A r \in Calls : ~On(r, "idle") ~> On(r, "idle")

=============================================================================
