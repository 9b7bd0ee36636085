-------------------------- MODULE ExecutionProofs --------------------------
(***************************************************************************)
(* Theorems about Transfers: an order moves its money once, whole and as   *)
(* accepted; what is resolved stays resolved; those who execute deadlock   *)
(* with nobody but an INSERT.  The argument for orders rests on the test   *)
(* of the transaction row under its lock: the row stays as tested until    *)
(* its holder commits, because whoever else writes the status of an        *)
(* existing row waits for that lock.                                       *)
(***************************************************************************)
EXTENDS TransfersProofs, FiniteSetTheorems

Kinds == {"DEBIT", "CREDIT"}

\* The account that an entry of a kind belongs on, or NoAccount.
SideOf(t, kind) == IF kind = "DEBIT" THEN txn[t].sender ELSE txn[t].receiver
SideOfMove(m, kind) == IF kind = "DEBIT" THEN m.from ELSE m.to

-----------------------------------------------------------------------------
(* What the tables say of each other *)

BlankRows ==
  \A t \in TxnIds : txn[t].status = "NONE" => txn[t] = NoTransaction

TwoSides ==
  \A t \in TxnIds :
    /\ txn[t].status # "NONE" => txn[t].sender # txn[t].receiver
    /\ txn[t].type = "TRANSFER" =>
         txn[t].sender # NoAccount /\ txn[t].receiver # NoAccount

RowsInv ==
  /\ BlankRows /\ TwoSides /\ EntriesMatchTransaction /\ ReversalsAreUnique
  /\ MovedMeansVerified /\ ExhaustedIsFailed

(* What the sessions may rely on *)

LockedRowsAreOpen ==
  \A r \in Actors : Locking(req[r]) =>
    txnHolder[req[r].txn] = r /\ StillOpen(r)

DraftsAreTransfers ==
  \A r \in Actors : req[r].pc \in {"insert", "insertReceiver"} =>
    /\ req[r].op = "initiate"
    /\ req[r].draft.sender \in Accounts /\ req[r].draft.receiver \in Accounts
    /\ req[r].draft.sender # req[r].draft.receiver

RowsToFailExist ==
  \A r \in Actors : req[r].pc = "markFailed" =>
    \A t \in req[r].failing : txn[t].status # "NONE"

SessionsInv == LockedRowsAreOpen /\ DraftsAreTransfers /\ RowsToFailExist

XInv == LInv /\ SessionsInv /\ RowsInv

-----------------------------------------------------------------------------
(* Entries *)

\* EntriesMatchTransaction for one entry, and for one transaction.
EntryFits(a, i) ==
  LET e == ledger[a][i] IN
  /\ txn[e.txn].status \notin {"NONE", "PENDING"}
  /\ IF e.kind = "DEBIT"
     THEN a = txn[e.txn].sender /\ e.amount = txn[e.txn].amount
     ELSE a = txn[e.txn].receiver /\ e.amount = txn[e.txn].credit
  /\ \A j \in 1..Len(ledger[a]) :
       ledger[a][j].txn = e.txn /\ ledger[a][j].kind = e.kind => i = j

WholeOrNothing(t) ==
  \/ \A kind \in Kinds : SideOf(t, kind) # NoAccount => HasEntry(t, kind)
  \/ /\ \A kind \in Kinds : SideOf(t, kind) # NoAccount => ~HasEntry(t, kind)
     /\ txn[t].status \in {"NONE", "PENDING", "FAILED"}

EntriesFit ==
  \A a \in Accounts : \A i \in 1..Len(ledger[a]) : EntryFits(a, i)
AllWholeOrNothing == \A t \in TxnIds : WholeOrNothing(t)

\* The double entry rule, one entry and one transaction at a time.
LEMMA EntriesByParts ==
  EntriesMatchTransaction <=> EntriesFit /\ AllWholeOrNothing
<1>1. ASSUME NEW t \in TxnIds
      PROVE  LET sides == {kind \in {"DEBIT", "CREDIT"} :
                             IF kind = "DEBIT" THEN txn[t].sender # NoAccount
                                               ELSE txn[t].receiver # NoAccount}
             IN (\/ \A kind \in sides : HasEntry(t, kind)
                 \/ /\ \A kind \in sides : ~HasEntry(t, kind)
                    /\ txn[t].status \in {"NONE", "PENDING", "FAILED"})
                <=> WholeOrNothing(t)
  BY DEF WholeOrNothing, SideOf, Kinds
<1> QED
  BY <1>1 DEF EntriesMatchTransaction, EntriesFit, EntryFits,
     AllWholeOrNothing

\* An entry of a transaction is on an account of that transaction, which is
\* neither unknown nor PENDING.
LEMMA EntriesHaveOrders ==
  ASSUME TypeOK, EntriesMatchTransaction, NEW t \in TxnIds, NEW kind \in Kinds,
         HasEntry(t, kind)
  PROVE  /\ txn[t].status \notin {"NONE", "PENDING"}
         /\ SideOf(t, kind) \in Accounts /\ SideOf(t, kind) # NoAccount
<1>a. PICK a \in Accounts : \E i \in DOMAIN ledger[a] :
        ledger[a][i].txn = t /\ ledger[a][i].kind = kind
  BY DEF HasEntry
<1>1. PICK i \in DOMAIN ledger[a] :
        ledger[a][i].txn = t /\ ledger[a][i].kind = kind
  BY <1>a
<1>2. ledger[a] \in Seq(Entry)
  BY DEF TypeOK
<1>3. i \in 1..Len(ledger[a])
  BY <1>1, <1>2
<1>4. EntryFits(a, i)
  BY <1>3, EntriesByParts DEF EntriesFit
<1> QED
  BY <1>1, <1>4, NoAccountIsNoAccount DEF EntryFits, SideOf, Kinds

\* What Post appends to the ledger of an account.
LEMMA PostAppends ==
  ASSUME TypeOK, NEW m \in MovementType, Post(m), NEW a \in Accounts,
         NEW n \in Nat, n = Len(ledger[a])
  PROVE  /\ \A i \in 1..n : ledger'[a][i] = ledger[a][i]
         /\ a \notin {m.from, m.to} => Len(ledger'[a]) = n
         /\ a \in {m.from, m.to} => /\ Len(ledger'[a]) = n + 1
                                    /\ ledger'[a][n + 1] = EntryOf(m, a)
<1>1. ledger[a] \in Seq(Entry)
  BY DEF TypeOK
<1>2. CASE a \notin {m.from, m.to}
  <2>1. ledger'[a] = ledger[a]
    BY <1>2 DEF Post
  <2> QED
    BY <1>2, <2>1
<1>3. CASE a \in {m.from, m.to}
  <2>1. PICK e : e = EntryOf(m, a)
    OBVIOUS
  <2>2. ledger'[a] = Append(ledger[a], e)
    BY <1>3, <2>1 DEF Post
  <2> QED
    BY <1>1, <1>3, <2>1, <2>2
<1> QED
  BY <1>2, <1>3

\* Post gives the transaction of the movement one entry per side, and no
\* entry to another transaction.
LEMMA EntriesAfterPost ==
  ASSUME TypeOK, TypeOK', NEW m \in MovementType, m.from # m.to, Post(m),
         NEW t \in TxnIds, NEW kind \in Kinds
  PROVE  HasEntry(t, kind)' <=>
           HasEntry(t, kind) \/ (t = m.id /\ SideOfMove(m, kind) # NoAccount)
<1>t. \A a \in Accounts : ledger[a] \in Seq(Entry) /\ ledger'[a] \in Seq(Entry)
  BY DEF TypeOK
<1>e. ASSUME NEW a \in Accounts
      PROVE  /\ EntryOf(m, a).txn = m.id
             /\ EntryOf(m, a).kind = IF a = m.from THEN "DEBIT" ELSE "CREDIT"
  BY DEF EntryOf
<1>1. ASSUME HasEntry(t, kind) PROVE HasEntry(t, kind)'
  <2>a. PICK a \in Accounts : \E i \in DOMAIN ledger[a] :
          ledger[a][i].txn = t /\ ledger[a][i].kind = kind
    BY <1>1 DEF HasEntry
  <2>1. PICK i \in DOMAIN ledger[a] :
          ledger[a][i].txn = t /\ ledger[a][i].kind = kind
    BY <2>a
  <2>2. PICK n \in Nat : n = Len(ledger[a])
    BY <1>t
  <2>3. i \in 1..n /\ i \in 1..Len(ledger'[a])
    BY <1>t, <2>1, <2>2, PostAppends
  <2>4. i \in DOMAIN ledger'[a] /\ ledger'[a][i] = ledger[a][i]
    BY <1>t, <2>2, <2>3, PostAppends
  <2> QED
    BY <2>1, <2>4 DEF HasEntry
<1>2. ASSUME t = m.id, SideOfMove(m, kind) # NoAccount
      PROVE  HasEntry(t, kind)'
  <2>1. PICK a \in Accounts : a = SideOfMove(m, kind)
    BY <1>2 DEF SideOfMove, MovementType
  <2>2. PICK n \in Nat : n = Len(ledger[a])
    BY <1>t
  <2>3. a \in {m.from, m.to} /\ EntryOf(m, a).kind = kind
    BY <1>e, <2>1 DEF SideOfMove, Kinds
  <2>4. ledger'[a][n + 1] = EntryOf(m, a) /\ Len(ledger'[a]) = n + 1
    BY <2>2, <2>3, PostAppends
  <2>5. n + 1 \in DOMAIN ledger'[a]
    BY <1>t, <2>4
  <2> QED
    BY <1>2, <1>e, <2>3, <2>4, <2>5 DEF HasEntry
<1>3. ASSUME HasEntry(t, kind)', ~HasEntry(t, kind)
      PROVE  t = m.id /\ SideOfMove(m, kind) # NoAccount
  <2>a. PICK a \in Accounts : \E i \in DOMAIN ledger'[a] :
          ledger'[a][i].txn = t /\ ledger'[a][i].kind = kind
    BY <1>3 DEF HasEntry
  <2>1. PICK i \in DOMAIN ledger'[a] :
          ledger'[a][i].txn = t /\ ledger'[a][i].kind = kind
    BY <2>a
  <2>2. PICK n \in Nat : n = Len(ledger[a])
    BY <1>t
  <2>3. i \in 1..Len(ledger'[a])
    BY <1>t, <2>1
  <2>4. i \notin 1..n
    <3>1. SUFFICES ASSUME i \in 1..n PROVE FALSE
      OBVIOUS
    <3>2. ledger[a][i] = ledger'[a][i] /\ i \in DOMAIN ledger[a]
      BY <1>t, <2>2, <3>1, PostAppends
    <3> QED
      BY <1>3, <2>1, <3>2 DEF HasEntry
  <2>5. a \in {m.from, m.to} /\ i = n + 1
    <3>1. a \in {m.from, m.to}
      BY <2>2, <2>3, <2>4, PostAppends
    <3>2. Len(ledger'[a]) = n + 1
      BY <2>2, <3>1, PostAppends
    <3> QED
      BY <2>3, <2>4, <3>1, <3>2
  <2>6. ledger'[a][i] = EntryOf(m, a)
    BY <2>2, <2>5, PostAppends
  <2>7. t = m.id /\ kind = IF a = m.from THEN "DEBIT" ELSE "CREDIT"
    BY <1>e, <2>1, <2>6
  <2> QED
    BY <2>5, <2>7, NoAccountIsNoAccount DEF SideOfMove
<1> QED
  BY <1>1, <1>2, <1>3

\* A movement that is the first of its transaction, and that is exactly what
\* the transaction's row then says, keeps the double entry rule.
LEMMA PostKeepsEntries ==
  ASSUME TypeOK, TypeOK', EntriesMatchTransaction, NEW m \in MovementType,
         m.from # m.to, Post(m),
         \A kind \in Kinds : ~HasEntry(m.id, kind),
         txn'[m.id].status = "SUCCESS",
         txn'[m.id].sender = m.from, txn'[m.id].receiver = m.to,
         txn'[m.id].amount = m.debit, txn'[m.id].credit = m.credit,
         \A t \in TxnIds \ {m.id} :
           /\ txn'[t].sender = txn[t].sender /\ txn'[t].receiver = txn[t].receiver
           /\ txn'[t].amount = txn[t].amount /\ txn'[t].credit = txn[t].credit
           /\ \/ txn'[t].status = txn[t].status
              \/ txn[t].status = "SUCCESS" /\ txn'[t].status = "REVERSED"
  PROVE  EntriesMatchTransaction'
<1>t. \A a \in Accounts : ledger[a] \in Seq(Entry) /\ ledger'[a] \in Seq(Entry)
  BY DEF TypeOK
<1>i. m.id \in TxnIds
  BY DEF MovementType
<1>n. ASSUME NEW a \in Accounts, NEW i \in 1..Len(ledger[a])
      PROVE  ledger[a][i].txn \in TxnIds \ {m.id} /\ ledger[a][i].kind \in Kinds
  <2>1. ledger[a][i] \in Entry /\ i \in DOMAIN ledger[a]
    BY <1>t
  <2> QED
    BY <2>1 DEF Entry, Kinds, HasEntry
<1>1. ASSUME NEW a \in Accounts, NEW i \in 1..Len(ledger'[a])
      PROVE  EntryFits(a, i)'
  <2>1. PICK n \in Nat : n = Len(ledger[a])
    BY <1>t
  <2>2. PICK k \in Nat : k = Len(ledger'[a])
    BY <1>t
  <2>3. CASE i \in 1..n
    <3>1. EntryFits(a, i) /\ ledger'[a][i] = ledger[a][i]
      BY <2>1, <2>3, EntriesByParts, PostAppends DEF EntriesFit
    <3>2. PICK e : e = ledger[a][i]
      OBVIOUS
    <3>3. e.txn \in TxnIds \ {m.id}
      BY <1>n, <2>1, <2>3, <3>2
    <3>4. /\ txn'[e.txn].status \notin {"NONE", "PENDING"}
          /\ IF e.kind = "DEBIT"
             THEN a = txn'[e.txn].sender /\ e.amount = txn'[e.txn].amount
             ELSE a = txn'[e.txn].receiver /\ e.amount = txn'[e.txn].credit
      BY <3>1, <3>2, <3>3 DEF EntryFits
    <3>5. ASSUME NEW j \in 1..k, ledger'[a][j].txn = e.txn,
                 ledger'[a][j].kind = e.kind
          PROVE  i = j
      <4>1. CASE j \in 1..n
        <5>1. ledger'[a][j] = ledger[a][j]
          BY <2>1, <4>1, PostAppends
        <5>2. \A l \in 1..n :
                ledger[a][l].txn = e.txn /\ ledger[a][l].kind = e.kind => i = l
          BY <2>1, <3>1, <3>2 DEF EntryFits
        <5> QED
          BY <3>5, <4>1, <5>1, <5>2
      <4>2. CASE j \notin 1..n
        <5>1. a \in {m.from, m.to}
          BY <2>1, <2>2, <3>5, <4>2, PostAppends
        <5>2. k = n + 1 /\ ledger'[a][n + 1] = EntryOf(m, a)
          BY <2>1, <2>2, <5>1, PostAppends
        <5>3. j = n + 1
          BY <2>2, <4>2, <5>2
        <5>4. ledger'[a][j].txn = m.id
          BY <5>2, <5>3 DEF EntryOf
        <5> QED
          BY <3>3, <3>5, <5>4
      <4> QED
        BY <4>1, <4>2
    <3> QED
      BY <2>2, <3>1, <3>2, <3>4, <3>5 DEF EntryFits
  <2>4. CASE i \notin 1..n
    <3>1. a \in {m.from, m.to}
      BY <2>1, <2>4, PostAppends
    <3>2. k = n + 1 /\ ledger'[a][n + 1] = EntryOf(m, a)
      BY <2>1, <2>2, <3>1, PostAppends
    <3>3. i = n + 1
      BY <2>2, <2>4, <3>2
    <3>4. PICK e : e = ledger'[a][i]
      OBVIOUS
    <3>5. /\ e.txn = m.id
          /\ IF e.kind = "DEBIT" THEN a = m.from /\ e.amount = m.debit
                                 ELSE a = m.to /\ e.amount = m.credit
      BY <3>1, <3>2, <3>3, <3>4 DEF EntryOf
    <3>6. ASSUME NEW j \in 1..k, ledger'[a][j].txn = e.txn
          PROVE  i = j
      <4>1. j \notin 1..n
        BY <1>n, <2>1, <3>5, <3>6, PostAppends
      <4> QED
        BY <3>2, <3>3, <4>1
    <3> QED
      BY <2>2, <3>4, <3>5, <3>6 DEF EntryFits
  <2> QED
    BY <2>3, <2>4
<1>2. ASSUME NEW t \in TxnIds PROVE WholeOrNothing(t)'
  <2>1. CASE t = m.id
    <3>1. ASSUME NEW kind \in Kinds, SideOf(t, kind)' # NoAccount
          PROVE  HasEntry(t, kind)'
      <4>1. SideOfMove(m, kind) # NoAccount
        BY <2>1, <3>1 DEF SideOf, SideOfMove
      <4> QED
        BY <2>1, <4>1, EntriesAfterPost
    <3> QED
      BY <3>1 DEF WholeOrNothing
  <2>2. CASE t # m.id
    <3>1. ASSUME NEW kind \in Kinds
          PROVE  /\ HasEntry(t, kind)' <=> HasEntry(t, kind)
                 /\ SideOf(t, kind)' = SideOf(t, kind)
      BY <2>2, EntriesAfterPost DEF SideOf
    <3>2. WholeOrNothing(t)
      BY EntriesByParts DEF AllWholeOrNothing
    <3>3. txn'[t].status = txn[t].status
            \/ txn[t].status \notin {"NONE", "PENDING", "FAILED"}
      BY <2>2
    <3> QED
      BY <3>1, <3>2, <3>3 DEF WholeOrNothing
  <2> QED
    BY <2>1, <2>2
<1>3. EntriesFit' /\ AllWholeOrNothing'
  BY <1>1, <1>2 DEF EntriesFit, AllWholeOrNothing
<1> QED
  BY <1>3, EntriesByParts, PTL

\* A step that writes no entry keeps the double entry rule, if it only fails
\* transactions that exist and inserts PENDING ones.
LEMMA UnpostedKeepsEntries ==
  ASSUME TypeOK, EntriesMatchTransaction, UNCHANGED ledger,
         \A t \in TxnIds :
           \/ txn[t].status = "NONE" /\ txn'[t].status = "PENDING"
           \/ /\ txn'[t].sender = txn[t].sender
              /\ txn'[t].receiver = txn[t].receiver
              /\ txn'[t].amount = txn[t].amount /\ txn'[t].credit = txn[t].credit
              /\ txn'[t].status \in {txn[t].status, "FAILED"}
  PROVE  EntriesMatchTransaction'
<1>h. \A t \in TxnIds, kind \in Kinds : HasEntry(t, kind)' <=> HasEntry(t, kind)
  BY DEF HasEntry
<1>1. ASSUME NEW a \in Accounts, NEW i \in 1..Len(ledger'[a])
      PROVE  EntryFits(a, i)'
  <2>1. EntryFits(a, i)
    BY EntriesByParts DEF EntriesFit
  <2>2. ledger[a][i].txn \in TxnIds
    <3>1. ledger[a] \in Seq(Entry)
      BY DEF TypeOK
    <3>2. ledger[a][i] \in Entry
      BY <3>1
    <3> QED
      BY <3>2 DEF Entry
  <2> QED
    BY <2>1, <2>2 DEF EntryFits
<1>2. ASSUME NEW t \in TxnIds PROVE WholeOrNothing(t)'
  <2>1. WholeOrNothing(t)
    BY EntriesByParts DEF AllWholeOrNothing
  <2>2. CASE txn[t].status = "NONE" /\ txn'[t].status = "PENDING"
    <3>1. \A kind \in Kinds : ~HasEntry(t, kind)
      BY <2>2, EntriesHaveOrders
    <3> QED
      BY <1>h, <2>2, <3>1 DEF WholeOrNothing
  <2>3. CASE /\ \A kind \in Kinds : SideOf(t, kind)' = SideOf(t, kind)
             /\ txn'[t].status \in {txn[t].status, "FAILED"}
    BY <1>h, <2>1, <2>3 DEF WholeOrNothing
  <2> QED
    BY <2>2, <2>3 DEF SideOf
<1>3. EntriesFit' /\ AllWholeOrNothing'
  BY <1>1, <1>2 DEF EntriesFit, AllWholeOrNothing
<1> QED
  BY <1>3, EntriesByParts, PTL

\* A transaction of a status has two sides, so a whole one has an entry.
LEMMA WholeHasEntry ==
  ASSUME RowsInv, NEW t \in TxnIds, txn[t].status \in {"SUCCESS", "REVERSED"}
  PROVE  HasEntry(t, "DEBIT") \/ HasEntry(t, "CREDIT")
<1>1. WholeOrNothing(t)
  BY EntriesByParts DEF RowsInv, AllWholeOrNothing
<1>2. txn[t].sender # NoAccount \/ txn[t].receiver # NoAccount
  BY DEF RowsInv, TwoSides
<1> QED
  BY <1>1, <1>2 DEF WholeOrNothing, SideOf, Kinds

\* Steps that reverse nothing keep the uniqueness of reversals.
LEMMA ReversalsKept ==
  ASSUME ReversalsAreUnique,
         \A t \in TxnIds :
           /\ txn'[t].reversalOf = txn[t].reversalOf
           /\ \A kind \in Kinds : HasEntry(t, kind) => HasEntry(t, kind)'
           /\ \/ Reversals(t) = {}
              \/ txn'[t].status \in {txn[t].status, "FAILED"}
  PROVE  ReversalsAreUnique'
<1>1. \A t \in TxnIds : Reversals(t)' = Reversals(t)
  BY DEF Reversals
<1> QED
  BY <1>1 DEF ReversalsAreUnique, Kinds

\* Steps that write no transactions row and no entry.
LEMMA RowsInvQuiet ==
  ASSUME RowsInv, UNCHANGED <<txn, ledger>>,
         \A t \in TxnIds : /\ conf'[t].verified = conf[t].verified
                           /\ \/ conf'[t].attempts = conf[t].attempts
                              \/ ~(conf'[t].attempts >= MaxAttempts)
  PROVE  RowsInv'
<1>1. BlankRows' /\ TwoSides'
  BY DEF RowsInv, BlankRows, TwoSides
<1>h. \A t \in TxnIds, kind \in Kinds : HasEntry(t, kind)' <=> HasEntry(t, kind)
  BY DEF HasEntry
<1>2. EntriesMatchTransaction'
  BY DEF RowsInv, EntriesMatchTransaction, HasEntry
<1>3. ReversalsAreUnique'
  BY <1>h, ReversalsKept DEF RowsInv
<1>4. MovedMeansVerified'
  BY <1>h DEF RowsInv, MovedMeansVerified, Kinds
<1>5. ExhaustedIsFailed'
  BY DEF RowsInv, ExhaustedIsFailed
<1> QED
  BY <1>1, <1>2, <1>3, <1>4, <1>5 DEF RowsInv

\* Steps that write FAILED, and nothing else, into transactions that exist.
LEMMA RowsInvFail ==
  ASSUME TypeOK, RowsInv, UNCHANGED ledger,
         NEW F \in SUBSET TxnIds, \A t \in F : txn[t].status # "NONE",
         txn' = [t \in TxnIds |-> IF t \in F
                                  THEN [txn[t] EXCEPT !.status = "FAILED"]
                                  ELSE txn[t]],
         \A t \in TxnIds : /\ conf'[t].verified = conf[t].verified
                           /\ t \notin F => conf'[t].attempts = conf[t].attempts
  PROVE  RowsInv'
<1>t. ASSUME NEW t \in TxnIds
      PROVE  /\ txn[t] \in Transaction
             /\ t \notin F => txn'[t] = txn[t]
             /\ t \in F => txn'[t].status = "FAILED"
             /\ txn'[t].type = txn[t].type
             /\ txn'[t].sender = txn[t].sender /\ txn'[t].receiver = txn[t].receiver
             /\ txn'[t].amount = txn[t].amount /\ txn'[t].credit = txn[t].credit
             /\ txn'[t].otpVerified = txn[t].otpVerified
             /\ txn'[t].reversalOf = txn[t].reversalOf
  <2>1. txn[t] \in Transaction
    BY DEF TypeOK
  <2> QED
    BY <2>1 DEF Transaction
<1>h. \A t \in TxnIds, kind \in Kinds : HasEntry(t, kind)' <=> HasEntry(t, kind)
  BY DEF HasEntry
<1>1. BlankRows' /\ TwoSides'
  BY <1>t DEF RowsInv, BlankRows, TwoSides
<1>2. EntriesMatchTransaction'
  BY <1>t, UnpostedKeepsEntries DEF RowsInv
<1>3. ReversalsAreUnique'
  BY <1>h, <1>t, ReversalsKept DEF RowsInv
<1>4. MovedMeansVerified'
  BY <1>h, <1>t DEF RowsInv, MovedMeansVerified, Kinds
<1>5. ExhaustedIsFailed'
  BY <1>t DEF RowsInv, ExhaustedIsFailed
<1> QED
  BY <1>1, <1>2, <1>3, <1>4, <1>5 DEF RowsInv

\* A transaction that does not exist has no entries and is undone by none.
LEMMA BlankRowsAreUnused ==
  ASSUME TypeOK, RowsInv, NEW t \in TxnIds, txn[t].status = "NONE"
  PROVE  /\ \A kind \in Kinds : ~HasEntry(t, kind)
         /\ Reversals(t) = {} /\ txn[t].reversalOf = NoTxn
<1>1. \A kind \in Kinds : ~HasEntry(t, kind)
  BY EntriesHaveOrders DEF RowsInv
<1>2. Reversals(t) = {}
  BY DEF RowsInv, ReversalsAreUnique
<1> QED
  BY <1>1, <1>2 DEF RowsInv, BlankRows, NoTransaction

\* The INSERT of a PENDING transfer with its challenge.
LEMMA RowsInvInitiate ==
  ASSUME TypeOK, RowsInv, UNCHANGED ledger,
         NEW t \in TxnIds, txn[t].status = "NONE",
         NEW row \in Transaction, NEW challenge \in Confirmation,
         row.type = "TRANSFER", row.status = "PENDING", ~row.otpVerified,
         row.reversalOf = NoTxn, row.sender \in Accounts,
         row.receiver \in Accounts, row.sender # row.receiver,
         challenge.attempts = 0, ~challenge.verified,
         txn' = [txn EXCEPT ![t] = row], conf' = [conf EXCEPT ![t] = challenge]
  PROVE  RowsInv'
<1>t. /\ txn'[t] = row /\ conf'[t] = challenge
      /\ \A u \in TxnIds \ {t} : txn'[u] = txn[u] /\ conf'[u] = conf[u]
  BY DEF TypeOK
<1>h. \A u \in TxnIds, kind \in Kinds : HasEntry(u, kind)' <=> HasEntry(u, kind)
  BY DEF HasEntry
<1>b. /\ \A kind \in Kinds : ~HasEntry(t, kind)
      /\ Reversals(t) = {} /\ txn[t].reversalOf = NoTxn
  BY BlankRowsAreUnused
<1>1. BlankRows' /\ TwoSides'
  <2>1. ASSUME NEW u \in TxnIds
        PROVE  /\ txn'[u].status = "NONE" => txn'[u] = NoTransaction
               /\ txn'[u].status # "NONE" => txn'[u].sender # txn'[u].receiver
               /\ txn'[u].type = "TRANSFER" =>
                    txn'[u].sender # NoAccount /\ txn'[u].receiver # NoAccount
    <3>1. CASE u = t
      BY <1>t, <3>1, NoAccountIsNoAccount
    <3>2. CASE u # t
      BY <1>t, <3>2 DEF RowsInv, BlankRows, TwoSides
    <3> QED
      BY <3>1, <3>2
  <2> QED
    BY <2>1 DEF BlankRows, TwoSides
<1>2. EntriesMatchTransaction'
  <2>1. ASSUME NEW u \in TxnIds
        PROVE  \/ txn[u].status = "NONE" /\ txn'[u].status = "PENDING"
               \/ txn'[u] = txn[u]
    BY <1>t
  <2> QED
    BY <2>1, UnpostedKeepsEntries DEF RowsInv
<1>3. ReversalsAreUnique'
  <2>1. ASSUME NEW u \in TxnIds
        PROVE  /\ txn'[u].reversalOf = txn[u].reversalOf
               /\ Reversals(u) = {} \/ txn'[u].status = txn[u].status
    BY <1>b, <1>t
  <2> QED
    BY <1>h, <2>1, ReversalsKept DEF RowsInv
<1>4. MovedMeansVerified'
  <2>1. ASSUME NEW u \in TxnIds, txn'[u].type = "TRANSFER",
               txn'[u].reversalOf = NoTxn
        PROVE  /\ HasEntry(u, "DEBIT")' <=> txn'[u].otpVerified
               /\ HasEntry(u, "DEBIT")' <=> conf'[u].verified
    <3>1. CASE u = t
      BY <1>t, <1>h, <1>b, <3>1 DEF Kinds
    <3>2. CASE u # t
      BY <1>t, <1>h, <2>1, <3>2 DEF RowsInv, MovedMeansVerified, Kinds
    <3> QED
      BY <3>1, <3>2
  <2> QED
    BY <2>1 DEF MovedMeansVerified
<1>5. ExhaustedIsFailed'
  <2>1. ASSUME NEW u \in TxnIds, conf'[u].attempts >= MaxAttempts
        PROVE  txn'[u].status = "FAILED"
    <3>1. u # t
      BY <1>t, <2>1, BoundsAssumption
    <3> QED
      BY <1>t, <2>1, <3>1 DEF RowsInv, ExhaustedIsFailed
  <2> QED
    BY <2>1 DEF ExhaustedIsFailed
<1> QED
  BY <1>1, <1>2, <1>3, <1>4, <1>5 DEF RowsInv

\* deposit and withdraw.
LEMMA RowsInvSingleSided ==
  ASSUME TypeOK, TypeOK', RowsInv, NEW type \in {"DEPOSIT", "WITHDRAWAL"},
         NEW m \in MovementType, m.from # m.to, SingleSided(type, m)
  PROVE  RowsInv'
<1> DEFINE row == [type |-> type, sender |-> m.from, receiver |-> m.to,
                   amount |-> m.debit, credit |-> m.credit,
                   status |-> "SUCCESS", otpVerified |-> FALSE,
                   reversalOf |-> NoTxn]
<1>s. /\ txn[m.id].status = "NONE" /\ Post(m) /\ UNCHANGED conf
      /\ txn' = [txn EXCEPT ![m.id] = row]
  BY DEF SingleSided
<1>i. m.id \in TxnIds
  BY DEF MovementType
<1>t. /\ txn'[m.id] = row
      /\ \A u \in TxnIds \ {m.id} : txn'[u] = txn[u]
  BY <1>i, <1>s DEF TypeOK
<1>b. /\ \A kind \in Kinds : ~HasEntry(m.id, kind)
      /\ Reversals(m.id) = {} /\ txn[m.id].reversalOf = NoTxn
  BY <1>i, <1>s, BlankRowsAreUnused
<1>h. ASSUME NEW u \in TxnIds, NEW kind \in Kinds
      PROVE  /\ HasEntry(u, kind) => HasEntry(u, kind)'
             /\ u # m.id => (HasEntry(u, kind)' <=> HasEntry(u, kind))
  BY <1>s, EntriesAfterPost
<1>1. BlankRows' /\ TwoSides'
  BY <1>t DEF RowsInv, BlankRows, TwoSides
<1>2. EntriesMatchTransaction'
  BY <1>b, <1>s, <1>t, PostKeepsEntries DEF RowsInv
<1>3. ReversalsAreUnique'
  <2>1. ASSUME NEW u \in TxnIds
        PROVE  /\ txn'[u].reversalOf = txn[u].reversalOf
               /\ Reversals(u) = {} \/ txn'[u].status = txn[u].status
    BY <1>b, <1>t
  <2> QED
    BY <1>h, <2>1, ReversalsKept DEF RowsInv
<1>4. MovedMeansVerified'
  <2>1. ASSUME NEW u \in TxnIds, txn'[u].type = "TRANSFER",
               txn'[u].reversalOf = NoTxn
        PROVE  /\ HasEntry(u, "DEBIT")' <=> txn'[u].otpVerified
               /\ HasEntry(u, "DEBIT")' <=> conf'[u].verified
    <3>1. u # m.id
      BY <1>t, <2>1
    <3> QED
      BY <1>s, <1>t, <1>h, <2>1, <3>1 DEF RowsInv, MovedMeansVerified, Kinds
  <2> QED
    BY <2>1 DEF MovedMeansVerified
<1>5. ExhaustedIsFailed'
  BY <1>s, <1>t DEF RowsInv, ExhaustedIsFailed
<1> QED
  BY <1>1, <1>2, <1>3, <1>4, <1>5 DEF RowsInv

\* The execution of a confirmed transfer, from the row as it was tested.
LEMMA RowsInvConfirm ==
  ASSUME TInv, TypeOK', RowsInv, LockedRowsAreOpen, NEW r \in Actors,
         ConfirmExecute(r)
  PROVE  RowsInv'
<1>0. /\ req[r].op = "confirm" /\ req[r].pc = "execute"
      /\ req[r].txn \in TxnIds
  BY DEF ConfirmExecute, At, TInv, WorkingRows, Working
<1>1. PICK t \in TxnIds : t = req[r].txn
  BY <1>0
<1>2. PICK m \in MovementType : m = Movement(r, t)
  BY <1>0, MovementOfSession DEF TInv
<1>s. /\ Post(m)
      /\ txn' = [txn EXCEPT ![t].status = "SUCCESS", ![t].otpVerified = TRUE]
      /\ conf' = [conf EXCEPT ![t].verified = TRUE]
  BY <1>1, <1>2 DEF ConfirmExecute
<1>i. txn[t].status = "PENDING" /\ txn[t] \in Transaction
  BY <1>0, <1>1 DEF TInv, TypeOK, LockedRowsAreOpen, Locking, StillOpen
<1>m. /\ m.id = t /\ m.from = txn[t].sender /\ m.to = txn[t].receiver
      /\ m.debit = txn[t].amount /\ m.credit = txn[t].credit
  BY <1>0, <1>1, <1>2 DEF Movement
<1>n. m.from # m.to
  BY <1>i, <1>m DEF RowsInv, TwoSides
<1>t. /\ txn'[t] = [txn[t] EXCEPT !.status = "SUCCESS", !.otpVerified = TRUE]
      /\ \A u \in TxnIds \ {t} : txn'[u] = txn[u] /\ conf'[u] = conf[u]
      /\ conf'[t].verified /\ conf'[t].attempts = conf[t].attempts
  <2>1. conf[t] \in Confirmation
    BY <1>i DEF TInv, TypeOK
  <2> QED
    BY <1>i, <1>s, <2>1 DEF TInv, TypeOK, Confirmation
<1>r. /\ txn'[t].status = "SUCCESS" /\ txn'[t].otpVerified
      /\ txn'[t].sender = m.from /\ txn'[t].receiver = m.to
      /\ txn'[t].amount = m.debit /\ txn'[t].credit = m.credit
      /\ txn'[t].type = txn[t].type /\ txn'[t].reversalOf = txn[t].reversalOf
  BY <1>i, <1>m, <1>t DEF Transaction
<1>b. \A kind \in Kinds : ~HasEntry(t, kind)
  BY <1>i, EntriesHaveOrders DEF RowsInv, TInv
<1>h. ASSUME NEW u \in TxnIds, NEW kind \in Kinds
      PROVE  HasEntry(u, kind)' <=>
               HasEntry(u, kind) \/ (u = t /\ SideOfMove(m, kind) # NoAccount)
  BY <1>m, <1>n, <1>s, EntriesAfterPost DEF TInv
<1>3. BlankRows' /\ TwoSides'
  <2>1. BlankRows'
    <3>1. ASSUME NEW u \in TxnIds, txn'[u].status = "NONE"
          PROVE  txn'[u] = NoTransaction
      <4>1. u # t
        BY <1>r, <3>1
      <4>2. txn'[u] = txn[u]
        BY <1>t, <4>1
      <4> QED
        BY <3>1, <4>2 DEF RowsInv, BlankRows
    <3> QED
      BY <3>1 DEF BlankRows
  <2>2. ASSUME NEW u \in TxnIds
        PROVE  /\ txn'[u].status # "NONE" => txn'[u].sender # txn'[u].receiver
               /\ txn'[u].type = "TRANSFER" =>
                    txn'[u].sender # NoAccount /\ txn'[u].receiver # NoAccount
    <3>1. CASE u = t
      BY <1>i, <1>m, <1>n, <1>r, <3>1 DEF RowsInv, TwoSides
    <3>2. CASE u # t
      BY <1>t, <3>2 DEF RowsInv, TwoSides
    <3> QED
      BY <3>1, <3>2
  <2> QED
    BY <2>1, <2>2 DEF TwoSides
<1>4. EntriesMatchTransaction'
  <2>1. /\ \A kind \in Kinds : ~HasEntry(m.id, kind)
        /\ txn'[m.id].status = "SUCCESS"
        /\ txn'[m.id].sender = m.from /\ txn'[m.id].receiver = m.to
        /\ txn'[m.id].amount = m.debit /\ txn'[m.id].credit = m.credit
    BY <1>b, <1>m, <1>r
  <2>2. \A u \in TxnIds \ {m.id} : txn'[u] = txn[u]
    BY <1>m, <1>t
  <2> QED
    BY <1>n, <1>s, <2>1, <2>2, PostKeepsEntries DEF RowsInv, TInv
<1>5. ReversalsAreUnique'
  <2>1. Reversals(t) = {}
    BY <1>i DEF RowsInv, ReversalsAreUnique
  <2>2. ASSUME NEW u \in TxnIds
        PROVE  /\ txn'[u].reversalOf = txn[u].reversalOf
               /\ Reversals(u) = {} \/ txn'[u].status = txn[u].status
    BY <1>r, <1>t, <2>1
  <2> QED
    BY <1>h, <2>2, ReversalsKept DEF RowsInv
<1>6. MovedMeansVerified'
  <2>1. ASSUME NEW u \in TxnIds, txn'[u].type = "TRANSFER",
               txn'[u].reversalOf = NoTxn
        PROVE  /\ HasEntry(u, "DEBIT")' <=> txn'[u].otpVerified
               /\ HasEntry(u, "DEBIT")' <=> conf'[u].verified
    <3>1. CASE u = t
      <4>1. m.from # NoAccount
        BY <1>i, <1>m, <1>r, <2>1, <3>1 DEF RowsInv, TwoSides
      <4>2. HasEntry(t, "DEBIT")'
        BY <1>h, <1>i, <4>1 DEF Kinds, SideOfMove
      <4> QED
        BY <1>r, <1>t, <3>1, <4>2
    <3>2. CASE u # t
      BY <1>t, <1>h, <2>1, <3>2 DEF RowsInv, MovedMeansVerified, Kinds
    <3> QED
      BY <3>1, <3>2
  <2> QED
    BY <2>1 DEF MovedMeansVerified
<1>7. ExhaustedIsFailed'
  <2>1. ASSUME NEW u \in TxnIds, conf'[u].attempts >= MaxAttempts
        PROVE  txn'[u].status = "FAILED"
    BY <1>i, <1>t, <2>1 DEF RowsInv, ExhaustedIsFailed
  <2> QED
    BY <2>1 DEF ExhaustedIsFailed
<1> QED
  BY <1>3, <1>4, <1>5, <1>6, <1>7 DEF RowsInv

\* What session r writes to undo transaction t: transaction u with movement m.
ReversalWrites(r, t, u, m, row) ==
  /\ t = req[r].txn /\ txn[t].status = "SUCCESS" /\ Reversals(t) = {}
  /\ txn[u].status = "NONE" /\ u # t
  /\ m.id = u /\ m.from # m.to /\ Permitted(m) /\ Post(m)
  /\ {m.from, m.to} \ {NoAccount} = AccountsOf(t)
  /\ m.seen = req[r].view
  /\ m.from = txn[t].receiver /\ m.to = txn[t].sender
  /\ m.debit = txn[t].amount /\ m.credit = txn[t].amount
  /\ row.type = ReversalType(txn[t].type) /\ row.status = "SUCCESS"
  /\ row.sender = m.from /\ row.receiver = m.to
  /\ row.amount = m.debit /\ row.credit = m.credit
  /\ row.reversalOf = t
  /\ txn'[u] = row /\ txn'[t] = [txn[t] EXCEPT !.status = "REVERSED"]
  /\ \A v \in TxnIds \ {t, u} : txn'[v] = txn[v]

\* What a reversal writes into the transactions table.
LEMMA ReversalRows ==
  ASSUME TInv, RowsInv, LockedRowsAreOpen, NEW r \in Actors, ReverseExecute(r)
  PROVE  \E t, u \in TxnIds, m \in MovementType, row \in Transaction :
           ReversalWrites(r, t, u, m, row)
<1>s. /\ req[r].op = "reverse" /\ req[r].pc = "execute"
      /\ req[r].txn \in TxnIds
  BY DEF ReverseExecute, At, TInv, WorkingRows, Working
<1>1. PICK t \in TxnIds : t = req[r].txn
  BY <1>s
<1>i. /\ txn[t].status = "SUCCESS" /\ Reversals(t) = {}
      /\ txn[t] \in Transaction
  BY <1>1, <1>s DEF TInv, TypeOK, LockedRowsAreOpen, Locking, StillOpen
<1>2. PICK u \in TxnIds :
        /\ txn[u].status = "NONE"
        /\ Permitted(Movement(r, u)) /\ Post(Movement(r, u))
        /\ txn' = [txn EXCEPT
                     ![t].status = "REVERSED",
                     ![u] = [type |-> ReversalType(txn[t].type),
                             sender |-> Movement(r, u).from,
                             receiver |-> Movement(r, u).to,
                             amount |-> Movement(r, u).debit,
                             credit |-> Movement(r, u).credit,
                             status |-> "SUCCESS", otpVerified |-> FALSE,
                             reversalOf |-> t]]
  BY <1>1 DEF ReverseExecute
<1>3. PICK m \in MovementType : m = Movement(r, u)
  BY <1>s, MovementOfSession DEF TInv
<1>m. /\ m.id = u /\ m.from = txn[t].receiver /\ m.to = txn[t].sender
      /\ m.debit = txn[t].amount /\ m.credit = txn[t].amount
      /\ m.seen = req[r].view
  BY <1>1, <1>3, <1>s DEF Movement
<1>n. m.from # m.to /\ {m.from, m.to} \ {NoAccount} = AccountsOf(t)
  BY <1>i, <1>m DEF RowsInv, TwoSides, AccountsOf
<1>4. PICK row : row = [type |-> ReversalType(txn[t].type),
                        sender |-> m.from, receiver |-> m.to,
                        amount |-> m.debit, credit |-> m.credit,
                        status |-> "SUCCESS", otpVerified |-> FALSE,
                        reversalOf |-> t]
  OBVIOUS
<1>5. row \in Transaction
  <2>1. ReversalType(txn[t].type) \in {"NONE", "TRANSFER", "DEPOSIT", "WITHDRAWAL"}
    BY <1>i, ReversalTypeType DEF Transaction
  <2> QED
    BY <1>4, <2>1 DEF Transaction, MovementType
<1>6. /\ row.type = ReversalType(txn[t].type) /\ row.status = "SUCCESS"
      /\ row.sender = m.from /\ row.receiver = m.to
      /\ row.amount = m.debit /\ row.credit = m.credit /\ row.reversalOf = t
  BY <1>4
<1>7. txn' = [txn EXCEPT ![t].status = "REVERSED", ![u] = row]
  BY <1>2, <1>3, <1>4
<1>8. u # t
  BY <1>2, <1>i
<1>9. /\ txn'[u] = row /\ txn'[t] = [txn[t] EXCEPT !.status = "REVERSED"]
      /\ \A v \in TxnIds \ {t, u} : txn'[v] = txn[v]
  BY <1>7, <1>8 DEF TInv, TypeOK
<1>10. ReversalWrites(r, t, u, m, row)
  BY <1>1, <1>2, <1>3, <1>6, <1>8, <1>9, <1>i, <1>m, <1>n DEF ReversalWrites
<1> QED
  BY <1>5, <1>10

\* A reversal of a transfer is a transfer, and of nothing else.
LEMMA ReversalOfTransfer ==
  ASSUME NEW type \in {"NONE", "TRANSFER", "DEPOSIT", "WITHDRAWAL"}
  PROVE  ReversalType(type) = "TRANSFER" => type = "TRANSFER"
BY DEF ReversalType

\* The execution of a reversal.
LEMMA RowsInvReverse ==
  ASSUME TInv, TypeOK', RowsInv, LockedRowsAreOpen, NEW r \in Actors,
         ReverseExecute(r)
  PROVE  RowsInv'
<1>1. PICK t \in TxnIds, u \in TxnIds, m \in MovementType, row \in Transaction :
        ReversalWrites(r, t, u, m, row)
  BY ReversalRows
<1>i. /\ txn[t].status = "SUCCESS" /\ Reversals(t) = {} /\ u # t
      /\ txn[u].status = "NONE" /\ txn[t] \in Transaction
  BY <1>1 DEF ReversalWrites, TInv, TypeOK
<1>m. /\ m.id = u /\ m.from # m.to /\ Post(m)
      /\ m.from = txn[t].receiver /\ m.to = txn[t].sender
      /\ m.debit = txn[t].amount /\ m.credit = txn[t].amount
  BY <1>1 DEF ReversalWrites
<1>t. /\ txn'[u] = row /\ txn'[t] = [txn[t] EXCEPT !.status = "REVERSED"]
      /\ \A v \in TxnIds \ {t, u} : txn'[v] = txn[v]
  BY <1>1 DEF ReversalWrites
<1>w. /\ row.type = ReversalType(txn[t].type) /\ row.status = "SUCCESS"
      /\ row.sender = m.from /\ row.receiver = m.to
      /\ row.amount = m.debit /\ row.credit = m.credit /\ row.reversalOf = t
  BY <1>1 DEF ReversalWrites
<1>r. /\ txn'[t].status = "REVERSED" /\ txn'[t].type = txn[t].type
      /\ txn'[t].sender = txn[t].sender /\ txn'[t].receiver = txn[t].receiver
      /\ txn'[t].amount = txn[t].amount /\ txn'[t].credit = txn[t].credit
      /\ txn'[t].otpVerified = txn[t].otpVerified
      /\ txn'[t].reversalOf = txn[t].reversalOf
  BY <1>i, <1>t DEF Transaction
<1>b. /\ \A kind \in Kinds : ~HasEntry(u, kind)
      /\ Reversals(u) = {} /\ txn[u].reversalOf = NoTxn
  BY <1>i, BlankRowsAreUnused DEF TInv
<1>c. conf' = conf
  BY DEF ReverseExecute
<1>h. ASSUME NEW v \in TxnIds, NEW kind \in Kinds
      PROVE  /\ HasEntry(v, kind) => HasEntry(v, kind)'
             /\ v # u => (HasEntry(v, kind)' <=> HasEntry(v, kind))
  BY <1>m, EntriesAfterPost DEF TInv
<1>5. BlankRows'
  <2>1. ASSUME NEW v \in TxnIds, txn'[v].status = "NONE"
        PROVE  txn'[v] = NoTransaction
    <3>1. v \notin {t, u}
      BY <1>r, <1>t, <1>w, <2>1
    <3>2. txn'[v] = txn[v]
      BY <1>t, <3>1
    <3> QED
      BY <2>1, <3>2 DEF RowsInv, BlankRows
  <2> QED
    BY <2>1 DEF BlankRows
<1>6. TwoSides'
  <2>1. ASSUME NEW v \in TxnIds
        PROVE  /\ txn'[v].status # "NONE" => txn'[v].sender # txn'[v].receiver
               /\ txn'[v].type = "TRANSFER" =>
                    txn'[v].sender # NoAccount /\ txn'[v].receiver # NoAccount
    <3>1. CASE v = u
      <4>1. row.type = "TRANSFER" => txn[t].type = "TRANSFER"
        BY <1>i, <1>w, ReversalOfTransfer DEF Transaction
      <4> QED
        BY <1>m, <1>t, <1>w, <3>1, <4>1 DEF RowsInv, TwoSides
    <3>2. CASE v = t
      BY <1>i, <1>r, <3>2 DEF RowsInv, TwoSides
    <3>3. CASE v \notin {t, u}
      BY <1>t, <3>3 DEF RowsInv, TwoSides
    <3> QED
      BY <3>1, <3>2, <3>3
  <2> QED
    BY <2>1 DEF TwoSides
<1>7. EntriesMatchTransaction'
  <2>1. /\ \A kind \in Kinds : ~HasEntry(m.id, kind)
        /\ txn'[m.id].status = "SUCCESS"
        /\ txn'[m.id].sender = m.from /\ txn'[m.id].receiver = m.to
        /\ txn'[m.id].amount = m.debit /\ txn'[m.id].credit = m.credit
    BY <1>b, <1>m, <1>t, <1>w
  <2>2. ASSUME NEW v \in TxnIds \ {m.id}
        PROVE  /\ txn'[v].sender = txn[v].sender
               /\ txn'[v].receiver = txn[v].receiver
               /\ txn'[v].amount = txn[v].amount /\ txn'[v].credit = txn[v].credit
               /\ \/ txn'[v].status = txn[v].status
                  \/ txn[v].status = "SUCCESS" /\ txn'[v].status = "REVERSED"
    <3>1. CASE v = t
      BY <1>i, <1>r, <3>1
    <3>2. CASE v # t
      BY <1>m, <1>t, <3>2
    <3> QED
      BY <3>1, <3>2
  <2> QED
    BY <1>m, <2>1, <2>2, PostKeepsEntries DEF RowsInv, TInv
<1>8. ReversalsAreUnique'
  <2>1. ASSUME NEW v \in TxnIds
        PROVE  Reversals(v)' = IF v = t THEN {u} ELSE Reversals(v)
    <3>1. \A x \in TxnIds :
            txn'[x].reversalOf = IF x = u THEN t ELSE txn[x].reversalOf
      <4>1. ASSUME NEW x \in TxnIds, x = u PROVE txn'[x].reversalOf = t
        BY <1>t, <1>w, <4>1
      <4>2. ASSUME NEW x \in TxnIds, x # u
            PROVE  txn'[x].reversalOf = txn[x].reversalOf
        BY <1>r, <1>t, <4>2
      <4> QED
        BY <4>1, <4>2
    <3>2. \A x \in TxnIds : txn[x].reversalOf # t
      BY <1>i DEF Reversals
    <3> QED
      BY <1>b, <3>1, <3>2, NamesAssumption DEF Reversals
  <2>2. ASSUME NEW v \in TxnIds, NEW x \in Reversals(v)'
        PROVE  /\ Reversals(v)' = {x}
               /\ HasEntry(v, "DEBIT")' \/ HasEntry(v, "CREDIT")'
               /\ txn'[v].status \in {"REVERSED", "FAILED"}
    <3>1. CASE v = t
      <4>1. HasEntry(t, "DEBIT") \/ HasEntry(t, "CREDIT")
        BY <1>i, WholeHasEntry DEF TInv, Kinds
      <4> QED
        BY <1>h, <1>r, <2>1, <2>2, <3>1, <4>1 DEF Kinds
    <3>2. CASE v # t
      <4>1. x \in Reversals(v) /\ v # u
        BY <1>b, <2>1, <2>2, <3>2
      <4>2. txn'[v] = txn[v]
        BY <1>t, <3>2, <4>1
      <4>3. /\ Reversals(v) = {x} /\ txn[v].status \in {"REVERSED", "FAILED"}
            /\ HasEntry(v, "DEBIT") \/ HasEntry(v, "CREDIT")
        BY <4>1 DEF RowsInv, ReversalsAreUnique
      <4> QED
        BY <1>h, <2>1, <3>2, <4>2, <4>3 DEF Kinds
    <3> QED
      BY <3>1, <3>2
  <2> QED
    BY <2>2 DEF ReversalsAreUnique
<1>9. MovedMeansVerified'
  <2>1. ASSUME NEW v \in TxnIds, txn'[v].type = "TRANSFER",
               txn'[v].reversalOf = NoTxn
        PROVE  /\ HasEntry(v, "DEBIT")' <=> txn'[v].otpVerified
               /\ HasEntry(v, "DEBIT")' <=> conf'[v].verified
    <3>1. v # u
      BY <1>t, <1>w, <2>1, NamesAssumption
    <3>2. /\ txn[v].type = "TRANSFER" /\ txn[v].reversalOf = NoTxn
          /\ txn'[v].otpVerified = txn[v].otpVerified
      BY <1>r, <1>t, <2>1, <3>1
    <3> QED
      BY <1>c, <1>h, <3>1, <3>2 DEF RowsInv, MovedMeansVerified, Kinds
  <2> QED
    BY <2>1 DEF MovedMeansVerified
<1>10. ExhaustedIsFailed'
  <2>1. ASSUME NEW v \in TxnIds, conf'[v].attempts >= MaxAttempts
        PROVE  txn'[v].status = "FAILED"
    <3>1. txn[v].status = "FAILED"
      BY <1>c, <2>1 DEF RowsInv, ExhaustedIsFailed
    <3> QED
      BY <1>i, <1>t, <3>1
  <2> QED
    BY <2>1 DEF ExhaustedIsFailed
<1> QED
  BY <1>5, <1>6, <1>7, <1>8, <1>9, <1>10 DEF RowsInv

\* The teller moves money between an account and no account.
LEMMA TwoDifferentSides ==
  ASSUME TypeOK, NEW a \in Accounts, NEW amount \in Amounts,
         Deposit(a, amount) \/ Withdraw(a, amount)
  PROVE  \E m \in MovementType, type \in {"DEPOSIT", "WITHDRAWAL"} :
           m.from # m.to /\ SingleSided(type, m)
<1>1. PICK t \in TxnIds :
        \/ SingleSided("DEPOSIT", [id |-> t, from |-> NoAccount, to |-> a,
               debit |-> amount, credit |-> amount, seen |-> acct])
        \/ SingleSided("WITHDRAWAL", [id |-> t, from |-> a, to |-> NoAccount,
               debit |-> amount, credit |-> amount, seen |-> acct])
  BY DEF Deposit, Withdraw
<1>2. ASSUME NEW from \in Accounts \cup {NoAccount},
             NEW to \in Accounts \cup {NoAccount}
      PROVE  [id |-> t, from |-> from, to |-> to, debit |-> amount,
              credit |-> amount, seen |-> acct] \in MovementType
  BY MoneyAssumption DEF MovementType, TypeOK
<1> QED
  BY <1>1, <1>2, NoAccountIsNoAccount

\* Every step keeps what the tables say of each other.
LEMMA RowsInvNext ==
  ASSUME LInv, SessionsInv, RowsInv, TInv', [Next]_vars
  PROVE  RowsInv'
<1> USE DEF SessionsInv
<1>t. TInv /\ TypeOK /\ TypeOK'
  BY DEF LInv, TInv
<1>q. UNCHANGED <<txn, conf, ledger>> => RowsInv'
  BY RowsInvQuiet
<1>c. ASSUME NEW r \in Actors, Working(req[r])
      PROVE  /\ req[r].txn \in TxnIds /\ conf[req[r].txn] \in Confirmation
             /\ txn[req[r].txn].status # "NONE"
             /\ req[r].attempts \in Nat
  BY <1>t, <1>c DEF TInv, TypeOK, WorkingRows, Session
<1>v. /\ conf \in [TxnIds -> Confirmation] /\ txn \in [TxnIds -> Transaction]
  BY <1>t DEF TypeOK
<1>1. ASSUME NEW r \in Actors, InitiateCommit(r) PROVE RowsInv'
  <2>1. PICK row : row =
          [type |-> "TRANSFER", sender |-> req[r].draft.sender,
           receiver |-> req[r].draft.receiver, amount |-> req[r].draft.amount,
           credit |-> req[r].draft.credit, status |-> "PENDING",
           otpVerified |-> FALSE, reversalOf |-> NoTxn]
    OBVIOUS
  <2>2. PICK challenge : challenge = [NoConfirmation EXCEPT !.code = 1]
    OBVIOUS
  <2>3. PICK t \in TxnIds :
          /\ txn[t].status = "NONE" /\ txn' = [txn EXCEPT ![t] = row]
          /\ conf' = [conf EXCEPT ![t] = challenge]
    BY <1>1, <2>1, <2>2 DEF InitiateCommit
  <2>4. /\ row \in Transaction /\ row.type = "TRANSFER"
        /\ row.status = "PENDING" /\ ~row.otpVerified /\ row.reversalOf = NoTxn
        /\ row.sender \in Accounts /\ row.receiver \in Accounts
        /\ row.sender # row.receiver
    <3>1. req[r].draft \in Draft
      BY <1>t DEF TypeOK, Session
    <3>2. /\ req[r].draft.sender \in Accounts
          /\ req[r].draft.receiver \in Accounts
          /\ req[r].draft.sender # req[r].draft.receiver
      BY <1>1 DEF InitiateCommit, At, DraftsAreTransfers
    <3> QED
      BY <2>1, <3>1, <3>2 DEF Transaction, Draft
  <2>5. /\ challenge \in Confirmation /\ challenge.attempts = 0
        /\ ~challenge.verified
    BY <2>2 DEF NoConfirmation, Confirmation
  <2>6. UNCHANGED ledger
    BY <1>1 DEF InitiateCommit
  <2> QED
    BY <1>t, <2>3, <2>4, <2>5, <2>6, RowsInvInitiate
<1>2. ASSUME NEW r \in Actors, RegisterFailedAttempt(r) PROVE RowsInv'
  <2>1. /\ Working(req[r]) /\ ~LastAttempt(r) /\ UNCHANGED <<txn, ledger>>
        /\ conf' = [conf EXCEPT ![req[r].txn].attempts = req[r].attempts + 1]
    BY <1>2 DEF RegisterFailedAttempt, At, Working
  <2>2. ~(req[r].attempts + 1 >= MaxAttempts)
    BY <2>1 DEF LastAttempt
  <2>3. ASSUME NEW t \in TxnIds
        PROVE  /\ conf'[t].verified = conf[t].verified
               /\ \/ conf'[t].attempts = conf[t].attempts
                  \/ conf'[t].attempts = req[r].attempts + 1
    BY <1>v, <2>1 DEF Confirmation
  <2> QED
    BY <2>1, <2>2, <2>3, RowsInvQuiet
<1>3. ASSUME NEW r \in Actors, Reissue(r) PROVE RowsInv'
  <2>1. PICK t \in TxnIds : t = req[r].txn /\ conf[t] \in Confirmation
    BY <1>3, <1>c DEF Reissue, At, Working
  <2>2. PICK n : n = IF req[r].attempts = 0 THEN conf[t].attempts ELSE 0
    OBVIOUS
  <2>3. PICK row : row = [conf[t] EXCEPT !.code = conf[t].code + 1,
                                         !.expired = FALSE, !.attempts = n]
    OBVIOUS
  <2>4. UNCHANGED <<txn, ledger>> /\ conf' = [conf EXCEPT ![t] = row]
    BY <1>3, <1>v, <2>1, <2>2, <2>3 DEF Reissue
  <2>5. row.verified = conf[t].verified /\ row.attempts \in {conf[t].attempts, 0}
    BY <2>1, <2>2, <2>3 DEF Confirmation
  <2>6. ~(0 >= MaxAttempts)
    BY BoundsAssumption
  <2>7. ASSUME NEW u \in TxnIds
        PROVE  /\ conf'[u].verified = conf[u].verified
               /\ \/ conf'[u].attempts = conf[u].attempts
                  \/ ~(conf'[u].attempts >= MaxAttempts)
    BY <1>v, <2>4, <2>5, <2>6
  <2> QED
    BY <2>4, <2>7, RowsInvQuiet
<1>4. ASSUME NEW r \in Actors, ExhaustChallenge(r) PROVE RowsInv'
  <2>1. /\ Working(req[r]) /\ UNCHANGED ledger
        /\ conf' = [conf EXCEPT ![req[r].txn].attempts = req[r].attempts + 1]
        /\ txn' = [txn EXCEPT ![req[r].txn].status = "FAILED"]
    BY <1>4 DEF ExhaustChallenge, At, Working
  <2>2. PICK F \in SUBSET TxnIds : F = {req[r].txn}
    BY <1>c, <2>1
  <2>3. txn' = [t \in TxnIds |-> IF t \in F
                                 THEN [txn[t] EXCEPT !.status = "FAILED"]
                                 ELSE txn[t]]
    BY <1>v, <2>1, <2>2
  <2>4. ASSUME NEW t \in TxnIds
        PROVE  /\ conf'[t].verified = conf[t].verified
               /\ t \notin F => conf'[t].attempts = conf[t].attempts
    BY <1>v, <2>1, <2>2 DEF Confirmation
  <2>5. \A t \in F : txn[t].status # "NONE"
    BY <1>c, <2>1, <2>2
  <2> QED
    BY <1>t, <2>1, <2>3, <2>4, <2>5, RowsInvFail
<1>5. ASSUME NEW r \in Actors, MarkFailed(r) PROVE RowsInv'
  <2>1. req[r].failing \in SUBSET TxnIds
    BY <1>t DEF TypeOK, Session
  <2>2. \A t \in req[r].failing : txn[t].status # "NONE"
    BY <1>5 DEF MarkFailed, RowsToFailExist
  <2> QED
    BY <1>5, <1>t, <2>1, <2>2, RowsInvFail DEF MarkFailed
<1>6. ASSUME NEW r \in Actors, Step(r) PROVE RowsInv'
  <2>1. CASE ConfirmExecute(r) \/ ReverseExecute(r)
    BY <1>t, <2>1, RowsInvConfirm, RowsInvReverse
  <2>2. CASE \/ InitiateInsert(r) \/ InitiateUnstorable(r)
             \/ ConfirmUnusableOtp(r) \/ ConfirmWrongCode(r)
             \/ ConfirmRightCode(r) \/ LockTxn(r) \/ LockTxnRefused(r)
             \/ LockAccount(r) \/ ExecuteRefused(r) \/ ExecuteUnstorable(r)
             \/ Reload(r) \/ ResendReadOtp(r)
    BY <1>q, <2>2 DEF InitiateInsert, InitiateUnstorable, ConfirmUnusableOtp,
       ConfirmWrongCode, ConfirmRightCode, LockTxn, LockTxnRefused,
       LockAccount, ExecuteRefused, ExecuteUnstorable, Reload, ResendReadOtp
  <2> QED
    BY <1>1, <1>2, <1>3, <1>4, <1>5, <1>6, <2>1, <2>2 DEF Step
<1>7. ASSUME NEW a \in Accounts, NEW amount \in Amounts,
             Deposit(a, amount) \/ Withdraw(a, amount)
      PROVE  RowsInv'
  <2>1. PICK m \in MovementType, type \in {"DEPOSIT", "WITHDRAWAL"} :
          m.from # m.to /\ SingleSided(type, m)
    BY <1>7, <1>t, TwoDifferentSides
  <2> QED
    BY <1>t, <2>1, RowsInvSingleSided
<1>8. ASSUME NEW t \in TxnIds, ExpireOtp(t) PROVE RowsInv'
  <2>1. /\ UNCHANGED <<txn, ledger>>
        /\ conf' = [conf EXCEPT ![t].expired = TRUE]
    BY <1>8 DEF ExpireOtp
  <2>2. \A u \in TxnIds : /\ conf'[u].verified = conf[u].verified
                          /\ conf'[u].attempts = conf[u].attempts
    BY <1>v, <2>1 DEF Confirmation
  <2> QED
    BY <2>1, <2>2, RowsInvQuiet
<1>9. ASSUME NEW a \in Accounts, NEW status \in NewStatuses,
             SetAccountStatus(a, status)
      PROVE  RowsInv'
  BY <1>9, <1>q DEF SetAccountStatus
<1>10. ASSUME NEW r \in Actors,
              Start(r) \/ SweepSelect(r) \/ DeadlockAbort(r) \/ Crash(r)
       PROVE  RowsInv'
  BY <1>10, <1>q DEF Start, InitiateValidate, ConfirmBegin, ResendBegin,
     ReverseBegin, SweepSelect, DeadlockAbort, Crash
<1>11. CASE UNCHANGED vars
  BY <1>11, <1>q DEF vars
<1>12. CASE Environment
  BY <1>12, <1>7, <1>8, <1>9 DEF Environment
<1> QED
  BY <1>6, <1>10, <1>11, <1>12 DEF Next, Actors

-----------------------------------------------------------------------------
(* What a session tested under a lock stays true until it commits.         *)

\* The transaction rows that other sessions than r hold stay as they are.
HeldRowsStay(r) ==
  \A s \in Actors \ {r}, t \in TxnIds :
    txnHolder[t] = s /\ txn[t].status # "NONE" =>
    /\ txnHolder'[t] = s /\ txn'[t].status = txn[t].status
    /\ Reversals(t)' = Reversals(t)

\* SessionsInv survives a step of one session (or of none) that leaves the
\* rows of the others alone.
LEMMA SessionsInvStep ==
  ASSUME TInv, SessionsInv, RowsPersist, NEW r, OthersKeepTheirState(r),
         HeldRowsStay(r),
         r \in Actors =>
           /\ Locking(req'[r]) => txnHolder'[req'[r].txn] = r /\ StillOpen(r)'
           /\ req'[r].pc \in {"insert", "insertReceiver"} =>
                /\ req'[r].op = "initiate"
                /\ req'[r].draft.sender \in Accounts
                /\ req'[r].draft.receiver \in Accounts
                /\ req'[r].draft.sender # req'[r].draft.receiver
           /\ req'[r].pc = "markFailed" =>
                \A t \in req'[r].failing : txn'[t].status # "NONE"
  PROVE  SessionsInv'
<1>1. ASSUME NEW s \in Actors, Locking(req'[s])
      PROVE  txnHolder'[req'[s].txn] = s /\ StillOpen(s)'
  <2>1. CASE s = r
    BY <1>1, <2>1
  <2>2. CASE s # r
    <3>1. PICK q : q = req[s]
      OBVIOUS
    <3>2. req'[s] = q /\ Locking(q) /\ q.txn \in TxnIds
      BY <1>1, <2>2, <3>1
         DEF OthersKeepTheirState, TInv, WorkingRows, Working, Locking
    <3>3. txnHolder[q.txn] = s /\ StillOpen(s)
      BY <3>1, <3>2 DEF SessionsInv, LockedRowsAreOpen
    <3>4. PICK t \in TxnIds : t = q.txn /\ txn[t].status # "NONE"
      BY <3>1, <3>2 DEF TInv, WorkingRows, Working, Locking
    <3>5. /\ txnHolder'[t] = s /\ txn'[t].status = txn[t].status
          /\ Reversals(t)' = Reversals(t)
      BY <2>2, <3>3, <3>4 DEF HeldRowsStay
    <3>6. /\ \/ q.op = "confirm" /\ txn'[t].status = "PENDING"
             \/ /\ q.op = "reverse" /\ txn'[t].status = "SUCCESS"
                /\ Reversals(t)' = {}
      BY <3>1, <3>3, <3>4, <3>5 DEF StillOpen
    <3> QED
      BY <3>2, <3>4, <3>5, <3>6 DEF StillOpen, Reversals
  <2> QED
    BY <2>1, <2>2
<1>2. ASSUME NEW s \in Actors, req'[s].pc \in {"insert", "insertReceiver"}
      PROVE  /\ req'[s].op = "initiate"
             /\ req'[s].draft.sender \in Accounts
             /\ req'[s].draft.receiver \in Accounts
             /\ req'[s].draft.sender # req'[s].draft.receiver
  BY <1>2 DEF OthersKeepTheirState, SessionsInv, DraftsAreTransfers
<1>3. ASSUME NEW s \in Actors, req'[s].pc = "markFailed",
             NEW t \in req'[s].failing
      PROVE  txn'[t].status # "NONE"
  <2>1. CASE s # r
    <3>1. req'[s] = req[s] /\ t \in TxnIds
      BY <1>3, <2>1 DEF OthersKeepTheirState, TInv, TypeOK, Session
    <3> QED
      BY <1>3, <3>1 DEF RowsPersist, SessionsInv, RowsToFailExist
  <2> QED
    BY <1>3, <2>1
<1>4. LockedRowsAreOpen'
  BY <1>1 DEF LockedRowsAreOpen
<1>5. DraftsAreTransfers' /\ RowsToFailExist'
  BY <1>2, <1>3 DEF DraftsAreTransfers, RowsToFailExist
<1> QED
  BY <1>4, <1>5 DEF SessionsInv

\* A session that ends its handler relies on nothing any more.
LEMMA SessionsInvFinish ==
  ASSUME TInv, SessionsInv, RowsPersist, NEW r \in Actors, Finish(r),
         HeldRowsStay(r)
  PROVE  SessionsInv'
<1>1. OthersKeepTheirState(r) /\ req'[r] = IdleSession
  BY DEF TInv, TypeOK, Finish, OthersKeepTheirState
<1>2. IdleSession.pc = "idle"
  BY DEF IdleSession
<1> QED
  BY <1>1, <1>2, SessionsInvStep DEF Locking

\* The session that moves on is not one that holds rows, or keeps what it
\* tested.
LEMMA SessionsInvMove ==
  ASSUME TInv, SessionsInv, NEW r \in Actors, OthersKeepTheirState(r),
         UNCHANGED txn, ~Locking(req'[r]), HeldRowsStay(r),
         req'[r].pc \notin {"insert", "insertReceiver"},
         req'[r].pc = "markFailed" =>
           \A t \in req'[r].failing : txn[t].status # "NONE"
  PROVE  SessionsInv'
BY RowsPersistUnchanged, SessionsInvStep

\* Steps that write no transactions row disturb no other session; neither
\* does giving back one's own locks.
LEMMA UnwrittenRowsStay ==
  ASSUME NEW r, UNCHANGED txn, UNCHANGED txnHolder \/ Release(r)
  PROVE  HeldRowsStay(r)
<1>1. \A t \in TxnIds : Reversals(t)' = Reversals(t)
  BY DEF Reversals
<1> QED
  BY <1>1 DEF HeldRowsStay, Release

\* Rows that nobody else holds may be written and new ones inserted, as long
\* as these undo no transaction that another session holds.
LEMMA WrittenRowsStay ==
  ASSUME TypeOK, NEW r,
         UNCHANGED txnHolder \/ Release(r),
         \A t \in TxnIds :
           \/ txn'[t] = txn[t]
           \/ /\ txnHolder[t] \in {r, Nobody} \/ txn[t].status = txn'[t].status
              /\ txn'[t].reversalOf = txn[t].reversalOf
           \/ /\ txn[t].status = "NONE" /\ txn[t].reversalOf = NoTxn
              /\ \/ txn'[t].reversalOf = NoTxn
                 \/ txnHolder[txn'[t].reversalOf] = r
  PROVE  HeldRowsStay(r)
<1> SUFFICES ASSUME NEW s \in Actors \ {r}, NEW t \in TxnIds,
                    txnHolder[t] = s, txn[t].status # "NONE"
             PROVE  /\ txnHolder'[t] = s /\ txn'[t].status = txn[t].status
                    /\ Reversals(t)' = Reversals(t)
  BY DEF HeldRowsStay
<1>1. txnHolder'[t] = s /\ txn'[t].status = txn[t].status
  BY NamesAssumption DEF Release
<1>2. ASSUME NEW u \in TxnIds
      PROVE  txn'[u].reversalOf = t <=> txn[u].reversalOf = t
  BY NamesAssumption
<1>3. Reversals(t)' = Reversals(t)
  BY <1>2 DEF Reversals
<1> QED
  BY <1>1, <1>3

\* Every step keeps what the sessions rely on.
LEMMA SessionsInvNext ==
  ASSUME LInv, SessionsInv, RowsInv, [Next]_vars
  PROVE  SessionsInv'
<1>t. /\ TInv /\ TypeOK /\ req \in [Actors -> Session]
      /\ txn \in [TxnIds -> Transaction]
  BY DEF LInv, TInv, TypeOK
<1>w. \A r \in Actors : Working(req[r]) =>
        req[r].txn \in TxnIds /\ txn[req[r].txn].status # "NONE"
  BY <1>t DEF TInv, WorkingRows
<1>n. \A t \in TxnIds : txn[t].status = "NONE" => txn[t].reversalOf = NoTxn
  BY DEF RowsInv, BlankRows, NoTransaction
<1>f. ASSUME NEW r \in Actors, Finish(r), UNCHANGED txn,
             UNCHANGED txnHolder \/ Release(r)
      PROVE  SessionsInv'
  BY <1>f, <1>t, UnwrittenRowsStay, RowsPersistUnchanged, SessionsInvFinish
<1>m. ASSUME NEW r \in Actors, NEW s \in Session, req' = [req EXCEPT ![r] = s],
             UNCHANGED txn, UNCHANGED txnHolder \/ Release(r),
             ~Locking(s), s.pc \notin {"insert", "insertReceiver"},
             s.pc = "markFailed" => \A t \in s.failing : txn[t].status # "NONE"
      PROVE  SessionsInv'
  <2>1. OthersKeepTheirState(r) /\ req'[r] = s
    BY <1>t, <1>m DEF OthersKeepTheirState
  <2>2. HeldRowsStay(r)
    BY <1>m, UnwrittenRowsStay
  <2> QED
    BY <1>m, <1>t, <2>1, <2>2, SessionsInvMove
<1>1. ASSUME NEW r \in Actors, NEW s \in Accounts, NEW d \in Accounts,
             NEW amount \in Amounts, InitiateValidate(r, s, d, amount)
      PROVE  SessionsInv'
  <2>1. PICK credit :
          req' = [req EXCEPT ![r].op = "initiate", ![r].pc = "insert",
                    ![r].draft = [sender |-> s, receiver |-> d,
                                  amount |-> amount, credit |-> credit]]
    BY <1>1 DEF InitiateValidate
  <2>2. d # s /\ UNCHANGED <<txn, txnHolder>>
    BY <1>1 DEF InitiateValidate
  <2>3. /\ OthersKeepTheirState(r)
        /\ req'[r].op = "initiate" /\ req'[r].pc = "insert"
        /\ req'[r].draft.sender = s /\ req'[r].draft.receiver = d
    BY <1>t, <2>1 DEF OthersKeepTheirState, Session
  <2> QED
    BY <1>t, <2>2, <2>3, RowsPersistUnchanged, UnwrittenRowsStay, SessionsInvStep
       DEF Locking
<1>2. ASSUME NEW r \in Actors, InitiateInsert(r) PROVE SessionsInv'
  <2>1. /\ At(r, "initiate", "insert") /\ UNCHANGED <<txn, txnHolder>>
        /\ req' = [req EXCEPT ![r].pc = "insertReceiver"]
    BY <1>2 DEF InitiateInsert
  <2>2. /\ OthersKeepTheirState(r) /\ req'[r].pc = "insertReceiver"
        /\ req'[r].op = req[r].op /\ req'[r].draft = req[r].draft
    BY <1>t, <2>1 DEF OthersKeepTheirState, Session
  <2>3. /\ req[r].draft.sender \in Accounts
        /\ req[r].draft.receiver \in Accounts /\ req[r].op = "initiate"
        /\ req[r].draft.sender # req[r].draft.receiver
    BY <2>1 DEF At, SessionsInv, DraftsAreTransfers
  <2> QED
    BY <1>t, <2>1, <2>2, <2>3, RowsPersistUnchanged, UnwrittenRowsStay,
       SessionsInvStep DEF Locking
<1>3. ASSUME NEW r \in Actors, InitiateCommit(r) PROVE SessionsInv'
  <2>1. PICK row : row =
          [type |-> "TRANSFER", sender |-> req[r].draft.sender,
           receiver |-> req[r].draft.receiver, amount |-> req[r].draft.amount,
           credit |-> req[r].draft.credit, status |-> "PENDING",
           otpVerified |-> FALSE, reversalOf |-> NoTxn]
    OBVIOUS
  <2>2. PICK t \in TxnIds :
          /\ txn[t].status = "NONE" /\ txn' = [txn EXCEPT ![t] = row]
    BY <1>3, <2>1 DEF InitiateCommit
  <2>3. row.status = "PENDING" /\ row.reversalOf = NoTxn
    BY <2>1
  <2>4. Finish(r) /\ UNCHANGED txnHolder
    BY <1>3 DEF InitiateCommit
  <2>5. \A u \in TxnIds :
          \/ txn'[u] = txn[u]
          \/ /\ txn[u].status = "NONE" /\ txn[u].reversalOf = NoTxn
             /\ txn'[u].reversalOf = NoTxn
    BY <1>n, <1>t, <2>2, <2>3
  <2>6. HeldRowsStay(r)
    BY <1>t, <2>4, <2>5, WrittenRowsStay
  <2>7. RowsPersist
    BY <1>t, <2>2, <2>3 DEF RowsPersist
  <2> QED
    BY <1>t, <2>4, <2>6, <2>7, SessionsInvFinish
<1>4. ASSUME NEW r \in Actors, ExhaustChallenge(r) PROVE SessionsInv'
  <2>1. PICK t \in TxnIds : t = req[r].txn
    BY <1>4, <1>w DEF ExhaustChallenge, At, Working
  <2>2. /\ Finish(r) /\ UNCHANGED txnHolder /\ txnHolder[t] = Nobody
        /\ txn' = [txn EXCEPT ![t].status = "FAILED"]
    BY <1>4, <2>1 DEF ExhaustChallenge
  <2>3. ASSUME NEW u \in TxnIds
        PROVE  /\ txn[u].status # "NONE" => txn'[u].status # "NONE"
               /\ \/ txn'[u] = txn[u]
                  \/ /\ txnHolder[u] = Nobody
                     /\ txn'[u].reversalOf = txn[u].reversalOf
    <3>1. txn[u] \in Transaction
      BY <1>t
    <3> QED
      BY <1>t, <2>2, <3>1 DEF Transaction
  <2>4. HeldRowsStay(r) /\ RowsPersist
    BY <1>t, <2>2, <2>3, WrittenRowsStay DEF RowsPersist
  <2> QED
    BY <1>t, <2>2, <2>4, SessionsInvFinish
<1>5. ASSUME NEW r \in Actors, MarkFailed(r) PROVE SessionsInv'
  <2>1. /\ Finish(r) /\ UNCHANGED txnHolder
        /\ \A t \in req[r].failing : txnHolder[t] = Nobody
        /\ txn' = [t \in TxnIds |-> IF t \in req[r].failing
                                    THEN [txn[t] EXCEPT !.status = "FAILED"]
                                    ELSE txn[t]]
    BY <1>5 DEF MarkFailed
  <2>2. ASSUME NEW u \in TxnIds
        PROVE  /\ txn[u].status # "NONE" => txn'[u].status # "NONE"
               /\ \/ txn'[u] = txn[u]
                  \/ /\ txnHolder[u] = Nobody
                     /\ txn'[u].reversalOf = txn[u].reversalOf
    <3>1. txn[u] \in Transaction
      BY <1>t
    <3> QED
      BY <2>1, <3>1 DEF Transaction
  <2>3. HeldRowsStay(r) /\ RowsPersist
    BY <1>t, <2>1, <2>2, WrittenRowsStay DEF RowsPersist
  <2> QED
    BY <1>t, <2>1, <2>3, SessionsInvFinish
<1>6. ASSUME NEW r \in Actors, ConfirmExecute(r) PROVE SessionsInv'
  <2>1. PICK t \in TxnIds : t = req[r].txn
    BY <1>6, <1>w DEF ConfirmExecute, At, Working
  <2>2. /\ Finish(r) /\ Release(r)
        /\ txn' = [txn EXCEPT ![t].status = "SUCCESS", ![t].otpVerified = TRUE]
    BY <1>6, <2>1 DEF ConfirmExecute
  <2>3. txnHolder[t] = r
    BY <1>6, <2>1
       DEF ConfirmExecute, At, SessionsInv, LockedRowsAreOpen, Locking
  <2>4. ASSUME NEW u \in TxnIds
        PROVE  /\ txn[u].status # "NONE" => txn'[u].status # "NONE"
               /\ \/ txn'[u] = txn[u]
                  \/ /\ txnHolder[u] = r
                     /\ txn'[u].reversalOf = txn[u].reversalOf
    <3>1. txn[u] \in Transaction
      BY <1>t
    <3> QED
      BY <1>t, <2>2, <2>3, <3>1 DEF Transaction
  <2>5. HeldRowsStay(r) /\ RowsPersist
    BY <1>t, <2>2, <2>4, WrittenRowsStay DEF RowsPersist
  <2> QED
    BY <1>t, <2>2, <2>5, SessionsInvFinish
<1>7. ASSUME NEW r \in Actors, ReverseExecute(r) PROVE SessionsInv'
  <2>0. PICK t \in TxnIds, u \in TxnIds, m \in MovementType, row \in Transaction :
          ReversalWrites(r, t, u, m, row)
    BY <1>7, <1>t, ReversalRows DEF SessionsInv
  <2>1. /\ t = req[r].txn /\ txn[u].status = "NONE" /\ u # t
        /\ row.status = "SUCCESS" /\ row.reversalOf = t
        /\ txn'[u] = row /\ txn'[t] = [txn[t] EXCEPT !.status = "REVERSED"]
        /\ \A v \in TxnIds \ {t, u} : txn'[v] = txn[v]
    BY <2>0 DEF ReversalWrites
  <2>2. /\ Finish(r) /\ Release(r) /\ txnHolder[t] = r
    BY <1>7, <2>1
       DEF ReverseExecute, At, SessionsInv, LockedRowsAreOpen, Locking
  <2>3. txn'[t].status = "REVERSED" /\ txn'[t].reversalOf = txn[t].reversalOf
    <3>1. txn[t] \in Transaction
      BY <1>t
    <3> QED
      BY <2>1, <3>1 DEF Transaction
  <2>4. ASSUME NEW v \in TxnIds
        PROVE  /\ txn[v].status # "NONE" => txn'[v].status # "NONE"
               /\ \/ txn'[v] = txn[v]
                  \/ /\ txnHolder[v] = r
                     /\ txn'[v].reversalOf = txn[v].reversalOf
                  \/ /\ txn[v].status = "NONE" /\ txn[v].reversalOf = NoTxn
                     /\ txnHolder[txn'[v].reversalOf] = r
    <3>1. CASE v = u
      <4>1. txn'[v].status # "NONE" /\ txn'[v].reversalOf = t
        BY <2>1, <3>1
      <4> QED
        BY <1>n, <2>1, <2>2, <3>1, <4>1
    <3>2. CASE v = t
      BY <2>2, <2>3, <3>2
    <3>3. CASE v \notin {t, u}
      BY <2>1, <3>3
    <3> QED
      BY <3>1, <3>2, <3>3
  <2>5. HeldRowsStay(r) /\ RowsPersist
    BY <1>t, <2>2, <2>4, WrittenRowsStay DEF RowsPersist
  <2> QED
    BY <1>t, <2>2, <2>5, SessionsInvFinish
<1>8. ASSUME NEW r \in Actors, NEW t \in TxnIds,
             ConfirmBegin(r, t) \/ ResendBegin(r, t) \/ ReverseBegin(r, t)
      PROVE  SessionsInv'
  <2>1. PICK op \in {"confirm", "resend", "reverse"}, pc \in {"readOtp", "lockTxn"} :
          /\ req' = [req EXCEPT ![r].op = op, ![r].pc = pc, ![r].txn = t]
          /\ UNCHANGED <<txn, txnHolder>>
    BY <1>8 DEF ConfirmBegin, ResendBegin, ReverseBegin
  <2>2. PICK s : s = [req[r] EXCEPT !.op = op, !.pc = pc, !.txn = t]
    OBVIOUS
  <2>3. s \in Session /\ s.pc = pc
    <3>1. req[r] \in Session
      BY <1>t
    <3> QED
      BY <2>1, <2>2, <3>1 DEF Session
  <2>4. req' = [req EXCEPT ![r] = s]
    BY <1>t, <2>1, <2>2
  <2> QED
    BY <1>m, <2>1, <2>3, <2>4 DEF Locking
<1>9. ASSUME NEW r \in Actors, NEW F \in SUBSET TxnIds,
             \/ req' = [req EXCEPT ![r].pc = "markFailed", ![r].failing = F]
             \/ req' = [req EXCEPT ![r].op = "sweep", ![r].pc = "markFailed",
                                   ![r].failing = F],
             \A t \in F : txn[t].status # "NONE", UNCHANGED <<txn, txnHolder>>
      PROVE  SessionsInv'
  <2>1. PICK op \in {req[r].op, "sweep"} :
          req' = [req EXCEPT ![r].op = op, ![r].pc = "markFailed",
                             ![r].failing = F]
    <3>1. req[r] = [req[r] EXCEPT !.op = req[r].op]
      BY <1>t DEF Session
    <3> QED
      BY <1>9, <1>t, <3>1
  <2>2. PICK s : s = [req[r] EXCEPT !.op = op, !.pc = "markFailed", !.failing = F]
    OBVIOUS
  <2>3. s \in Session /\ s.pc = "markFailed" /\ s.failing = F
    <3>1. req[r] \in Session /\ op \in {req[r].op, "sweep"}
      BY <1>t, <2>1
    <3> QED
      BY <2>2, <3>1 DEF Session
  <2>4. req' = [req EXCEPT ![r] = s]
    BY <1>t, <2>1, <2>2
  <2> QED
    BY <1>9, <1>m, <2>3, <2>4 DEF Locking
<1>10. ASSUME NEW r \in Actors,
              ConfirmUnusableOtp(r) \/ (Reload(r) /\ ~Finish(r))
       PROVE  SessionsInv'
  <2>1. PICK F \in SUBSET TxnIds : F = {req[r].txn}
    BY <1>10, <1>w DEF ConfirmUnusableOtp, Reload, At, Working
  <2>2. \A t \in F : txn[t].status # "NONE"
    BY <1>10, <1>w, <2>1 DEF ConfirmUnusableOtp, Reload, At, Working
  <2> QED
    BY <1>9, <1>10, <2>1, <2>2 DEF ConfirmUnusableOtp, Reload
<1>11. ASSUME NEW r \in Actors, SweepSelect(r) PROVE SessionsInv'
  <2>1. PICK F \in SUBSET TxnIds : F = StaleTransactions
    BY DEF StaleTransactions
  <2>2. \A t \in F : txn[t].status # "NONE"
    BY <2>1 DEF StaleTransactions
  <2> QED
    BY <1>9, <1>11, <2>1, <2>2 DEF SweepSelect
<1>12. ASSUME NEW r \in Actors,
              \/ ConfirmWrongCode(r) \/ ConfirmRightCode(r) \/ ResendReadOtp(r)
       PROVE  SessionsInv'
  <2>0. conf[req[r].txn] \in Confirmation
    BY <1>12, <1>t, <1>w
       DEF TypeOK, ConfirmWrongCode, ConfirmRightCode, ResendReadOtp, At, Working
  <2>1. PICK n \in Nat, pc \in {"wrongCode", "lockTxn", "reissue"} :
          /\ \/ req' = [req EXCEPT ![r].pc = pc, ![r].attempts = n]
             \/ req' = [req EXCEPT ![r].pc = pc, ![r].code = n]
          /\ UNCHANGED <<txn, txnHolder>>
    BY <1>12, <2>0
       DEF ConfirmWrongCode, ConfirmRightCode, ResendReadOtp, Confirmation
  <2>2. CASE req' = [req EXCEPT ![r].pc = pc, ![r].attempts = n]
    <3>1. PICK s : s = [req[r] EXCEPT !.pc = pc, !.attempts = n]
      OBVIOUS
    <3>2. s \in Session /\ s.pc = pc
      <4>1. req[r] \in Session
        BY <1>t
      <4> QED
        BY <2>1, <3>1, <4>1 DEF Session
    <3>3. req' = [req EXCEPT ![r] = s]
      BY <1>t, <2>2, <3>1
    <3> QED
      BY <1>m, <2>1, <3>2, <3>3 DEF Locking
  <2>3. CASE req' = [req EXCEPT ![r].pc = pc, ![r].code = n]
    <3>1. PICK s : s = [req[r] EXCEPT !.pc = pc, !.code = n]
      OBVIOUS
    <3>2. s \in Session /\ s.pc = pc
      <4>1. req[r] \in Session
        BY <1>t
      <4> QED
        BY <2>1, <3>1, <4>1 DEF Session
    <3>3. req' = [req EXCEPT ![r] = s]
      BY <1>t, <2>3, <3>1
    <3> QED
      BY <1>m, <2>1, <3>2, <3>3 DEF Locking
  <2> QED
    BY <2>1, <2>2, <2>3
<1>13. ASSUME NEW r \in Actors, LockTxn(r) PROVE SessionsInv'
  <2>1. PICK t \in TxnIds : t = req[r].txn
    BY <1>13, <1>w DEF LockTxn, Working
  <2>2. /\ txnHolder[t] = Nobody /\ StillOpen(r) /\ UNCHANGED txn
        /\ txnHolder' = [txnHolder EXCEPT ![t] = r]
        /\ req' = [req EXCEPT ![r].pc = "lockAccounts"]
    BY <1>13, <2>1 DEF LockTxn
  <2>3. /\ OthersKeepTheirState(r) /\ req'[r].pc = "lockAccounts"
        /\ req'[r].op = req[r].op /\ req'[r].txn = t
    BY <1>t, <2>1, <2>2 DEF OthersKeepTheirState, Session
  <2>4. txnHolder'[t] = r
    BY <1>t, <2>2 DEF TypeOK
  <2>5. StillOpen(r)'
    BY <2>1, <2>2, <2>3 DEF StillOpen, Reversals
  <2>6. HeldRowsStay(r)
    BY <1>t, <2>2, NamesAssumption DEF HeldRowsStay, Reversals, TypeOK
  <2> QED
    BY <1>t, <2>2, <2>3, <2>4, <2>5, <2>6, RowsPersistUnchanged, SessionsInvStep
<1>14. ASSUME NEW r \in Actors, LockAccount(r) PROVE SessionsInv'
  <2>a. PICK a \in Unlocked(r) :
          req' = [req EXCEPT ![r].view[a] = acct[a],
                    ![r].pc = IF Unlocked(r) = {a} THEN "execute" ELSE @]
    BY <1>14 DEF LockAccount
  <2>b. PICK view : view = [req[r].view EXCEPT ![a] = acct[a]]
    OBVIOUS
  <2>c. PICK pc : pc = IF Unlocked(r) = {a} THEN "execute" ELSE req[r].pc
    OBVIOUS
  <2>1. /\ pc \in {"lockAccounts", "execute"}
        /\ req' = [req EXCEPT ![r].view = view, ![r].pc = pc]
    <3>1. pc \in {"lockAccounts", "execute"}
      BY <1>14, <2>c DEF LockAccount
    <3>2. req' = [req EXCEPT ![r].view = view, ![r].pc = pc]
      BY <1>t, <2>a, <2>b, <2>c DEF Session
    <3> QED
      BY <3>1, <3>2
  <2>2. /\ OthersKeepTheirState(r) /\ req'[r].pc = pc
        /\ req'[r].op = req[r].op /\ req'[r].txn = req[r].txn
    BY <1>t, <2>1 DEF OthersKeepTheirState, Session
  <2>3. UNCHANGED <<txn, txnHolder>> /\ Locking(req[r])
    BY <1>14 DEF LockAccount, Locking
  <2>4. txnHolder'[req'[r].txn] = r /\ StillOpen(r)
    BY <2>2, <2>3 DEF SessionsInv, LockedRowsAreOpen
  <2>5. StillOpen(r)'
    BY <2>2, <2>3, <2>4 DEF StillOpen, Reversals
  <2> QED
    BY <1>t, <2>1, <2>2, <2>3, <2>4, <2>5, UnwrittenRowsStay,
       RowsPersistUnchanged, SessionsInvStep
<1>15. ASSUME NEW r \in Actors, LockTxnRefused(r) \/ ExecuteRefused(r)
       PROVE  SessionsInv'
  <2>1. UNCHANGED txn /\ (UNCHANGED txnHolder \/ Release(r)) /\ AfterRefusal(r)
    BY <1>15 DEF LockTxnRefused, ExecuteRefused
  <2>2. CASE req' = [req EXCEPT ![r].pc = "reload"]
    <3>1. PICK s : s = [req[r] EXCEPT !.pc = "reload"]
      OBVIOUS
    <3>2. s \in Session /\ s.pc = "reload"
      BY <1>t, <3>1 DEF Session
    <3>3. req' = [req EXCEPT ![r] = s]
      BY <1>t, <2>2, <3>1
    <3> QED
      BY <1>m, <2>1, <3>2, <3>3 DEF Locking
  <2> QED
    BY <1>f, <2>1, <2>2 DEF AfterRefusal
<1>16. ASSUME NEW r \in Actors,
              \/ InitiateUnstorable(r) \/ RegisterFailedAttempt(r) \/ Reissue(r)
              \/ ExecuteUnstorable(r) \/ (Reload(r) /\ Finish(r))
              \/ DeadlockAbort(r) \/ Crash(r)
       PROVE  SessionsInv'
  <2>1. /\ Finish(r) /\ UNCHANGED txn /\ (UNCHANGED txnHolder \/ Release(r))
    BY <1>16 DEF InitiateUnstorable, RegisterFailedAttempt, Reissue,
       ExecuteUnstorable, Reload, DeadlockAbort, Crash
  <2> QED
    BY <1>f, <2>1
<1>17. ASSUME UNCHANGED <<req, txnHolder>>,
              \A t \in TxnIds : \/ txn'[t] = txn[t]
                                \/ /\ txn[t].status = "NONE"
                                   /\ txn'[t].status # "NONE"
                                   /\ txn'[t].reversalOf = NoTxn
       PROVE  SessionsInv'
  <2>1. OthersKeepTheirState(Nobody) /\ RowsPersist
    BY <1>17 DEF OthersKeepTheirState, RowsPersist
  <2>2. HeldRowsStay(Nobody)
    BY <1>17, <1>n, <1>t, WrittenRowsStay
  <2> QED
    BY <1>t, <2>1, <2>2, SessionsInvStep, NamesAssumption
<1>18. CASE Environment
  <2>1. ASSUME NEW a \in Accounts, NEW amount \in Amounts,
               Deposit(a, amount) \/ Withdraw(a, amount)
        PROVE  SessionsInv'
    <3>1. PICK m \in MovementType, type \in {"DEPOSIT", "WITHDRAWAL"} :
            SingleSided(type, m)
      BY <1>t, <2>1, SingleSidedMovement
    <3>2. PICK row : row =
            [type |-> type, sender |-> m.from, receiver |-> m.to,
             amount |-> m.debit, credit |-> m.credit, status |-> "SUCCESS",
             otpVerified |-> FALSE, reversalOf |-> NoTxn]
      OBVIOUS
    <3>3. /\ UNCHANGED <<req, txnHolder>> /\ txn[m.id].status = "NONE"
          /\ txn' = [txn EXCEPT ![m.id] = row]
          /\ row.status = "SUCCESS" /\ row.reversalOf = NoTxn
      BY <3>1, <3>2 DEF SingleSided
    <3> QED
      BY <1>17, <1>t, <3>3
  <2>2. ASSUME \/ \E t \in TxnIds : ExpireOtp(t)
               \/ \E a \in Accounts, s \in NewStatuses : SetAccountStatus(a, s)
        PROVE  SessionsInv'
    BY <1>17, <2>2 DEF ExpireOtp, SetAccountStatus
  <2> QED
    BY <1>18, <2>1, <2>2 DEF Environment
<1>19. CASE UNCHANGED vars
  BY <1>17, <1>19 DEF vars
<1>20. ASSUME NEW r \in Actors, Step(r) PROVE SessionsInv'
  BY <1>2, <1>3, <1>4, <1>5, <1>6, <1>7, <1>10, <1>12, <1>13, <1>14, <1>15,
     <1>16, <1>20 DEF Step
<1>21. ASSUME NEW r \in Actors, Start(r) PROVE SessionsInv'
  BY <1>1, <1>8, <1>21 DEF Start
<1> QED
  BY <1>11, <1>16, <1>18, <1>19, <1>20, <1>21 DEF Next, Actors

\* Empty tables and idle sessions satisfy the invariant.
LEMMA XInvInit == Init => XInv
<1> SUFFICES ASSUME Init PROVE XInv
  OBVIOUS
<1>t. /\ \A t \in TxnIds : txn[t] = NoTransaction /\ conf[t] = NoConfirmation
      /\ \A a \in Accounts : ledger[a] = << >>
      /\ \A r \in Actors : req[r] = IdleSession
  BY DEF Init
<1>l. ASSUME NEW a \in Accounts PROVE Len(ledger[a]) = 0
  <2>1. Len(<< >>) = 0
    OBVIOUS
  <2> QED
    BY <1>t, <2>1, Zenon
<1>h. \A t, kind : ~HasEntry(t, kind)
  <2>1. ASSUME NEW a \in Accounts PROVE DOMAIN ledger[a] = {}
    <3>1. ledger[a] \in Seq(Entry)
      BY TInvInit DEF TInv, TypeOK
    <3> QED
      BY <1>l, <3>1
  <2> QED
    BY <2>1 DEF HasEntry
<1>s. \A t \in TxnIds : /\ txn[t].status = "NONE" /\ txn[t].type = "NONE"
                        /\ txn[t].reversalOf = NoTxn
                        /\ conf[t].attempts = 0
  BY <1>t DEF NoTransaction, NoConfirmation
<1>1. SessionsInv
  BY <1>t DEF SessionsInv, LockedRowsAreOpen, DraftsAreTransfers,
     RowsToFailExist, Locking, IdleSession
<1>2. BlankRows /\ TwoSides
  BY <1>s, <1>t DEF BlankRows, TwoSides
<1>3. EntriesMatchTransaction
  <2>1. ASSUME NEW a \in Accounts, NEW i \in 1..Len(ledger[a])
        PROVE  EntryFits(a, i)
    <3>1. PICK n : n = Len(ledger[a])
      OBVIOUS
    <3>2. i \in 1..n /\ n = 0
      BY <1>l, <3>1
    <3> QED
      BY <3>2
  <2>2. EntriesFit
    BY <2>1 DEF EntriesFit
  <2>3. AllWholeOrNothing
    BY <1>h, <1>s DEF AllWholeOrNothing, WholeOrNothing
  <2> QED
    BY <2>2, <2>3, EntriesByParts
<1>4. ReversalsAreUnique
  BY <1>s, NamesAssumption DEF ReversalsAreUnique, Reversals
<1>5. MovedMeansVerified
  BY <1>s DEF MovedMeansVerified
<1>6. ExhaustedIsFailed
  <2>1. ~(0 >= MaxAttempts)
    BY BoundsAssumption
  <2> QED
    BY <1>s, <2>1 DEF ExhaustedIsFailed
<1> QED
  BY <1>1, <1>2, <1>3, <1>4, <1>5, <1>6, LInvInit DEF XInv, RowsInv

\* XInv is inductive.
LEMMA XInvNext == XInv /\ [Next]_vars => XInv'
<1> SUFFICES ASSUME XInv, [Next]_vars PROVE XInv'
  OBVIOUS
<1>1. LInv'
  BY LInvNext DEF XInv
<1>2. SessionsInv'
  BY SessionsInvNext DEF XInv
<1>3. RowsInv'
  BY <1>1, RowsInvNext DEF XInv, LInv
<1> QED
  BY <1>1, <1>2, <1>3 DEF XInv

\* What the tables say of each other and what the sessions rely on, in every
\* reachable state.
THEOREM ExecutionDiscipline == Spec => []XInv
<1> QED
  BY XInvInit, XInvNext, PTL DEF Spec

\* Double entry for any number of accounts, transactions and sessions: an
\* order moves its money at most once, whole, between the accounts and for
\* the amounts of its row, and never while it is PENDING.
THEOREM DoubleEntry == Spec => []EntriesMatchTransaction
<1>1. XInv => EntriesMatchTransaction
  BY DEF XInv, RowsInv
<1> QED
  BY <1>1, ExecutionDiscipline, PTL

\* However many administrators race, a transaction has one reversal at most,
\* and only one that had moved money.
THEOREM OneReversal == Spec => []ReversalsAreUnique
<1>1. XInv => ReversalsAreUnique
  BY DEF XInv, RowsInv
<1> QED
  BY <1>1, ExecutionDiscipline, PTL

\* A transfer has moved money exactly if an OTP was verified for it.
THEOREM MovedOnlyIfVerified == Spec => []MovedMeansVerified
<1>1. XInv => MovedMeansVerified
  BY DEF XInv, RowsInv
<1> QED
  BY <1>1, ExecutionDiscipline, PTL

\* An exhausted challenge leaves nothing to confirm.
THEOREM ExhaustionFails == Spec => []ExhaustedIsFailed
<1>1. XInv => ExhaustedIsFailed
  BY DEF XInv, RowsInv
<1> QED
  BY <1>1, ExecutionDiscipline, PTL

\* A session about to write has current readings of its accounts, and the
\* transfer it confirms has moved nothing so far: UNIQUE (transaction_id,
\* entry_type) is never what prevents a second execution.
THEOREM CurrentExecutors == Spec => []ExecutorsAreCurrent
<1>1. XInv => ExecutorsAreCurrent
  <2> SUFFICES ASSUME XInv, NEW r \in Actors, req[r].pc = "execute"
               PROVE  /\ \A a \in AccountsOf(req[r].txn) : req[r].view[a] = acct[a]
                      /\ req[r].op = "confirm" =>
                           /\ ~HasEntry(req[r].txn, "DEBIT")
                           /\ ~HasEntry(req[r].txn, "CREDIT")
    BY DEF ExecutorsAreCurrent
  <2>1. req[r].txn \in TxnIds /\ txn[req[r].txn] \in Transaction /\ TypeOK
    BY DEF XInv, LInv, TInv, TypeOK, WorkingRows, Working
  <2>2. AccountsOf(req[r].txn) \subseteq Accounts
    BY <2>1 DEF AccountsOf, Transaction
  <2>3. \A a \in AccountsOf(req[r].txn) : req[r].view[a] = acct[a]
    BY <2>2 DEF XInv, LInv, ExecutorsHoldRows, ViewsAreCurrent
  <2>4. req[r].op = "confirm" => txn[req[r].txn].status = "PENDING"
    BY DEF XInv, SessionsInv, LockedRowsAreOpen, Locking, StillOpen
  <2> QED
    BY <2>1, <2>3, <2>4, EntriesHaveOrders DEF XInv, RowsInv, Kinds
<1> QED
  BY <1>1, ExecutionDiscipline, PTL

-----------------------------------------------------------------------------
(* What is resolved stays resolved. *)

ResolvedRowsStay ==
  \A t \in TxnIds : txn[t].status \in {"FAILED", "REVERSED"} =>
    /\ txn'[t].status \in {"FAILED", "REVERSED"}
    /\ \A kind \in Kinds : HasEntry(t, kind)' = HasEntry(t, kind)

\* A step that posts for one transaction, if it posts, which was not resolved
\* then, and that otherwise only fails transactions, keeps what is resolved.
LEMMA PostingForTheOpen ==
  ASSUME TypeOK, TypeOK',
         \/ UNCHANGED ledger
         \/ \E m \in MovementType :
              /\ m.from # m.to /\ Post(m)
              /\ txn[m.id].status \notin {"FAILED", "REVERSED"},
         \A t \in TxnIds :
           \/ txn[t].status \notin {"FAILED", "REVERSED"}
           \/ txn'[t].status \in {txn[t].status, "FAILED"}
  PROVE  ResolvedRowsStay
<1> SUFFICES ASSUME NEW t \in TxnIds, txn[t].status \in {"FAILED", "REVERSED"}
             PROVE  /\ txn'[t].status \in {"FAILED", "REVERSED"}
                    /\ \A kind \in Kinds : HasEntry(t, kind)' = HasEntry(t, kind)
  BY DEF ResolvedRowsStay
<1>1. txn'[t].status \in {"FAILED", "REVERSED"}
  OBVIOUS
<1>2. CASE UNCHANGED ledger
  BY <1>1, <1>2 DEF HasEntry
<1>3. CASE ~UNCHANGED ledger
  <2>1. PICK m \in MovementType :
          /\ m.from # m.to /\ Post(m)
          /\ txn[m.id].status \notin {"FAILED", "REVERSED"}
    BY <1>3
  <2>2. ASSUME NEW kind \in Kinds PROVE HasEntry(t, kind)' <=> HasEntry(t, kind)
    BY <2>1, EntriesAfterPost
  <2>3. ASSUME NEW kind \in Kinds PROVE HasEntry(t, kind)' = HasEntry(t, kind)
    BY <2>2 DEF HasEntry
  <2> QED
    BY <1>1, <2>3
<1> QED
  BY <1>2, <1>3

\* Every step keeps what is resolved.
LEMMA StepsKeepResolved == XInv /\ TInv' /\ [Next]_vars => ResolvedRowsStay
<1> SUFFICES ASSUME XInv, TInv', [Next]_vars PROVE ResolvedRowsStay
  OBVIOUS
<1>t. /\ TInv /\ TypeOK /\ TypeOK' /\ txn \in [TxnIds -> Transaction]
  BY DEF XInv, LInv, TInv, TypeOK
<1>u. UNCHANGED <<txn, ledger>> => ResolvedRowsStay
  BY DEF ResolvedRowsStay, HasEntry
<1>w. \A r \in Actors : Working(req[r]) => req[r].txn \in TxnIds
  BY <1>t DEF TInv, WorkingRows
<1>1. ASSUME NEW r \in Actors, InitiateCommit(r) PROVE ResolvedRowsStay
  <2>0. PICK t \in TxnIds :
          \E row :
            /\ txn[t].status = "NONE" /\ txn' = [txn EXCEPT ![t] = row]
    BY <1>1 DEF InitiateCommit
  <2>1. PICK row :
          /\ t \in TxnIds
          /\ txn[t].status = "NONE" /\ txn' = [txn EXCEPT ![t] = row]
    BY <2>0
  <2>2. UNCHANGED ledger
    BY <1>1 DEF InitiateCommit
  <2>3. \A u \in TxnIds : txn[u].status = "NONE" \/ txn'[u] = txn[u]
    BY <1>t, <2>1
  <2> QED
    BY <1>t, <2>2, <2>3, PostingForTheOpen
<1>2. ASSUME NEW r \in Actors, ExhaustChallenge(r) \/ MarkFailed(r)
      PROVE  ResolvedRowsStay
  <2>1. ASSUME NEW u \in TxnIds
        PROVE  txn'[u].status \in {txn[u].status, "FAILED"}
    <3>1. txn[u] \in Transaction
      BY <1>t
    <3> QED
      BY <1>2, <1>t, <3>1 DEF ExhaustChallenge, MarkFailed, Transaction
  <2>2. UNCHANGED ledger
    BY <1>2 DEF ExhaustChallenge, MarkFailed
  <2> QED
    BY <1>t, <2>1, <2>2, PostingForTheOpen
<1>3. ASSUME NEW r \in Actors, ConfirmExecute(r) PROVE ResolvedRowsStay
  <2>0. req[r].op = "confirm" /\ Locking(req[r]) /\ req[r].txn \in TxnIds
    BY <1>3, <1>w DEF ConfirmExecute, At, Working, Locking
  <2>1. PICK t \in TxnIds : t = req[r].txn
    BY <2>0
  <2>2. PICK m \in MovementType : m = Movement(r, t)
    BY <1>t, <2>0, MovementOfSession
  <2>3. /\ Post(m) /\ txn[t].status = "PENDING"
        /\ txn' = [txn EXCEPT ![t].status = "SUCCESS", ![t].otpVerified = TRUE]
    BY <1>3, <2>0, <2>1, <2>2
       DEF ConfirmExecute, XInv, SessionsInv, LockedRowsAreOpen, StillOpen
  <2>4. m.id = t /\ m.from = txn[t].sender /\ m.to = txn[t].receiver
    BY <2>0, <2>1, <2>2 DEF Movement
  <2>5. m.from # m.to
    BY <2>3, <2>4 DEF XInv, RowsInv, TwoSides
  <2>6. \A u \in TxnIds : u = t \/ txn'[u] = txn[u]
    BY <1>t, <2>3
  <2> QED
    BY <1>t, <2>3, <2>4, <2>5, <2>6, PostingForTheOpen
<1>4. ASSUME NEW r \in Actors, ReverseExecute(r) PROVE ResolvedRowsStay
  <2>1. LockedRowsAreOpen /\ RowsInv
    BY DEF XInv, SessionsInv
  <2>2. PICK t \in TxnIds, u \in TxnIds, m \in MovementType, row \in Transaction :
          ReversalWrites(r, t, u, m, row)
    BY <1>4, <1>t, <2>1, ReversalRows
  <2>3. /\ txn[t].status = "SUCCESS" /\ txn[u].status = "NONE"
        /\ m.id = u /\ m.from # m.to /\ Post(m)
        /\ \A v \in TxnIds \ {t, u} : txn'[v] = txn[v]
    BY <2>2 DEF ReversalWrites
  <2> QED
    BY <1>t, <2>3, PostingForTheOpen
<1>5. ASSUME NEW a \in Accounts, NEW amount \in Amounts,
             Deposit(a, amount) \/ Withdraw(a, amount)
      PROVE  ResolvedRowsStay
  <2>1. PICK m \in MovementType, type \in {"DEPOSIT", "WITHDRAWAL"} :
          m.from # m.to /\ SingleSided(type, m)
    BY <1>5, <1>t, TwoDifferentSides
  <2>2. PICK row : /\ txn[m.id].status = "NONE" /\ Post(m)
                   /\ txn' = [txn EXCEPT ![m.id] = row]
    BY <2>1 DEF SingleSided
  <2>3. \A u \in TxnIds : txn[u].status = "NONE" \/ txn'[u] = txn[u]
    BY <1>t, <2>2
  <2> QED
    BY <1>t, <2>1, <2>2, <2>3, PostingForTheOpen
<1>6. ASSUME NEW r \in Actors, Step(r) PROVE ResolvedRowsStay
  BY <1>1, <1>2, <1>3, <1>4, <1>6, <1>u DEF Step, InitiateInsert,
     InitiateUnstorable, ConfirmUnusableOtp, ConfirmWrongCode,
     ConfirmRightCode, RegisterFailedAttempt, LockTxn, LockTxnRefused,
     LockAccount, ExecuteRefused, ExecuteUnstorable, Reload, ResendReadOtp,
     Reissue
<1>7. ASSUME NEW r \in Actors,
             Start(r) \/ SweepSelect(r) \/ DeadlockAbort(r) \/ Crash(r)
      PROVE  ResolvedRowsStay
  BY <1>7, <1>u DEF Start, InitiateValidate, ConfirmBegin, ResendBegin,
     ReverseBegin, SweepSelect, DeadlockAbort, Crash
<1>8. CASE Environment
  BY <1>5, <1>8, <1>u DEF Environment, ExpireOtp, SetAccountStatus
<1>9. CASE UNCHANGED vars
  BY <1>9, <1>u DEF vars
<1> QED
  BY <1>6, <1>7, <1>8, <1>9 DEF Next, Actors

\* No step of any session brings a FAILED or REVERSED transaction back to
\* life, nor posts an entry for it.
THEOREM ResolvedIsFinal == Spec => ResolvedStaysResolved
<1>1. XInv /\ XInv' /\ [Next]_vars => [ResolvedRowsStay]_vars
  BY StepsKeepResolved DEF XInv, LInv
<1> QED
  BY <1>1, ExecutionDiscipline, PTL
     DEF Spec, ResolvedStaysResolved, ResolvedRowsStay, Kinds

-----------------------------------------------------------------------------
(* Sessions that lock accounts in id order never wait for each other in a  *)
(* circle: the account one of them waits for is larger than every account  *)
(* it holds, so the largest one they wait for has a holder that waits for  *)
(* a larger one still.                                                     *)


\* A finite set of numbers that has a member has a largest one.
LEMMA LargestMember ==
  ASSUME NEW T, IsFiniteSet(T), T \subseteq Nat, T # {}
  PROVE  \E n \in T : \A m \in T : m <= n
<1> DEFINE Above(n) == {m \in T : m > n}
           Family == {Above(n) : n \in T}
<1>1. \A n \in T : Above(n) \in FiniteSubsetsOf(T)
  BY FS_Subset DEF FiniteSubsetsOf
<1>2. Family \subseteq FiniteSubsetsOf(T) /\ Family # {}
  BY <1>1
<1>3. PICK x \in Family : \A y \in Family : <<y, x>> \notin StrictSubsetOrdering(T)
  <2> HIDE DEF Family
  <2> QED
    BY <1>2, FS_StrictSubsetOrderingWellFounded, WFMin
<1>4. PICK n \in T : x = Above(n)
  BY <1>3
<1>5. ASSUME NEW m \in T, m > n PROVE FALSE
  <2>1. Above(m) \in Family
    OBVIOUS
  <2>2. Above(m) \subseteq Above(n) /\ m \in Above(n) /\ m \notin Above(m)
    <3>1. n \in Nat /\ m \in Nat /\ m > n /\ ~(m > m)
      BY <1>5
    <3>2. \A k \in T : k \in Nat
      OBVIOUS
    <3>3. \A k \in T : k > m => k > n
      BY <3>1, <3>2
    <3>4. m \in Above(n) /\ m \notin Above(m)
      BY <3>1, Zenon
    <3> QED
      BY <3>3, <3>4, Zenon
  <2>3. <<Above(m), x>> \in StrictSubsetOrdering(T)
    BY <1>1, <1>4, <2>2 DEF StrictSubsetOrdering, FiniteSubsetsOf
  <2> QED
    BY <1>3, <2>1, <2>3
<1> QED
  BY <1>5

\* A session holds accounts of its transaction only, and all of them are
\* smaller than those it still has to lock.
LocksInOrder ==
  \A r \in Actors, a \in Accounts : acctHolder[a] = r =>
    /\ a \in AccountsOf(req[r].txn)
    /\ \A b \in Unlocked(r) : a < b

\* A step of session r keeps the order in which the others hold theirs.
LEMMA LocksInOrderStep ==
  ASSUME LInv, LocksInOrder, SidesPersist, NEW r, OthersKeepTheirState(r),
         \A a \in Accounts, s \in Actors \ {r} :
           acctHolder'[a] = s <=> acctHolder[a] = s,
         \A a \in Accounts : r \in Actors /\ acctHolder'[a] = r =>
           a \in AccountsOf(req[r].txn)' /\ \A b \in Unlocked(r)' : a < b
  PROVE  LocksInOrder'
<1> SUFFICES ASSUME NEW s \in Actors, NEW a \in Accounts, acctHolder'[a] = s,
                    s # r
             PROVE  /\ a \in AccountsOf(req[s].txn)'
                    /\ \A b \in Unlocked(s)' : a < b
  BY DEF LocksInOrder
<1>1. acctHolder[a] = s /\ req'[s] = req[s]
  BY DEF OthersKeepTheirState
<1>2. req[s].txn \in TxnIds /\ txn[req[s].txn].status # "NONE"
  BY <1>1 DEF LInv, ViewsAreCurrent, Locking, TInv, WorkingRows, Working
<1>3. AccountsOf(req[s].txn)' = AccountsOf(req[s].txn)
  BY <1>1, <1>2 DEF SidesPersist, AccountsOf
<1>4. AccountsOf(req[s].txn) \subseteq Accounts
  BY <1>2 DEF LInv, TInv, TypeOK, AccountsOf, Transaction
<1>5. Unlocked(s)' = Unlocked(s)
  BY <1>3, <1>4 DEF Unlocked
<1> QED
  BY <1>1, <1>3, <1>5 DEF LocksInOrder

\* No action changes whom an existing transaction is between.
LEMMA SidesPersistNext == LInv /\ [Next]_vars => SidesPersist
<1> SUFFICES ASSUME LInv, [Next]_vars PROVE SidesPersist
  OBVIOUS
<1>t. txn \in [TxnIds -> Transaction] /\ TInv
  BY DEF LInv, TInv, TypeOK
<1>0. UNCHANGED txn => SidesPersist
  BY DEF SidesPersist
<1>i. ASSUME NEW t \in TxnIds, NEW row, txn[t].status = "NONE",
             txn' = [txn EXCEPT ![t] = row]
      PROVE  SidesPersist
  BY <1>i, <1>t DEF SidesPersist
<1>1. ASSUME NEW r \in Actors, Step(r) PROVE SidesPersist
  <2>1. CASE InitiateCommit(r)
    BY <1>i, <2>1 DEF InitiateCommit
  <2>2. CASE ExhaustChallenge(r)
    BY <1>t, <2>2 DEF ExhaustChallenge, SidesPersist, Transaction
  <2>3. CASE MarkFailed(r)
    BY <1>t, <2>3 DEF MarkFailed, SidesPersist, Transaction
  <2>4. CASE ConfirmExecute(r)
    BY <1>t, <2>4 DEF ConfirmExecute, SidesPersist, Transaction
  <2>5. CASE ReverseExecute(r)
    <3>0. PICK u \in TxnIds :
            \E row :
              /\ txn[u].status = "NONE"
              /\ txn' = [txn EXCEPT ![req[r].txn].status = "REVERSED", ![u] = row]
      BY <2>5 DEF ReverseExecute
    <3>1. PICK row :
            /\ u \in TxnIds
            /\ txn[u].status = "NONE"
            /\ txn' = [txn EXCEPT ![req[r].txn].status = "REVERSED", ![u] = row]
      BY <3>0
    <3> QED
      BY <1>t, <3>1 DEF SidesPersist, Transaction
  <2> QED
    BY <1>0, <1>1, <2>1, <2>2, <2>3, <2>4, <2>5 DEF Step, InitiateInsert,
       InitiateUnstorable, ConfirmUnusableOtp, ConfirmWrongCode,
       ConfirmRightCode, RegisterFailedAttempt, LockTxn, LockTxnRefused,
       LockAccount, ExecuteRefused, ExecuteUnstorable, Reload, ResendReadOtp,
       Reissue
<1>2. ASSUME NEW r \in Actors,
             Start(r) \/ SweepSelect(r) \/ DeadlockAbort(r) \/ Crash(r)
      PROVE  SidesPersist
  BY <1>0, <1>2 DEF Start, InitiateValidate, ConfirmBegin, ResendBegin,
     ReverseBegin, SweepSelect, DeadlockAbort, Crash
<1>3. CASE Environment
  <2>1. ASSUME NEW a \in Accounts, NEW amount \in Amounts,
               Deposit(a, amount) \/ Withdraw(a, amount)
        PROVE  SidesPersist
    <3>0. PICK t \in TxnIds :
            \E row :
              /\ txn[t].status = "NONE" /\ txn' = [txn EXCEPT ![t] = row]
      BY <2>1 DEF Deposit, Withdraw, SingleSided
    <3>1. PICK row :
            /\ t \in TxnIds
            /\ txn[t].status = "NONE" /\ txn' = [txn EXCEPT ![t] = row]
      BY <3>0
    <3> QED
      BY <1>i, <3>1
  <2> QED
    BY <1>0, <1>3, <2>1 DEF Environment, ExpireOtp, SetAccountStatus
<1>4. CASE UNCHANGED vars
  BY <1>0, <1>4 DEF vars
<1> QED
  BY <1>1, <1>2, <1>3, <1>4 DEF Next, Actors

\* What a step of session r does to the other sessions: nothing.
LEMMA StepsAreLocal ==
  ASSUME TypeOK, NEW r \in Actors,
         Step(r) \/ Start(r) \/ SweepSelect(r) \/ DeadlockAbort(r) \/ Crash(r)
  PROVE  OthersKeepTheirState(r)
<1>t. req \in [Actors -> Session]
  BY DEF TypeOK
<1>f. Finish(r) => OthersKeepTheirState(r)
  BY <1>t DEF Finish, OthersKeepTheirState
<1>r. AfterRefusal(r) => OthersKeepTheirState(r)
  BY <1>f, <1>t DEF AfterRefusal, OthersKeepTheirState
<1>1. CASE Start(r)
  BY <1>1, <1>t DEF Start, InitiateValidate, ConfirmBegin, ResendBegin,
     ReverseBegin, OthersKeepTheirState
<1>2. CASE SweepSelect(r) \/ InitiateInsert(r) \/ LockTxn(r)
  BY <1>2, <1>t DEF SweepSelect, InitiateInsert, LockTxn, OthersKeepTheirState
<1>3. CASE \/ ConfirmUnusableOtp(r) \/ ConfirmWrongCode(r)
           \/ ConfirmRightCode(r) \/ ResendReadOtp(r)
  BY <1>3, <1>t DEF ConfirmUnusableOtp, ConfirmWrongCode, ConfirmRightCode,
     ResendReadOtp, OthersKeepTheirState
<1>4. CASE LockAccount(r)
  BY <1>4, <1>t DEF LockAccount, OthersKeepTheirState
<1>5. CASE Reload(r)
  BY <1>5, <1>f, <1>t DEF Reload, OthersKeepTheirState
<1>6. CASE LockTxnRefused(r) \/ ExecuteRefused(r)
  BY <1>6, <1>r DEF LockTxnRefused, ExecuteRefused
<1>7. CASE \/ InitiateCommit(r) \/ InitiateUnstorable(r)
           \/ RegisterFailedAttempt(r) \/ ExhaustChallenge(r) \/ MarkFailed(r)
           \/ ConfirmExecute(r) \/ ReverseExecute(r) \/ ExecuteUnstorable(r)
           \/ Reissue(r) \/ DeadlockAbort(r) \/ Crash(r)
  BY <1>7, <1>f DEF InitiateCommit, InitiateUnstorable, RegisterFailedAttempt,
     ExhaustChallenge, MarkFailed, ConfirmExecute, ReverseExecute,
     ExecuteUnstorable, Reissue, DeadlockAbort, Crash
<1> QED
  BY <1>1, <1>2, <1>3, <1>4, <1>5, <1>6, <1>7 DEF Step

\* Accounts are locked in id order.
LEMMA LocksInOrderNext ==
  ASSUME LInv, LocksInOrder, [Next]_vars
  PROVE  LocksInOrder'
<1>t. /\ TypeOK /\ req \in [Actors -> Session] /\ SidesPersist
      /\ acctHolder \in [Accounts -> Actors \cup {Nobody}]
      /\ txn \in [TxnIds -> Transaction]
  BY SidesPersistNext DEF LInv, TInv, TypeOK
<1>1. ASSUME NEW r \in Actors, OthersKeepTheirState(r), Release(r)
      PROVE  LocksInOrder'
  <2>1. \A a \in Accounts : acctHolder'[a] # r
    BY <1>1, NamesAssumption DEF Release
  <2>2. \A a \in Accounts, s \in Actors \ {r} :
          acctHolder'[a] = s <=> acctHolder[a] = s
    BY <1>1, NamesAssumption DEF Release
  <2> QED
    BY <1>1, <1>t, <2>1, <2>2, LocksInOrderStep
<1>2. ASSUME NEW r, OthersKeepTheirState(r), UNCHANGED acctHolder,
             r \in Actors => ~Locking(req[r])
      PROVE  LocksInOrder'
  <2>1. \A a \in Accounts : r \in Actors => acctHolder'[a] # r
    BY <1>2 DEF LInv, ViewsAreCurrent
  <2> QED
    BY <1>2, <1>t, <2>1, LocksInOrderStep
<1>3. ASSUME NEW r \in Actors, LockAccount(r) PROVE LocksInOrder'
  <2>1. PICK a \in Unlocked(r) :
          /\ \A b \in Unlocked(r) : a <= b
          /\ AccountFree(a)
          /\ acctHolder' = [acctHolder EXCEPT ![a] = r]
          /\ req' = [req EXCEPT ![r].view[a] = acct[a],
                       ![r].pc = IF Unlocked(r) = {a} THEN "execute" ELSE @]
    BY <1>3 DEF LockAccount
  <2>2. req[r].pc = "lockAccounts" /\ UNCHANGED txn
    BY <1>3 DEF LockAccount
  <2>3. AccountsOf(req[r].txn) \subseteq Accounts
    BY <1>t, <2>2 DEF LInv, TInv, WorkingRows, Working, AccountsOf, Transaction
  <2>4. OthersKeepTheirState(r)
    BY <1>3, <1>t, StepsAreLocal DEF Step
  <2>5. AccountsOf(req[r].txn)' = AccountsOf(req[r].txn)
    <3>1. req'[r].txn = req[r].txn
      BY <1>t, <2>1 DEF Session
    <3> QED
      BY <2>2, <3>1 DEF AccountsOf
  <2>6. a \in Accounts /\ a \in AccountsOf(req[r].txn) /\ acctHolder[a] = Nobody
    BY <2>1, <2>3 DEF Unlocked, AccountFree
  <2>7. Unlocked(r)' = Unlocked(r) \ {a}
    BY <1>t, <2>1, <2>3, <2>5, <2>6 DEF Unlocked
  <2>8. Unlocked(r) \subseteq Nat /\ a \in Nat
    BY <2>3, <2>6, AccountsAssumption DEF Unlocked
  <2>9. ASSUME NEW b \in Accounts, acctHolder'[b] = r
        PROVE  b \in AccountsOf(req[r].txn)' /\ \A c \in Unlocked(r)' : b < c
    <3>1. CASE b = a
      BY <2>1, <2>5, <2>6, <2>7, <2>8, <3>1
    <3>2. CASE b # a
      BY <1>t, <2>1, <2>5, <2>6, <2>7, <2>9, <3>2 DEF LocksInOrder
    <3> QED
      BY <3>1, <3>2
  <2>10. \A b \in Accounts, s \in Actors \ {r} :
           acctHolder'[b] = s <=> acctHolder[b] = s
    BY <1>t, <2>1, <2>6, NamesAssumption
  <2> QED
    BY <1>t, <2>4, <2>9, <2>10, LocksInOrderStep
<1>4. ASSUME NEW r \in Actors, Step(r) PROVE LocksInOrder'
  <2>1. OthersKeepTheirState(r)
    BY <1>4, <1>t, StepsAreLocal
  <2>2. CASE \/ ConfirmExecute(r) \/ ReverseExecute(r) \/ ExecuteRefused(r)
             \/ ExecuteUnstorable(r)
    BY <1>1, <2>1, <2>2 DEF ConfirmExecute, ReverseExecute, ExecuteRefused,
       ExecuteUnstorable
  <2>3. CASE ~(\/ LockAccount(r) \/ ConfirmExecute(r) \/ ReverseExecute(r)
               \/ ExecuteRefused(r) \/ ExecuteUnstorable(r))
    <3>1. UNCHANGED acctHolder /\ ~Locking(req[r])
      BY <1>4, <2>3 DEF Step, InitiateInsert, InitiateCommit,
         InitiateUnstorable, ConfirmUnusableOtp, ConfirmWrongCode,
         ConfirmRightCode, RegisterFailedAttempt, ExhaustChallenge, MarkFailed,
         LockTxn, LockTxnRefused, Reload, ResendReadOtp, Reissue, At, Locking
    <3> QED
      BY <1>2, <2>1, <3>1
  <2> QED
    BY <1>3, <2>2, <2>3
<1>5. ASSUME NEW r \in Actors, Start(r) \/ SweepSelect(r) PROVE LocksInOrder'
  <2>1. OthersKeepTheirState(r)
    BY <1>5, <1>t, StepsAreLocal
  <2>2. UNCHANGED acctHolder /\ req[r].pc = "idle"
    BY <1>5 DEF Start, InitiateValidate, ConfirmBegin, ResendBegin,
       ReverseBegin, SweepSelect
  <2> QED
    BY <1>2, <2>1, <2>2 DEF Locking
<1>6. ASSUME NEW r \in Actors, DeadlockAbort(r) \/ Crash(r) PROVE LocksInOrder'
  <2>1. OthersKeepTheirState(r)
    BY <1>6, <1>t, StepsAreLocal
  <2> QED
    BY <1>1, <1>6, <2>1 DEF DeadlockAbort, Crash
<1>7. CASE Environment \/ UNCHANGED vars
  <2>a. ASSUME NEW a \in Accounts, NEW amount \in Amounts,
               Deposit(a, amount) \/ Withdraw(a, amount)
        PROVE  UNCHANGED <<acctHolder, req>>
    BY <2>a DEF Deposit, Withdraw, SingleSided
  <2>1. UNCHANGED <<acctHolder, req>>
    BY <1>7, <2>a DEF Environment, ExpireOtp, SetAccountStatus, vars
  <2>2. OthersKeepTheirState(Nobody)
    BY <2>1 DEF OthersKeepTheirState
  <2> QED
    BY <1>2, <2>1, <2>2, NamesAssumption
<1> QED
  BY <1>4, <1>5, <1>6, <1>7 DEF Next, Actors

\* Whom a session that locks accounts waits for, if not for an INSERT.
LEMMA BlockersHoldMore ==
  ASSUME LInv, LocksInOrder, NEW r \in Actors, NEW q \in Blockers(r) \cap Actors,
         ~At(r, "initiate", "insertReceiver"), ~At(q, "initiate", "insertReceiver"),
         req[r].pc = "insertReceiver" => req[r].op = "initiate"
  PROVE  \E a \in Unlocked(r) \cap Accounts :
           /\ acctHolder[a] = q
           /\ \A b \in Unlocked(r) : a <= b
           /\ \A b \in Unlocked(q) : a < b
<1>1. req[r].pc = "lockAccounts"
  BY DEF Blockers, At
<1>2. PICK a \in Unlocked(r) :
        /\ \A b \in Unlocked(r) : a <= b
        /\ q \in {acctHolder[a]} \cup KeySharers(a)
  BY <1>1 DEF Blockers
<1>3. acctHolder[a] = q
  BY <1>2 DEF KeySharers
<1>4. a \in Accounts
  <2>1. req[r].txn \in TxnIds
    BY <1>1 DEF LInv, TInv, WorkingRows, Working
  <2>2. txn[req[r].txn] \in Transaction
    BY <2>1 DEF LInv, TInv, TypeOK
  <2> QED
    BY <1>2, <2>2 DEF Unlocked, AccountsOf, Transaction
<1> QED
  BY <1>2, <1>3, <1>4 DEF LocksInOrder

\* Of sessions that wait for each other in a circle one is in an INSERT.
LEMMA CirclesNeedInserts ==
  ASSUME IsFiniteSet(Accounts), XInv, LocksInOrder, NEW S \in SUBSET Actors,
         Deadlocked(S)
  PROVE  \E r \in S : At(r, "initiate", "insertReceiver")
<1> SUFFICES ASSUME \A r \in S : ~At(r, "initiate", "insertReceiver")
             PROVE  FALSE
  OBVIOUS
<1> DEFINE Wanted == {a \in Accounts : \E r \in S :
                        a \in Unlocked(r) /\ acctHolder[a] \in S
                        /\ \A b \in Unlocked(r) : a <= b}
<1>1. ASSUME NEW r \in S
      PROVE  \E a \in Wanted : /\ a \in Unlocked(r)
                               /\ \A b \in Unlocked(r) : a <= b
                               /\ acctHolder[a] \in S
                               /\ \A b \in Unlocked(acctHolder[a]) : a < b
  <2>1. PICK q \in Blockers(r) \cap S : TRUE
    BY DEF Deadlocked
  <2>2. req[r].pc = "insertReceiver" => req[r].op = "initiate"
    BY DEF XInv, SessionsInv, DraftsAreTransfers
  <2>3. PICK a \in Unlocked(r) \cap Accounts :
          /\ acctHolder[a] = q
          /\ \A b \in Unlocked(r) : a <= b
          /\ \A b \in Unlocked(q) : a < b
    BY <2>1, <2>2, BlockersHoldMore DEF XInv
  <2> QED
    BY <2>1, <2>3
<1>2. PICK r \in S : TRUE
  BY DEF Deadlocked
<1>3. Wanted # {}
  BY <1>1, <1>2
<1>4. IsFiniteSet(Wanted) /\ Wanted \subseteq Nat
  BY AccountsAssumption, FS_Subset
<1>5. PICK a \in Wanted : \A b \in Wanted : b <= a
  BY <1>3, <1>4, LargestMember
<1>6. PICK q \in S : acctHolder[a] = q /\ \A b \in Unlocked(q) : a < b
  <2>1. PICK s \in S : a \in Unlocked(s) /\ \A b \in Unlocked(s) : a <= b
    BY <1>5
  <2>2. PICK c \in Wanted : /\ c \in Unlocked(s)
                            /\ \A b \in Unlocked(s) : c <= b
                            /\ acctHolder[c] \in S
                            /\ \A b \in Unlocked(acctHolder[c]) : c < b
    BY <1>1
  <2>3. a = c
    BY <1>4, <2>1, <2>2
  <2> QED
    BY <2>2, <2>3
<1>7. PICK b \in Wanted : b \in Unlocked(q)
  BY <1>1
<1>8. a < b /\ b <= a /\ a \in Nat /\ b \in Nat
  BY <1>4, <1>5, <1>6, <1>7
<1> QED
  BY <1>8

\* With finitely many accounts, the order in which rows are locked keeps
\* executions and reversals, any number of them, from ever waiting for each
\* other in a circle: every deadlock involves an INSERT of a transfer.
THEOREM NoDeadlockOfExecutors ==
  ASSUME IsFiniteSet(Accounts)
  PROVE  Spec => []ExecutorsNeverDeadlock
<1>1. Init => LocksInOrder
  BY NamesAssumption DEF Init, LocksInOrder
<1>2. XInv /\ LocksInOrder /\ [Next]_vars => LocksInOrder'
  BY LocksInOrderNext DEF XInv
<1>3. XInv /\ LocksInOrder => ExecutorsNeverDeadlock
  BY CirclesNeedInserts DEF ExecutorsNeverDeadlock
<1> QED
  BY <1>1, <1>2, <1>3, ExecutionDiscipline, PTL DEF Spec

-----------------------------------------------------------------------------
(***************************************************************************)
(* Where all accounts have one currency, Transfers implements Bank: each   *)
(* order is carried out in one step, at most once, exactly as accepted,    *)
(* and undone at most once by the same money moving back.  With several    *)
(* currencies it does so until a converted transfer is reversed, which     *)
(* moves the sender's amount in the receiver's currency.                   *)
(***************************************************************************)

OneCurrencyOnly == \A a, b \in Accounts : Currency[a] = Currency[b]

\* What leaves one account is what arrives on the other, for every row and
\* for every row to be inserted.
PlainAmounts ==
  /\ \A t \in TxnIds : txn[t].amount = txn[t].credit
  /\ \A r \in Actors : req[r].draft.amount = req[r].draft.credit

\* A row that is not inserted or changed in its amounts is plain.
LEMMA PlainAmountsStep ==
  ASSUME PlainAmounts,
         \A t \in TxnIds : \/ /\ txn'[t].amount = txn[t].amount
                              /\ txn'[t].credit = txn[t].credit
                           \/ txn'[t].amount = txn'[t].credit,
         \A r \in Actors : \/ req'[r].draft = req[r].draft
                           \/ req'[r].draft.amount = req'[r].draft.credit
  PROVE  PlainAmounts'
BY DEF PlainAmounts

\* Between accounts of one currency nothing is converted.
LEMMA PlainAmountsNext ==
  ASSUME OneCurrencyOnly, XInv, PlainAmounts, [Next]_vars
  PROVE  PlainAmounts'
<1>t. /\ req \in [Actors -> Session] /\ txn \in [TxnIds -> Transaction] /\ TInv
      /\ TypeOK
  BY DEF XInv, LInv, TInv, TypeOK
<1>w. \A r \in Actors : Working(req[r]) => req[r].txn \in TxnIds
  BY <1>t DEF TInv, WorkingRows
<1>s. \A r \in Actors : req[r] \in Session
  BY <1>t
<1>i. IdleSession.draft.amount = IdleSession.draft.credit
  BY DEF IdleSession, NoDraft
<1>f. ASSUME NEW r \in Actors, Finish(r)
      PROVE  \A s \in Actors : \/ req'[s].draft = req[s].draft
                               \/ req'[s].draft.amount = req'[s].draft.credit
  BY <1>f, <1>i, <1>t DEF Finish
<1>q. ASSUME UNCHANGED txn, \E r \in Actors : Finish(r) PROVE PlainAmounts'
  BY <1>f, <1>q, PlainAmountsStep
<1>1. ASSUME NEW r \in Actors, NEW s \in Accounts, NEW d \in Accounts,
             NEW amount \in Amounts, InitiateValidate(r, s, d, amount)
      PROVE  PlainAmounts'
  <2>1. CreditAmounts(s, d, amount) = {amount}
    BY DEF OneCurrencyOnly, CreditAmounts
  <2>2. PICK draft :
          /\ draft.amount = draft.credit /\ UNCHANGED txn
          /\ req' = [req EXCEPT ![r].op = "initiate", ![r].pc = "insert",
                                ![r].draft = draft]
    BY <1>1, <2>1 DEF InitiateValidate
  <2>3. \A q \in Actors : \/ req'[q].draft = req[q].draft
                          \/ req'[q].draft.amount = req'[q].draft.credit
    BY <1>s, <1>t, <2>2 DEF Session
  <2> QED
    BY <2>2, <2>3, PlainAmountsStep
<1>2. ASSUME NEW r \in Actors, InitiateCommit(r) PROVE PlainAmounts'
  <2>0. PICK t \in TxnIds :
          \E row :
            /\ row.amount = req[r].draft.amount /\ row.credit = req[r].draft.credit
            /\ txn' = [txn EXCEPT ![t] = row]
    BY <1>2 DEF InitiateCommit
  <2>1. PICK row :
          /\ t \in TxnIds
          /\ row.amount = req[r].draft.amount /\ row.credit = req[r].draft.credit
          /\ txn' = [txn EXCEPT ![t] = row]
    BY <2>0
  <2>2. \A u \in TxnIds : txn'[u] = txn[u] \/ txn'[u].amount = txn'[u].credit
    BY <1>t, <2>1 DEF PlainAmounts
  <2> QED
    BY <1>2, <1>f, <2>2, PlainAmountsStep DEF InitiateCommit
<1>3. ASSUME NEW r \in Actors,
             ExhaustChallenge(r) \/ MarkFailed(r) \/ ConfirmExecute(r)
      PROVE  PlainAmounts'
  <2>1. ASSUME NEW t \in TxnIds
        PROVE  txn'[t].amount = txn[t].amount /\ txn'[t].credit = txn[t].credit
    <3>1. txn[t] \in Transaction
      BY <1>t
    <3> QED
      BY <1>3, <1>t, <3>1
         DEF ExhaustChallenge, MarkFailed, ConfirmExecute, Transaction
  <2>2. Finish(r)
    BY <1>3 DEF ExhaustChallenge, MarkFailed, ConfirmExecute
  <2> QED
    BY <1>f, <2>1, <2>2, PlainAmountsStep
<1>4. ASSUME NEW r \in Actors, ReverseExecute(r) PROVE PlainAmounts'
  <2>1. LockedRowsAreOpen /\ RowsInv
    BY DEF XInv, SessionsInv
  <2>2. PICK t \in TxnIds, u \in TxnIds, m \in MovementType, row \in Transaction :
          ReversalWrites(r, t, u, m, row)
    BY <1>4, <1>t, <2>1, ReversalRows
  <2>3. /\ row.amount = row.credit /\ txn'[u] = row
        /\ txn'[t] = [txn[t] EXCEPT !.status = "REVERSED"]
        /\ \A v \in TxnIds \ {t, u} : txn'[v] = txn[v]
    BY <2>2 DEF ReversalWrites
  <2>4. txn[t] \in Transaction
    BY <1>t
  <2>5. txn'[t].amount = txn[t].amount /\ txn'[t].credit = txn[t].credit
    BY <2>3, <2>4 DEF Transaction
  <2>6. Finish(r)
    BY <1>4 DEF ReverseExecute
  <2> QED
    BY <1>f, <2>3, <2>5, <2>6, PlainAmountsStep
<1>5. ASSUME NEW a \in Accounts, NEW amount \in Amounts,
             Deposit(a, amount) \/ Withdraw(a, amount)
      PROVE  PlainAmounts'
  <2>0. PICK t \in TxnIds :
          \E row :
            /\ row.amount = row.credit /\ UNCHANGED req
            /\ txn' = [txn EXCEPT ![t] = row]
    BY <1>5 DEF Deposit, Withdraw, SingleSided
  <2>1. PICK row :
          /\ t \in TxnIds
          /\ row.amount = row.credit /\ UNCHANGED req
          /\ txn' = [txn EXCEPT ![t] = row]
    BY <2>0
  <2>2. \A u \in TxnIds : txn'[u] = txn[u] \/ txn'[u].amount = txn'[u].credit
    BY <1>t, <2>1
  <2> QED
    BY <2>1, <2>2, PlainAmountsStep
<1>d. ASSUME UNCHANGED txn, \A r \in Actors : req'[r].draft = req[r].draft
      PROVE  PlainAmounts'
  BY <1>d, PlainAmountsStep
<1>6. ASSUME NEW r \in Actors, Start(r) PROVE PlainAmounts'
  <2>1. ASSUME NEW t \in TxnIds,
               ConfirmBegin(r, t) \/ ResendBegin(r, t) \/ ReverseBegin(r, t)
        PROVE  PlainAmounts'
    BY <1>d, <1>s, <1>t, <2>1
       DEF ConfirmBegin, ResendBegin, ReverseBegin, Session
  <2> QED
    BY <1>1, <1>6, <2>1 DEF Start
<1>7. ASSUME NEW r \in Actors,
             \/ InitiateInsert(r) \/ ConfirmUnusableOtp(r)
             \/ ConfirmWrongCode(r) \/ ConfirmRightCode(r) \/ LockTxn(r)
             \/ LockAccount(r) \/ ResendReadOtp(r) \/ SweepSelect(r)
             \/ (Reload(r) /\ ~Finish(r))
      PROVE  PlainAmounts'
  <2>1. UNCHANGED txn
    BY <1>7 DEF InitiateInsert, ConfirmUnusableOtp, ConfirmWrongCode,
       ConfirmRightCode, LockTxn, LockAccount, ResendReadOtp, SweepSelect, Reload
  <2>2. ASSUME NEW q \in Actors, InitiateInsert(r) \/ LockTxn(r)
        PROVE  req'[q].draft = req[q].draft
    BY <1>s, <1>t, <2>2 DEF InitiateInsert, LockTxn, Session
  <2>3. ASSUME NEW q \in Actors, ConfirmUnusableOtp(r)
        PROVE  req'[q].draft = req[q].draft
    BY <1>s, <1>t, <2>3 DEF ConfirmUnusableOtp, Session
  <2>7. ASSUME NEW q \in Actors, SweepSelect(r)
        PROVE  req'[q].draft = req[q].draft
    BY <1>s, <1>t, <2>7 DEF SweepSelect, Session
  <2>4. ASSUME NEW q \in Actors, Reload(r), ~Finish(r)
        PROVE  req'[q].draft = req[q].draft
    BY <1>s, <1>t, <2>4 DEF Reload, Session
  <2>5. ASSUME NEW q \in Actors, \/ ConfirmWrongCode(r) \/ ConfirmRightCode(r)
                                 \/ ResendReadOtp(r)
        PROVE  req'[q].draft = req[q].draft
    BY <1>s, <1>t, <2>5 DEF ConfirmWrongCode, ConfirmRightCode, ResendReadOtp,
       Session
  <2>6. ASSUME NEW q \in Actors, LockAccount(r)
        PROVE  req'[q].draft = req[q].draft
    <3>1. PICK a, pc :
            req' = [req EXCEPT ![r].view[a] = acct[a], ![r].pc = pc]
      BY <2>6 DEF LockAccount
    <3> QED
      BY <1>s, <1>t, <3>1 DEF Session
  <2> QED
    BY <1>7, <1>d, <2>1, <2>2, <2>3, <2>4, <2>5, <2>6, <2>7
<1>8. ASSUME NEW r \in Actors, LockTxnRefused(r) \/ ExecuteRefused(r)
      PROVE  PlainAmounts'
  <2>1. UNCHANGED txn /\ AfterRefusal(r)
    BY <1>8 DEF LockTxnRefused, ExecuteRefused
  <2> QED
    BY <1>d, <1>q, <1>s, <1>t, <2>1 DEF AfterRefusal, Session
<1>9. ASSUME NEW r \in Actors,
             \/ InitiateUnstorable(r) \/ RegisterFailedAttempt(r) \/ Reissue(r)
             \/ ExecuteUnstorable(r) \/ (Reload(r) /\ Finish(r))
             \/ DeadlockAbort(r) \/ Crash(r)
      PROVE  PlainAmounts'
  BY <1>9, <1>q DEF InitiateUnstorable, RegisterFailedAttempt, Reissue,
     ExecuteUnstorable, Reload, DeadlockAbort, Crash
<1>10. ASSUME NEW r \in Actors, Step(r) PROVE PlainAmounts'
  BY <1>2, <1>3, <1>4, <1>7, <1>8, <1>9, <1>10 DEF Step
<1>11. CASE Environment
  BY <1>5, <1>11, <1>d DEF Environment, ExpireOtp, SetAccountStatus
<1>12. CASE UNCHANGED vars
  BY <1>12, <1>d DEF vars
<1> QED
  BY <1>6, <1>7, <1>9, <1>10, <1>11, <1>12 DEF Next, Actors

-----------------------------------------------------------------------------
(* The state of the bank, and how steps change it. *)

Settled == {t \in TxnIds : HasEntry(t, "DEBIT") \/ HasEntry(t, "CREDIT")}

\* Row u is to the bank what it was.
SameOrder(u) ==
  /\ txn'[u].sender = txn[u].sender /\ txn'[u].receiver = txn[u].receiver
  /\ txn'[u].amount = txn[u].amount /\ txn'[u].credit = txn[u].credit
  /\ txn'[u].status = "NONE" <=> txn[u].status = "NONE"

\* The order of a row that exists.
OrderOf(row) == [from |-> row.sender, to |-> row.receiver,
                 out |-> row.amount, in |-> row.credit]

\* Orders, a row at a time.
LEMMA OrdersByRow ==
  ASSUME NEW t \in TxnIds
  PROVE  /\ Orders[t] = IF txn[t].status = "NONE" THEN NoTxn ELSE OrderOf(txn[t])
         /\ Orders'[t] = IF txn'[t].status = "NONE" THEN NoTxn
                                                   ELSE OrderOf(txn'[t])
BY DEF Orders, OrderOf

\* A step that writes the same to a row as the bank sees it keeps its order.
LEMMA SameOrderSame ==
  ASSUME NEW u \in TxnIds, SameOrder(u)
  PROVE  Orders'[u] = Orders[u]
BY OrdersByRow DEF SameOrder, OrderOf

\* A step that moves no money, accepts no order and undoes none is no step of
\* the bank.
LEMMA BankUnchanged ==
  ASSUME UNCHANGED ledger, \A a \in Accounts : acct'[a].balance = acct[a].balance,
         \A t \in TxnIds : SameOrder(t) /\ txn'[t].reversalOf = txn[t].reversalOf
  PROVE  UNCHANGED TheBank!bankVars
<1>1. [a \in Accounts |-> acct'[a].balance] = [a \in Accounts |-> acct[a].balance]
  OBVIOUS
<1>2. Orders' = Orders
  <2>1. Orders = [t \in TxnIds |-> Orders[t]] /\ Orders' = [t \in TxnIds |-> Orders'[t]]
    BY DEF Orders
  <2> QED
    BY <2>1, SameOrderSame
<1>3. Settled' = Settled
  BY DEF Settled, HasEntry
<1>4. [t \in TxnIds |-> Reversals(t)]' = [t \in TxnIds |-> Reversals(t)]
  <2>1. \A t \in TxnIds : Reversals(t)' = Reversals(t)
    BY DEF Reversals
  <2> QED
    BY <2>1
<1> QED
  BY <1>1, <1>2, <1>3, <1>4 DEF TheBank!bankVars, Settled

\* The empty tables are the empty bank.
LEMMA BankStarts == Init => TheBank!BankInit
<1> SUFFICES ASSUME Init PROVE TheBank!BankInit
  OBVIOUS
<1>t. \A t \in TxnIds : txn[t] = NoTransaction
  BY DEF Init
<1>s. \A t \in TxnIds : txn[t].status = "NONE" /\ txn[t].reversalOf = NoTxn
  BY <1>t DEF NoTransaction
<1>1. [a \in Accounts |-> acct[a].balance] = Opening
  BY MoneyAssumption DEF Init
<1>2. Orders = [t \in TxnIds |-> NoTxn]
  BY <1>s DEF Orders
<1>3. Settled = {}
  <2>1. XInv
    BY XInvInit
  <2> QED
    BY <1>s, <2>1, BlankRowsAreUnused DEF Settled, XInv, LInv, TInv, Kinds
<1>4. [t \in TxnIds |-> Reversals(t)] = [t \in TxnIds |-> {}]
  BY <1>s, NamesAssumption DEF Reversals
<1> QED
  BY <1>1, <1>2, <1>3, <1>4 DEF TheBank!BankInit, Settled

\* Posting the movement of an order that is unsettled carries it out.
LEMMA PostSettles ==
  ASSUME TypeOK, TypeOK', RowsInv, NEW m \in MovementType, m.from # m.to,
         Permitted(m), Post(m), m.id \notin Settled,
         \A a \in {m.from, m.to} \ {NoAccount} : m.seen[a] = acct[a],
         txn'[m.id].status # "NONE",
         OrderOf(txn'[m.id]) = [from |-> m.from, to |-> m.to,
                                out |-> m.debit, in |-> m.credit],
         txn[m.id].status # "NONE" => SameOrder(m.id),
         \A u \in TxnIds \ {m.id} : SameOrder(u)
  PROVE  TheBank!Settle(m.id)
<1>i. m.id \in TxnIds
  BY DEF MovementType
<1>o. /\ Orders'[m.id].from = m.from /\ Orders'[m.id].to = m.to
      /\ Orders'[m.id].out = m.debit /\ Orders'[m.id].in = m.credit
      /\ Orders'[m.id] \in TheBank!Order
  <2>1. Orders'[m.id] = [from |-> m.from, to |-> m.to,
                         out |-> m.debit, in |-> m.credit]
    BY <1>i, OrdersByRow
  <2> QED
    BY <2>1 DEF TheBank!Order, TheBank!Side, MovementType
<1>1. TheBank!Accepted(m.id)
  <2>1. ASSUME NEW u \in TxnIds, u # m.id \/ Orders[m.id] # NoTxn
        PROVE  Orders'[u] = Orders[u]
    <3>1. SameOrder(u)
      BY <1>i, <2>1, OrdersByRow
    <3> QED
      BY <3>1, SameOrderSame
  <2> QED
    BY <1>o, <2>1 DEF TheBank!Accepted
<1>2. Settled' = Settled \cup {m.id}
  <2>1. ASSUME NEW t \in TxnIds
        PROVE  HasEntry(t, "DEBIT")' \/ HasEntry(t, "CREDIT")'
                 <=> HasEntry(t, "DEBIT") \/ HasEntry(t, "CREDIT") \/ t = m.id
    BY EntriesAfterPost DEF Kinds, SideOfMove
  <2> QED
    BY <1>i, <2>1 DEF Settled
<1>3. m.from # NoAccount => acct[m.from].balance >= m.debit
  BY DEF Permitted
<1>4. ASSUME NEW a \in Accounts
      PROVE  acct'[a].balance = acct[a].balance
                                  - (IF a = m.from THEN m.debit ELSE 0)
                                  + (IF a = m.to THEN m.credit ELSE 0)
  <2>1. acct[a] \in Account /\ acct[a].balance \in Int
    BY DEF TypeOK, Account
  <2>2. m.debit \in Int /\ m.credit \in Int
    BY DEF MovementType
  <2>3. CASE a \in {m.from, m.to}
    <3>1. acct'[a].balance = BalanceAfter(m, a)
      BY <2>1, <2>3 DEF Post, Account
    <3>2. m.seen[a] = acct[a]
      BY <2>3, NoAccountIsNoAccount
    <3> QED
      BY <2>1, <2>2, <2>3, <3>1, <3>2 DEF BalanceAfter
  <2>4. CASE a \notin {m.from, m.to}
    <3>1. acct'[a] = acct[a]
      BY <2>4 DEF Post
    <3> QED
      BY <2>1, <2>4, <3>1
  <2> QED
    BY <2>3, <2>4
<1>5. m.from # NoAccount => m.from \in Accounts
  BY DEF MovementType
<1> QED
  BY <1>1, <1>2, <1>3, <1>4, <1>5, <1>i, <1>o DEF TheBank!Settle, Settled

-----------------------------------------------------------------------------
(* Every step of Transfers is a step of the bank or changes nothing there. *)

\* The INSERT of a transfer accepts an order.
LEMMA BankAccepts ==
  ASSUME TypeOK, TypeOK', RowsInv, RowsInv', NEW r \in Actors, InitiateCommit(r)
  PROVE  TheBank!BankNext
<1>0. PICK t \in TxnIds :
        \E row :
          /\ row.status = "PENDING" /\ row.reversalOf = NoTxn
          /\ txn[t].status = "NONE" /\ txn' = [txn EXCEPT ![t] = row]
  BY DEF InitiateCommit
<1>1. PICK row :
        /\ t \in TxnIds
        /\ row.status = "PENDING" /\ row.reversalOf = NoTxn
        /\ txn[t].status = "NONE" /\ txn' = [txn EXCEPT ![t] = row]
  BY <1>0
<1>2. UNCHANGED <<acct, ledger>>
  BY DEF InitiateCommit
<1>3. /\ txn'[t].status = "PENDING" /\ txn'[t].reversalOf = NoTxn
      /\ \A u \in TxnIds \ {t} : txn'[u] = txn[u]
  BY <1>1 DEF TypeOK
<1>4. Orders[t] = NoTxn /\ Orders'[t] \in TheBank!Order
  <2>1. Orders[t] = NoTxn /\ Orders'[t] = OrderOf(txn'[t])
    BY <1>1, <1>3, OrdersByRow
  <2>2. txn'[t] \in Transaction
    BY DEF TypeOK
  <2> QED
    BY <2>1, <2>2 DEF OrderOf, Transaction, TheBank!Order, TheBank!Side
<1>5. \A u \in TxnIds \ {t} : Orders'[u] = Orders[u]
  BY <1>3, SameOrderSame DEF SameOrder
<1>6. TheBank!Accepted(t)
  BY <1>4, <1>5 DEF TheBank!Accepted
<1>7. Settled' = Settled
  BY <1>2 DEF Settled, HasEntry
<1>8. [u \in TxnIds |-> Reversals(u)]' = [u \in TxnIds |-> Reversals(u)]
  <2>1. txn[t].reversalOf = NoTxn
    BY <1>1, BlankRowsAreUnused
  <2>2. \A u \in TxnIds : txn'[u].reversalOf = txn[u].reversalOf
    BY <1>3, <2>1
  <2>3. \A u \in TxnIds : Reversals(u)' = Reversals(u)
    BY <2>2 DEF Reversals
  <2> QED
    BY <2>3
<1>9. TheBank!Accept(t)
  BY <1>2, <1>4, <1>6, <1>7, <1>8 DEF TheBank!Accept, Settled
<1> QED
  BY <1>9 DEF TheBank!BankNext

\* The transfer of a verified order carries it out.
LEMMA BankPaysTransfer ==
  ASSUME XInv, TypeOK', NEW r \in Actors, ConfirmExecute(r)
  PROVE  TheBank!BankNext
<1>t. TypeOK /\ TInv /\ RowsInv /\ LockedRowsAreOpen
  BY DEF XInv, LInv, TInv, SessionsInv
<1>0. /\ req[r].op = "confirm" /\ req[r].pc = "execute"
      /\ req[r].txn \in TxnIds
  BY <1>t DEF ConfirmExecute, At, TInv, WorkingRows, Working
<1>1. PICK t \in TxnIds : t = req[r].txn
  BY <1>0
<1>2. PICK m \in MovementType : m = Movement(r, t)
  BY <1>0, <1>t, MovementOfSession
<1>3. /\ Permitted(m) /\ Post(m) /\ txn[t].status = "PENDING"
      /\ txn' = [txn EXCEPT ![t].status = "SUCCESS", ![t].otpVerified = TRUE]
  BY <1>0, <1>1, <1>2, <1>t
     DEF ConfirmExecute, LockedRowsAreOpen, Locking, StillOpen
<1>4. /\ m.id = t /\ m.from = txn[t].sender /\ m.to = txn[t].receiver
      /\ m.debit = txn[t].amount /\ m.credit = txn[t].credit
      /\ m.seen = req[r].view
      /\ {m.from, m.to} \ {NoAccount} = AccountsOf(req[r].txn)
  BY <1>0, <1>1, <1>2, MovementSides DEF Movement
<1>5. m.from # m.to
  BY <1>3, <1>4, <1>t DEF RowsInv, TwoSides
<1>6. /\ txn'[t].sender = txn[t].sender /\ txn'[t].receiver = txn[t].receiver
      /\ txn'[t].amount = txn[t].amount /\ txn'[t].credit = txn[t].credit
      /\ txn'[t].status = "SUCCESS" /\ txn'[t].reversalOf = txn[t].reversalOf
      /\ \A u \in TxnIds \ {t} : txn'[u] = txn[u]
  <2>1. txn[t] \in Transaction /\ txn \in [TxnIds -> Transaction]
    BY <1>t DEF TypeOK
  <2> QED
    BY <1>3, <2>1 DEF Transaction
<1>7. \A u \in TxnIds : SameOrder(u)
  BY <1>3, <1>6 DEF SameOrder
<1>8. t \notin Settled
  BY <1>3, <1>t, EntriesHaveOrders DEF RowsInv, Settled, Kinds
<1>9. \A a \in {m.from, m.to} \ {NoAccount} : m.seen[a] = acct[a]
  BY <1>0, <1>4 DEF XInv, LInv, ExecutorsHoldRows, ViewsAreCurrent, MovementType
<1>10. OrderOf(txn'[t]) = [from |-> m.from, to |-> m.to,
                           out |-> m.debit, in |-> m.credit]
  BY <1>4, <1>6 DEF OrderOf
<1>11. TheBank!Settle(t)
  BY <1>3, <1>4, <1>5, <1>6, <1>7, <1>8, <1>9, <1>10, <1>t, PostSettles
<1>12. [u \in TxnIds |-> Reversals(u)]' = [u \in TxnIds |-> Reversals(u)]
  <2>1. \A u \in TxnIds : Reversals(u)' = Reversals(u)
    BY <1>6 DEF Reversals
  <2> QED
    BY <2>1
<1> QED
  BY <1>11, <1>12 DEF TheBank!BankNext, TheBank!Pay

\* The teller accepts and carries out an order at once.
LEMMA BankPaysTeller ==
  ASSUME XInv, TypeOK', NEW a \in Accounts, NEW amount \in Amounts,
         Deposit(a, amount) \/ Withdraw(a, amount)
  PROVE  TheBank!BankNext
<1>t. TypeOK /\ TInv /\ RowsInv
  BY DEF XInv, LInv, TInv
<1>1. PICK t \in TxnIds :
        \/ SingleSided("DEPOSIT", [id |-> t, from |-> NoAccount, to |-> a,
               debit |-> amount, credit |-> amount, seen |-> acct])
        \/ SingleSided("WITHDRAWAL", [id |-> t, from |-> a, to |-> NoAccount,
               debit |-> amount, credit |-> amount, seen |-> acct])
  BY DEF Deposit, Withdraw
<1>2. ASSUME NEW from \in Accounts \cup {NoAccount},
             NEW to \in Accounts \cup {NoAccount}
      PROVE  [id |-> t, from |-> from, to |-> to, debit |-> amount,
              credit |-> amount, seen |-> acct] \in MovementType
  BY <1>t, MoneyAssumption DEF MovementType, TypeOK
<1>3. PICK m \in MovementType, type \in {"DEPOSIT", "WITHDRAWAL"} :
        m.id = t /\ m.from # m.to /\ m.seen = acct /\ SingleSided(type, m)
  BY <1>1, <1>2, NoAccountIsNoAccount
<1>4. PICK row :
        /\ row.sender = m.from /\ row.receiver = m.to /\ row.amount = m.debit
        /\ row.credit = m.credit /\ row.status = "SUCCESS"
        /\ row.reversalOf = NoTxn /\ txn' = [txn EXCEPT ![t] = row]
  BY <1>3 DEF SingleSided
<1>5. txn[t].status = "NONE" /\ Permitted(m) /\ Post(m)
  BY <1>3 DEF SingleSided
<1>6. txn'[t] = row /\ \A u \in TxnIds \ {t} : txn'[u] = txn[u]
  BY <1>4, <1>t DEF TypeOK
<1>7. \A u \in TxnIds \ {t} : SameOrder(u)
  BY <1>6 DEF SameOrder
<1>8. t \notin Settled /\ txn[t].reversalOf = NoTxn
  BY <1>5, <1>t, BlankRowsAreUnused DEF Settled, Kinds
<1>9. OrderOf(txn'[t]) = [from |-> m.from, to |-> m.to,
                          out |-> m.debit, in |-> m.credit]
  BY <1>4, <1>6 DEF OrderOf
<1>10. TheBank!Settle(t)
  BY <1>3, <1>4, <1>5, <1>6, <1>7, <1>8, <1>9, <1>t, PostSettles
<1>11. [u \in TxnIds |-> Reversals(u)]' = [u \in TxnIds |-> Reversals(u)]
  <2>1. \A u \in TxnIds : txn'[u].reversalOf = txn[u].reversalOf
    BY <1>4, <1>6, <1>8
  <2>2. \A u \in TxnIds : Reversals(u)' = Reversals(u)
    BY <2>1 DEF Reversals
  <2> QED
    BY <2>2
<1> QED
  BY <1>10, <1>11 DEF TheBank!BankNext, TheBank!Pay

\* No transaction whose two amounts differ is reversed in this step.
PlainReversal ==
  \A r \in Actors : ReverseExecute(r) =>
    txn[req[r].txn].amount = txn[req[r].txn].credit

\* A reversal moves the money of a settled order back, the first time only.
LEMMA BankUndoes ==
  ASSUME XInv, TypeOK', PlainReversal, NEW r \in Actors, ReverseExecute(r)
  PROVE  TheBank!BankNext
<1>t. TypeOK /\ TInv /\ RowsInv /\ LockedRowsAreOpen
  BY DEF XInv, LInv, TInv, SessionsInv
<1>0. req[r].pc = "execute"
  BY DEF ReverseExecute, At
<1>1. PICK t \in TxnIds, u \in TxnIds, m \in MovementType, row \in Transaction :
        ReversalWrites(r, t, u, m, row)
  BY <1>t, ReversalRows
<1>2. /\ txn[t].status = "SUCCESS" /\ Reversals(t) = {} /\ txn[u].status = "NONE"
      /\ u # t /\ m.id = u /\ m.from # m.to /\ Permitted(m) /\ Post(m)
      /\ m.seen = req[r].view /\ {m.from, m.to} \ {NoAccount} = AccountsOf(t)
      /\ t = req[r].txn
  BY <1>1 DEF ReversalWrites
<1>3. /\ m.from = txn[t].receiver /\ m.to = txn[t].sender
      /\ m.debit = txn[t].credit /\ m.credit = txn[t].amount
  BY <1>1 DEF ReversalWrites, PlainReversal
<1>4. /\ row.status = "SUCCESS" /\ row.sender = m.from /\ row.receiver = m.to
      /\ row.amount = m.debit /\ row.credit = m.credit /\ row.reversalOf = t
      /\ txn'[u] = row
  BY <1>1 DEF ReversalWrites
<1>5. /\ txn'[t] = [txn[t] EXCEPT !.status = "REVERSED"]
      /\ \A v \in TxnIds \ {t, u} : txn'[v] = txn[v]
  BY <1>1 DEF ReversalWrites
<1>6. /\ txn'[t].sender = txn[t].sender /\ txn'[t].receiver = txn[t].receiver
      /\ txn'[t].amount = txn[t].amount /\ txn'[t].credit = txn[t].credit
      /\ txn'[t].status = "REVERSED" /\ txn'[t].reversalOf = txn[t].reversalOf
  <2>1. txn[t] \in Transaction
    BY <1>t DEF TypeOK
  <2> QED
    BY <1>5, <2>1 DEF Transaction
<1>7. ASSUME NEW v \in TxnIds \ {u} PROVE SameOrder(v)
  <2>1. CASE v = t
    BY <1>2, <1>6, <2>1 DEF SameOrder
  <2>2. CASE v # t
    <3>1. txn'[v] = txn[v]
      BY <1>5, <2>2
    <3> QED
      BY <3>1 DEF SameOrder
  <2> QED
    BY <2>1, <2>2
<1>8. u \notin Settled /\ txn[u].reversalOf = NoTxn
  BY <1>2, <1>t, BlankRowsAreUnused DEF Settled, Kinds
<1>9. t \in Settled
  BY <1>2, <1>t, WholeHasEntry DEF Settled
<1>10. \A a \in {m.from, m.to} \ {NoAccount} : m.seen[a] = acct[a]
  BY <1>0, <1>2 DEF XInv, LInv, ExecutorsHoldRows, ViewsAreCurrent, MovementType
<1>11. OrderOf(txn'[u]) = [from |-> m.from, to |-> m.to,
                           out |-> m.debit, in |-> m.credit]
  BY <1>4 DEF OrderOf
<1>12. TheBank!Settle(u)
  BY <1>2, <1>4, <1>7, <1>8, <1>10, <1>11, <1>t, PostSettles
<1>13. Orders'[u] = [from |-> Orders[t].to, to |-> Orders[t].from,
                     out |-> Orders[t].in, in |-> Orders[t].out]
  <2>1. Orders'[u] = [from |-> m.from, to |-> m.to,
                      out |-> m.debit, in |-> m.credit]
    BY <1>4, <1>11, OrdersByRow
  <2>2. /\ Orders[t].from = m.to /\ Orders[t].to = m.from
        /\ Orders[t].out = m.credit /\ Orders[t].in = m.debit
    <3>1. Orders[t] = OrderOf(txn[t])
      <4>1. txn[t].status # "NONE"
        BY <1>2
      <4> QED
        BY <4>1, OrdersByRow
    <3> QED
      BY <1>3, <3>1 DEF OrderOf
  <2> QED
    BY <2>1, <2>2
<1>14. [v \in TxnIds |-> Reversals(v)]'
         = [[v \in TxnIds |-> Reversals(v)] EXCEPT ![t] = {u}]
  <2>1. ASSUME NEW x \in TxnIds
        PROVE  txn'[x].reversalOf = IF x = u THEN t ELSE txn[x].reversalOf
    BY <1>4, <1>5, <1>6
  <2>2. \A x \in TxnIds : txn[x].reversalOf # t
    BY <1>2 DEF Reversals
  <2>3. ASSUME NEW v \in TxnIds
        PROVE  Reversals(v)' = IF v = t THEN {u} ELSE Reversals(v)
    BY <1>8, <2>1, <2>2, NamesAssumption DEF Reversals
  <2> QED
    BY <2>3
<1>15. [v \in TxnIds |-> Reversals(v)][t] = {}
  BY <1>2
<1> QED
  BY <1>9, <1>12, <1>13, <1>14, <1>15 DEF TheBank!BankNext, TheBank!Undo, Settled

\* Whatever other step a session takes, the bank takes one step or none.
LEMMA BankSteps ==
  ASSUME XInv, XInv', PlainReversal, [Next]_vars
  PROVE  [TheBank!BankNext]_(TheBank!bankVars)
<1>t. /\ TypeOK /\ TypeOK' /\ TInv /\ RowsInv /\ RowsInv' /\ RowsToFailExist
      /\ txn \in [TxnIds -> Transaction]
  BY DEF XInv, LInv, TInv, SessionsInv, TypeOK
<1>q. UNCHANGED <<acct, txn, ledger>> => UNCHANGED TheBank!bankVars
  BY BankUnchanged DEF SameOrder
<1>1. ASSUME NEW r \in Actors, ExhaustChallenge(r) \/ MarkFailed(r)
      PROVE  UNCHANGED TheBank!bankVars
  <2>1. ASSUME NEW t \in TxnIds
        PROVE  \/ txn'[t] = txn[t]
               \/ txn'[t] = [txn[t] EXCEPT !.status = "FAILED"]
                    /\ txn[t].status # "NONE"
    <3>1. ASSUME ExhaustChallenge(r) PROVE req[r].txn \in TxnIds
            /\ txn[req[r].txn].status # "NONE"
      BY <1>t, <3>1 DEF ExhaustChallenge, At, TInv, WorkingRows, Working
    <3>2. CASE ExhaustChallenge(r)
      BY <1>t, <3>1, <3>2 DEF ExhaustChallenge
    <3>3. CASE MarkFailed(r)
      BY <1>t, <3>3 DEF MarkFailed, RowsToFailExist
    <3> QED
      BY <1>1, <3>2, <3>3
  <2>2. ASSUME NEW t \in TxnIds
        PROVE  SameOrder(t) /\ txn'[t].reversalOf = txn[t].reversalOf
    <3>1. txn[t] \in Transaction
      BY <1>t
    <3> QED
      BY <2>1, <3>1 DEF SameOrder, Transaction
  <2>3. UNCHANGED <<acct, ledger>>
    BY <1>1 DEF ExhaustChallenge, MarkFailed
  <2> QED
    BY <2>2, <2>3, BankUnchanged
<1>2. ASSUME NEW a \in Accounts, NEW s \in NewStatuses, SetAccountStatus(a, s)
      PROVE  UNCHANGED TheBank!bankVars
  <2>1. UNCHANGED <<txn, ledger>>
    BY <1>2 DEF SetAccountStatus
  <2>2. ASSUME NEW b \in Accounts PROVE acct'[b].balance = acct[b].balance
    <3>1. acct[b] \in Account /\ acct \in [Accounts -> Account]
      BY <1>t DEF TypeOK
    <3> QED
      BY <1>2, <3>1 DEF SetAccountStatus, Account
  <2> QED
    BY <2>1, <2>2, BankUnchanged DEF SameOrder
<1>3. ASSUME NEW r \in Actors, Step(r)
      PROVE  TheBank!BankNext \/ UNCHANGED TheBank!bankVars
  <2>1. CASE InitiateCommit(r) \/ ConfirmExecute(r) \/ ReverseExecute(r)
    BY <1>t, <2>1, BankAccepts, BankPaysTransfer, BankUndoes
  <2>2. CASE ExhaustChallenge(r) \/ MarkFailed(r)
    BY <1>1, <2>2
  <2>3. CASE ~(\/ InitiateCommit(r) \/ ConfirmExecute(r) \/ ReverseExecute(r)
               \/ ExhaustChallenge(r) \/ MarkFailed(r))
    <3>1. UNCHANGED <<acct, txn, ledger>>
      BY <1>3, <2>3 DEF Step, InitiateInsert, InitiateUnstorable,
         ConfirmUnusableOtp, ConfirmWrongCode, ConfirmRightCode,
         RegisterFailedAttempt, LockTxn, LockTxnRefused, LockAccount,
         ExecuteRefused, ExecuteUnstorable, Reload, ResendReadOtp, Reissue
    <3> QED
      BY <1>q, <3>1
  <2> QED
    BY <2>1, <2>2, <2>3
<1>4. ASSUME NEW r \in Actors,
             Start(r) \/ SweepSelect(r) \/ DeadlockAbort(r) \/ Crash(r)
      PROVE  UNCHANGED TheBank!bankVars
  BY <1>4, <1>q DEF Start, InitiateValidate, ConfirmBegin, ResendBegin,
     ReverseBegin, SweepSelect, DeadlockAbort, Crash
<1>5. CASE Environment
  BY <1>2, <1>5, <1>q, <1>t, BankPaysTeller DEF Environment, ExpireOtp
<1>6. CASE UNCHANGED vars
  BY <1>6, <1>q DEF vars
<1> QED
  BY <1>3, <1>4, <1>5, <1>6 DEF Next, Actors

-----------------------------------------------------------------------------
\* Whatever sessions race, fail or die, the transactions module is the bank of
\* module Bank: every order moves its money in one step, at most once and from
\* current balances, and a reversal moves the same money back.  The one thing
\* that breaks it is the reversal of a converted transfer.
THEOREM BankButForConvertedReversals ==
  Spec /\ [][PlainReversal]_vars => ImplementsBank
<1>1. XInv /\ XInv' /\ [PlainReversal]_vars /\ [Next]_vars
        => [TheBank!BankNext]_(TheBank!bankVars)
  <2> SUFFICES ASSUME XInv, XInv', [PlainReversal]_vars, [Next]_vars
               PROVE  [TheBank!BankNext]_(TheBank!bankVars)
    OBVIOUS
  <2>1. CASE PlainReversal
    BY <2>1, BankSteps
  <2>2. CASE UNCHANGED vars
    <3>1. UNCHANGED <<acct, txn, ledger>>
      BY <2>2 DEF vars
    <3> QED
      BY <3>1, BankUnchanged DEF SameOrder
  <2> QED
    BY <2>1, <2>2
<1> QED
  BY <1>1, BankStarts, ExecutionDiscipline, PTL
     DEF Spec, ImplementsBank, TheBank!BankSpec

\* Where all accounts have one currency nothing is converted, so nothing breaks
\* it.
THEOREM BankRefinement ==
  ASSUME OneCurrencyOnly
  PROVE  Spec => ImplementsBank
<1>1. Init => PlainAmounts
  BY DEF Init, PlainAmounts, NoTransaction, IdleSession, NoDraft
<1>2. XInv /\ PlainAmounts /\ [Next]_vars => PlainAmounts'
  BY PlainAmountsNext
<1>3. XInv /\ PlainAmounts => PlainReversal
  <2> SUFFICES ASSUME XInv, PlainAmounts, NEW r \in Actors, ReverseExecute(r)
               PROVE  txn[req[r].txn].amount = txn[req[r].txn].credit
    BY DEF PlainReversal
  <2>1. req[r].txn \in TxnIds
    BY DEF XInv, LInv, TInv, WorkingRows, Working, ReverseExecute, At
  <2> QED
    BY <2>1 DEF PlainAmounts
<1> QED
  BY <1>1, <1>2, <1>3, ExecutionDiscipline, BankButForConvertedReversals, PTL
     DEF Spec

=============================================================================
