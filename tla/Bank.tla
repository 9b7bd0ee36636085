-------------------------------- MODULE Bank --------------------------------
(***************************************************************************)
(* What the transactions module promises to customers and auditors, with   *)
(* no sessions, locks or challenges.  An order says what leaves which      *)
(* account and what arrives on which; it is carried out in one step, at    *)
(* most once, exactly as accepted and from the balance of that moment.  It *)
(* is undone at most once, by an order that moves the same money back.     *)
(***************************************************************************)
EXTENDS Integers

CONSTANTS
  Accounts, Ids, Opening,
  Nowhere,   \* the world outside the bank
  NoOrder

VARIABLES
  balance,   \* the money of each account
  order,     \* the accepted orders
  settled,   \* the orders that have been carried out
  undoneBy   \* the orders that undid an order

bankVars == <<balance, order, settled, undoneBy>>

Side == Accounts \cup {Nowhere}
Order == [from : Side, to : Side, out : Nat, in : Nat]

BankInit ==
  /\ balance = Opening
  /\ order = [t \in Ids |-> NoOrder]
  /\ settled = {}
  /\ undoneBy = [t \in Ids |-> {}]

\* Order t is (or becomes) known, every other order stays what it is.
Accepted(t) ==
  /\ order'[t] \in Order
  /\ \A u \in Ids : u # t \/ order[t] # NoOrder => order'[u] = order[u]

Accept(t) ==
  /\ order[t] = NoOrder
  /\ Accepted(t)
  /\ UNCHANGED <<balance, settled, undoneBy>>

\* Carries out order t.
Settle(t) ==
  LET o == order'[t] IN
  /\ t \notin settled
  /\ Accepted(t)
  /\ settled' = settled \cup {t}
  /\ o.from # o.to
  /\ o.from # Nowhere => balance[o.from] >= o.out
  /\ balance' = [a \in Accounts |->
                   balance[a] - (IF a = o.from THEN o.out ELSE 0)
                              + (IF a = o.to THEN o.in ELSE 0)]

Pay(t) == Settle(t) /\ UNCHANGED undoneBy

\* Carries out u, which moves the money of t back.
Undo(t, u) ==
  /\ t \in settled /\ undoneBy[t] = {}
  /\ Settle(u)
  /\ order'[u] = [from |-> order[t].to, to |-> order[t].from,
                  out |-> order[t].in, in |-> order[t].out]
  /\ undoneBy' = [undoneBy EXCEPT ![t] = {u}]

BankNext ==
  \/ \E t \in Ids : Accept(t) \/ Pay(t)
  \/ \E t, u \in Ids : Undo(t, u)

BankSpec == BankInit /\ [][BankNext]_bankVars
=============================================================================
