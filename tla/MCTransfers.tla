---------------------------- MODULE MCTransfers ----------------------------
(* Instances of Transfers for TLC. *)
EXTENDS Transfers, TLC

CONSTANTS t1, t2, t3, r1, r2, w1

OneCurrency == [a \in Accounts |-> "AZN"]
TwoCurrencies == [a \in Accounts |-> IF a = 1 THEN "AZN" ELSE "USD"]
OpeningBoth == [a \in Accounts |-> 1]
NoRates == {}
RateTwo == {[num |-> 2, den |-> 1]}
\* At these rates 1 becomes 0, or 2, or more than the receiver's column takes.
OddRates ==
  {[num |-> 1, den |-> 4], [num |-> 2, den |-> 1], [num |-> 3, den |-> 1]}

SymmetricIds == Permutations(TxnIds) \cup Permutations(Requests)

\* Bound: two orders, so that one of three transactions is a reversal.
TwoOrders ==
  \E t \in TxnIds : txn[t].status = "NONE" \/ txn[t].reversalOf # NoTxn
=============================================================================
