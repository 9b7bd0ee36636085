------------------------------ MODULE MCCards ------------------------------
(* Cards for TLC: one customer with one account, opened with 1. *)
EXTENDS Cards

MCOwner == [a \in AccountIds |-> CHOOSE u \in Customers : TRUE]
MCOpening == [a \in AccountIds |-> 1]

=============================================================================
