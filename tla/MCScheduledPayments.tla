------------------------ MODULE MCScheduledPayments ------------------------
(* Instances of ScheduledPayments for TLC: payments from account 1 to 2. *)
EXTENDS ScheduledPayments

FromFirst == [s \in Schedules |-> 1]
ToSecond == [s \in Schedules |-> 2]
OneCustomer == [s \in Schedules |-> CHOOSE c \in Customers : TRUE]
Ones == [s \in Schedules |-> 1]
TwoOnFirst == [a \in Accounts |-> IF a = 1 THEN 2 ELSE 0]
=============================================================================
