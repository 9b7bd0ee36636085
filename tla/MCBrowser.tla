------------------------------ MODULE MCBrowser ------------------------------
(* Browser for TLC: tabs, and requests, are interchangeable. *)
EXTENDS Browser, TLC

CONSTANT MaxRows

Symmetry == Permutations(Tabs) \cup Permutations(Requests)

\* Bound: tokens and passwords together, so that each of them, but not both,
\* is exercised to its own bound.
FewRows == Len(token) + account[User].password <= MaxRows

\* View: without the ghosts of Sessions, which nothing here reads, and the
\* variables that stay as they are.
TokenView == [k \in DOMAIN token |-> token[k].status]
ReqView == [r \in Requests |-> <<req[r].pc, req[r].op, req[r].token, req[r].live>>]
View == <<cookie, status, http, disturbed, changed, TokenView, ReqView, account>>
=============================================================================
