-------------------------- MODULE MCRegistration --------------------------
(* Registration for TLC: clients, user ids and e-mails are interchangeable. *)
EXTENDS Registration, TLC

Symmetry ==
  Permutations(Clients) \cup Permutations(Users) \cup Permutations(Emails)

=============================================================================
