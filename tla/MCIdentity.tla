---------------------------- MODULE MCIdentity ----------------------------
(* Identity for TLC: requests are interchangeable. *)
EXTENDS Identity, TLC

CONSTANT MaxRows

Symmetry == Permutations(Requests)

\* Bound: tokens, passwords and secrets together, so that each of them, and
\* each pair, but not all of them, is exercised to its own bound; a secret
\* comes with one row less of the others.
FewRows ==
  \A u \in Users :
    Len(token) + account[u].password + drawn[u] <=
      IF drawn[u] = 0 THEN MaxRows ELSE MaxRows - 1

=============================================================================
