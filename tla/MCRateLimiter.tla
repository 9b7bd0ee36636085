--------------------------- MODULE MCRateLimiter ---------------------------
(* RateLimiter for TLC: one path, whose rule and the general one differ. *)
EXTENDS RateLimiter, TLC

MCPaths == {<<"auth", "register", "confirm">>}
Symmetry == Permutations(Workers)

=============================================================================
