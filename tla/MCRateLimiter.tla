--------------------------- MODULE MCRateLimiter ---------------------------
(* An instance of RateLimiter with one address more than the table holds. *)
EXTENDS RateLimiter, TLC

Addresses == Permutations(Keys)
============================================================================
