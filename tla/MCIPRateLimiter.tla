-------------------------- MODULE MCIPRateLimiter --------------------------
(* Small instances of IPRateLimiter for TLC. *)
EXTENDS IPRateLimiter, TLC

\* Buckets and callers are interchangeable: no action or property picks one.
Symmetry == Permutations(Buckets) \cup Permutations(Callers)
=============================================================================
