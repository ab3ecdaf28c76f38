------------------------- MODULE MCMultiLevelCache -------------------------
(* Small instances of MultiLevelCache for TLC. *)
EXTENDS MultiLevelCache, TLC

\* Values are interchangeable, and so are writers.
Symmetry == Permutations(Values) \cup Permutations(Writers)
=============================================================================
