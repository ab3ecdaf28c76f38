--------------------------- MODULE MCAppLifecycle ---------------------------
(* Small instances of AppLifecycle for TLC. *)
EXTENDS AppLifecycle, TLC

\* The callers of Run are interchangeable, and those of Shutdown.
Symmetry == Permutations(Runners) \cup Permutations(Stoppers)
=============================================================================
