--------------------------- MODULE MCConfigCenter ---------------------------
(* Small instances of ConfigCenter for TLC. *)
EXTENDS ConfigCenter
=============================================================================
