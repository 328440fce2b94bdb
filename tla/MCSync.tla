------------------------------- MODULE MCSync -------------------------------
(* The devices of one user. *)
EXTENDS SaveSync

CONSTANTS d1, d2

Overlapping == {"overlap", "lost"}
=============================================================================
