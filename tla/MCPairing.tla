----------------------------- MODULE MCPairing -----------------------------
(* Two users who approve, one who denies, a device that polls twice at once. *)
EXTENDS DevicePairing

CONSTANTS a1, a2, n1, p1, p2
=============================================================================
