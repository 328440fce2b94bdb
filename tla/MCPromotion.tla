---------------------------- MODULE MCPromotion ----------------------------
(* The situations a promotion withstands. *)
EXTENDS RomPromotion

CONSTANTS r1, r2, r3

Withstood == {
  [bare |-> FALSE, two |-> TRUE,  fails |-> FALSE, shared |-> TRUE],
  [bare |-> TRUE,  two |-> FALSE, fails |-> FALSE, shared |-> TRUE],
  [bare |-> FALSE, two |-> FALSE, fails |-> TRUE,  shared |-> FALSE],
  [bare |-> TRUE,  two |-> FALSE, fails |-> TRUE,  shared |-> FALSE]}
=============================================================================
