------------------------------ MODULE MCUpload ------------------------------
(* Two uploads of one name, of two chunks and of one. *)
EXTENDS ChunkedUpload, TLC

CONSTANTS r1, r2, u1, u2, p

TwoCompletions == (u1 :> {r1, r2}) @@ (u2 :> {r1})
TwoAndOne == (u1 :> 2) @@ (u2 :> 1)
SamePath  == [u \in Uploads |-> p]
=============================================================================
