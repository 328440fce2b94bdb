------------------------------ MODULE MCScans ------------------------------
(* A library of two platforms. *)
EXTENDS LibraryScans

CONSTANTS gba, snes
=============================================================================
