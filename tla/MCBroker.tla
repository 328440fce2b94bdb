------------------------------ MODULE MCBroker ------------------------------
(* The sessions with the emulator behind them, for TLC. *)
EXTENDS StreamingBroker, TLC

CONSTANT c1

OneContainer  == <<c1>>

\* Sessions end by a release, an exit or a takeover, or expire, once they are
\* up; every marker lands.
Launched == {"release", "exit", "heartbeat", "control", "forgotten"}

SameTasks       == Permutations(Tasks)
Interchangeable == SameTasks \cup Permutations(Claims)
=============================================================================
