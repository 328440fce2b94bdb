----------------------------- MODULE MCStreaming -----------------------------
(* Small pools and request mixes for TLC. *)
EXTENDS StreamingSession, TLC

CONSTANTS c1, c2

OneContainer  == <<c1>>
TwoContainers == <<c1, c2>>

\* Everything that ends, ages or stamps a session, contention included.
StoreMix == {"release", "exit", "early", "contention", "heartbeat", "forgotten", "swap"}

\* Every way a session ends or goes stale, and players who beat or leave.
Settling == Events \ {"contention"}

SameTasks       == Permutations(Tasks)
Interchangeable == SameTasks \cup Permutations(Claims)
=============================================================================
