------------------------------- MODULE MCCards -------------------------------
(* The sessions with the memory cards behind them, for TLC. *)
EXTENDS StreamingCards, TLC

CONSTANTS c1, c2, returner

OneContainer  == <<c1>>
TwoContainers == <<c1, c2>>

\* Every claim by a player of its own, or all by one player, whose sessions overlap.
Strangers == [k \in Claims |-> k]
Returning == [k \in Claims |-> returner]

\* How sessions end.
Releases == {"release"}
Both     == {"release", "exit"}

\* Claims, and teardowns, differ in nothing but their name.
SameClaims      == Permutations(Claims)
Interchangeable == SameClaims \cup Permutations(Tasks)

\* What fails.
Nothing    == {}
AnyButStop == CardFaults \ {"stop"}
=============================================================================
