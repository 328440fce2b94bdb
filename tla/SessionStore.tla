---------------------------- MODULE SessionStore ----------------------------
(***************************************************************************)
(* What Redis holds for one emulator container: nothing, the session of    *)
(* the claim occupying it, or the drain marker a finishing exit leaves.    *)
(* handler/streaming/session_store.py; the values and the conditions its   *)
(* compare-and-set helpers test, without variables.                        *)
(*                                                                         *)
(* A claim is identified by (user_id, claimed_at), unique per request, so  *)
(* the claim request itself stands for it.  A drain marker's random token  *)
(* is written by the one compare-and-set that replaced a given claim, so   *)
(* the claim it drained stands for the token.                              *)
(***************************************************************************)
CONSTANTS Containers,  \* the configured emulator containers (keys)
          Claims,      \* claim requests, each made once
          None         \* "no claim", "no container"

ASSUME NoneIsNoValue == None \notin Claims /\ None \notin Containers

\* What can be stored at a key.  `fresh`: last_seen is inside the stale window.
\* `ttl`: "full" is the six hours of a session, "short" a drain marker's window.
\* `merged`: the claims whose own data (disc, card, launch stamp) was merged in.
Entry == [st: {"free", "claim", "drain"}, by: Claims \cup {None},
          fresh: BOOLEAN, ttl: {"none", "short", "full"}, merged: SUBSET Claims]

Free == [st |-> "free", by |-> None, fresh |-> FALSE, ttl |-> "none", merged |-> {}]

\* The record claim_session and claim_desktop_session SET NX.
Session(k) ==
  [st |-> "claim", by |-> k, fresh |-> TRUE, ttl |-> "full", merged |-> {}]

\* drain_marker(token), stored with a marker's TTL.
Marker(k) ==
  [st |-> "drain", by |-> k, fresh |-> FALSE, ttl |-> "short", merged |-> {}]

\* Mutant: same_claim forgets that a drain marker is nobody's claim.
SameClaimOrDrain(e, k) == e.by = k

\* same_claim: not draining, same holder, same claimed_at.
SameClaim(e, k) == e.st = "claim" /\ e.by = k

\* The marker still carries the token of the exit that drained k.
HoldsToken(e, k) == e.st = "drain" /\ e.by = k

\* session_is_stale, asked of a session.
Stale(e) == e.st = "claim" /\ ~e.fresh

\* What mutate_session leaves: the changes of claim k merged into whatever is
\* stored, with the full session TTL.
Merged(e, k) == [e EXCEPT !.ttl = "full", !.merged = @ \cup {k}]

\* mutate_session of `last_seen`.
Restamped(e) == [e EXCEPT !.ttl = "full", !.fresh = TRUE]
=============================================================================
