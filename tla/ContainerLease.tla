--------------------------- MODULE ContainerLease ---------------------------
(***************************************************************************)
(* What the session store promises about who occupies a container,        *)
(* whatever requests, teardowns, expiries and restarts do to its keys: a   *)
(* container goes from free to claimed to (possibly) draining to free, it  *)
(* is handed over only while free, and a claim that lost a container never *)
(* gets one again.                                                         *)
(***************************************************************************)
CONSTANTS Containers, Claims, None

VARIABLES mode,    \* container -> "free", "claim" or "drain"
          holder,  \* container -> the claim it serves or drains, None when free
          spent    \* the claims that have ever held a container

leaseVars == <<mode, holder, spent>>

LeaseInit ==
  /\ mode = [c \in Containers |-> "free"]
  /\ holder = [c \in Containers |-> None]
  /\ spent = {}

Acquire(c, k) ==
  /\ mode[c] = "free" /\ k \notin spent
  /\ mode' = [mode EXCEPT ![c] = "claim"]
  /\ holder' = [holder EXCEPT ![c] = k]
  /\ spent' = spent \cup {k}

BeginDrain(c) ==
  /\ mode[c] = "claim"
  /\ mode' = [mode EXCEPT ![c] = "drain"]
  /\ UNCHANGED <<holder, spent>>

Vacate(c) ==
  /\ mode[c] # "free"
  /\ mode' = [mode EXCEPT ![c] = "free"]
  /\ holder' = [holder EXCEPT ![c] = None]
  /\ UNCHANGED spent

LeaseNext == \E c \in Containers :
  BeginDrain(c) \/ Vacate(c) \/ \E k \in Claims : Acquire(c, k)

LeaseSpec == LeaseInit /\ [][LeaseNext]_leaseVars
=============================================================================
