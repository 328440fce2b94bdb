------------------------- MODULE ConcurrencyLimiter -------------------------
(***************************************************************************)
(* The limiter that caps the requests in flight to a metadata provider.    *)
(* Callers take a slot for the length of a request or wait in a deque;     *)
(* the capacity changes while they do, as the provider reports the         *)
(* account's allowance.  A wake-up is not a slot: the woken caller runs    *)
(* later and tests again, and others may have got in first.                *)
(*   utils/rate_limiter.py; used by adapters/services/screenscraper.py     *)
(* A step is what runs on the event loop between two awaits.               *)
(***************************************************************************)
EXTENDS Integers, FiniteSets, Sequences

CONSTANTS
  Callers,      \* coroutines that make requests
  MaxCapacity,  \* bounds the allowances a provider reports
  MaxCalls      \* bounds the requests of one caller

ASSUME CallersAssumption == IsFiniteSet(Callers)
ASSUME BoundsAssumption  == MaxCapacity \in Nat \ {0} /\ MaxCalls \in Nat

VARIABLES
  capacity,  \* _max_concurrency
  inFlight,  \* _in_flight
  waiters,   \* _waiters: the callers whose futures are in the deque
  pc,        \* caller -> where its acquire is; "woken": its future is done
  calls      \* caller -> requests begun so far

vars == <<capacity, inFlight, waiters, pc, calls>>

TypeOK ==
  /\ capacity \in 1..MaxCapacity
  /\ inFlight \in Nat
  /\ waiters \in Seq(Callers)
  /\ pc \in [Callers -> {"idle", "waiting", "woken", "holding"}]
  /\ calls \in [Callers -> 0..MaxCalls]

Init ==
  /\ capacity \in 1..MaxCapacity
  /\ inFlight = 0
  /\ waiters = <<>>
  /\ pc = [p \in Callers |-> "idle"]
  /\ calls = [p \in Callers |-> 0]

In(at, state) == {p \in Callers : at[p] = state}

Position(p) == CHOOSE i \in DOMAIN waiters : waiters[i] = p

\* _waiters.remove.
Others(p) ==
  SubSeq(waiters, 1, Position(p) - 1) \o SubSeq(waiters, Position(p) + 1, Len(waiters))

\* _wake_next, n times over: the futures of the first n callers of the deque
\* that are not done yet get their result.  `at` is where the callers are by then.
Wake(n, at) ==
  \E W \in SUBSET In(at, "waiting") :
    /\ \A j \in DOMAIN waiters : waiters[j] \in W =>
         \A i \in 1..j : at[waiters[i]] = "waiting" => waiters[i] \in W
    /\ IF Cardinality(In(at, "waiting")) <= n THEN W = In(at, "waiting")
                                              ELSE Cardinality(W) = n
    /\ pc' = [q \in Callers |-> IF q \in W THEN "woken" ELSE at[q]]

-----------------------------------------------------------------------------
Begin(p) ==
  /\ pc[p] = "idle" /\ calls[p] < MaxCalls
  /\ calls' = [calls EXCEPT ![p] = @ + 1]

\* acquire, with room: whoever gets here first, waiters or not.
Acquire(p) ==
  /\ Begin(p)
  /\ inFlight < capacity
  /\ inFlight' = inFlight + 1
  /\ pc' = [pc EXCEPT ![p] = "holding"]
  /\ UNCHANGED <<capacity, waiters>>

\* acquire, without.
Enqueue(p) ==
  /\ Begin(p)
  /\ inFlight >= capacity
  /\ pc' = [pc EXCEPT ![p] = "waiting"]
  /\ waiters' = Append(waiters, p)
  /\ UNCHANGED <<capacity, inFlight>>

\* Mutant: a wake-up is taken for the slot itself and not counted again.
AcquireWokenUncounted(p) ==
  /\ pc[p] = "woken"
  /\ inFlight < capacity
  /\ pc' = [pc EXCEPT ![p] = "holding"]
  /\ waiters' = Others(p)
  /\ UNCHANGED <<capacity, inFlight, calls>>

\* A woken caller runs and finds room.
AcquireWoken(p) ==
  /\ pc[p] = "woken"
  /\ inFlight < capacity
  /\ inFlight' = inFlight + 1
  /\ pc' = [pc EXCEPT ![p] = "holding"]
  /\ waiters' = Others(p)
  /\ UNCHANGED <<capacity, calls>>

\* It finds none: somebody took the slot, or there is one less by now.
Requeue(p) ==
  /\ pc[p] = "woken"
  /\ inFlight >= capacity
  /\ pc' = [pc EXCEPT ![p] = "waiting"]
  /\ waiters' = Append(Others(p), p)
  /\ UNCHANGED <<capacity, inFlight, calls>>

\* Cancelled while its future was pending.
CancelWaiting(p) ==
  /\ pc[p] = "waiting"
  /\ pc' = [pc EXCEPT ![p] = "idle"]
  /\ waiters' = Others(p)
  /\ UNCHANGED <<capacity, inFlight, calls>>

\* Mutant: the grant of a cancelled caller is lost.
CancelWokenSilently(p) ==
  /\ pc[p] = "woken"
  /\ pc' = [pc EXCEPT ![p] = "idle"]
  /\ waiters' = Others(p)
  /\ UNCHANGED <<capacity, inFlight, calls>>

\* Mutant: a cancelled grant is released like a slot.
CancelWokenReleasing(p) ==
  /\ pc[p] = "woken"
  /\ inFlight' = inFlight - 1
  /\ Wake(1, [pc EXCEPT ![p] = "idle"])
  /\ waiters' = Others(p)
  /\ UNCHANGED <<capacity, calls>>

\* Cancelled after it was woken: the grant is passed on.
CancelWoken(p) ==
  /\ pc[p] = "woken"
  /\ Wake(1, [pc EXCEPT ![p] = "idle"])
  /\ waiters' = Others(p)
  /\ UNCHANGED <<capacity, inFlight, calls>>

\* release, whatever became of the request.
Release(p) ==
  /\ pc[p] = "holding"
  /\ inFlight' = IF inFlight > 0 THEN inFlight - 1 ELSE inFlight
  /\ Wake(1, [pc EXCEPT ![p] = "idle"])
  /\ UNCHANGED <<capacity, waiters, calls>>

\* set_max_concurrency: one wake-up for every slot that opened.
SetCapacity(n) ==
  /\ capacity' = n
  /\ Wake(IF n > capacity THEN n - capacity ELSE 0, pc)
  /\ UNCHANGED <<inFlight, waiters, calls>>

-----------------------------------------------------------------------------
Resume(p) == AcquireWoken(p) \/ Requeue(p)

Next ==
  \/ \E p \in Callers : Acquire(p) \/ Enqueue(p) \/ Resume(p)
                        \/ CancelWaiting(p) \/ CancelWoken(p) \/ Release(p)
  \/ \E n \in 1..MaxCapacity : SetCapacity(n)

Spec == Init /\ [][Next]_vars

\* The loop runs every coroutine that is ready, and every request ends: each
\* carries a timeout.
FairSpec == Spec /\ \A p \in Callers : WF_vars(Resume(p)) /\ WF_vars(Release(p))

-----------------------------------------------------------------------------
\* Every slot taken is accounted to one caller that holds it, so the guard of
\* release never hides a slot given back twice.  (acquire, release)
SlotsAccounted == inFlight = Cardinality(In(pc, "holding"))

\* Nobody waits while there is room: every free slot has a woken caller on its
\* way to it, whoever was cancelled, got in first or changed the capacity.
\* (the grant passed on in acquire, one wake-up per newly opened slot)
NoneStranded ==
  \/ In(pc, "waiting") = {}
  \/ inFlight + Cardinality(In(pc, "woken")) >= capacity

\* A caller that waits gets a slot or gives up; it is not overtaken for ever,
\* as long as there are only so many requests.  (acquire)
Served == \A p \in Callers : pc[p] = "waiting" ~> pc[p] \in {"holding", "idle"}
=============================================================================
