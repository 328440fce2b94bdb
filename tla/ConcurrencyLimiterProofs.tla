---------------------- MODULE ConcurrencyLimiterProofs ----------------------
(* Safety of the concurrency limiter, for any callers and capacities. *)
EXTENDS ConcurrencyLimiter, FiniteSetTheorems, SequenceTheorems, TLAPS

States == {"idle", "waiting", "woken", "holding"}

\* A caller that has not been told to go on, or was told and has not run yet,
\* is in the deque.
Queued ==
  \A p \in Callers : pc[p] \in {"waiting", "woken"} =>
                       \E i \in DOMAIN waiters : waiters[i] = p

\* The inductive invariant.
IInv == TypeOK /\ Queued /\ SlotsAccounted /\ NoneStranded

-----------------------------------------------------------------------------
\* The callers in one state are finitely many.
LEMMA InFinite ==
  ASSUME NEW at, NEW s
  PROVE  IsFiniteSet(In(at, s)) /\ Cardinality(In(at, s)) \in Nat
<1>1. In(at, s) \in SUBSET Callers
  BY DEF In
<1> QED BY <1>1, CallersAssumption, FS_Subset, FS_CardinalityType

\* One caller moves from state r to state s: one less there, one more here.
LEMMA Moved ==
  ASSUME NEW at \in [Callers -> States], NEW to \in [Callers -> States],
         NEW p \in Callers, NEW r \in States, NEW s \in States, r # s,
         at[p] = r, to[p] = s, \A q \in Callers \ {p} : to[q] = at[q]
  PROVE  /\ Cardinality(In(to, s)) = Cardinality(In(at, s)) + 1
         /\ Cardinality(In(to, r)) = Cardinality(In(at, r)) - 1
         /\ \A q \in States \ {r, s} : In(to, q) = In(at, q)
         /\ s # "waiting" => In(to, "waiting") \subseteq In(at, "waiting")
<1>2. In(to, s) = In(at, s) \cup {p} /\ p \notin In(at, s)
  BY DEF In
<1>3. In(to, r) = In(at, r) \ {p} /\ p \in In(at, r)
  BY DEF In
<1>4. \A q \in States \ {r, s} : In(to, q) = In(at, q)
  BY DEF In
<1>5. s # "waiting" => In(to, "waiting") \subseteq In(at, "waiting")
  BY DEF In
<1>6. Cardinality(In(to, s)) = Cardinality(In(at, s)) + 1
  BY <1>2, InFinite, FS_AddElement
<1>7. Cardinality(In(to, r)) = Cardinality(In(at, r)) - 1
  BY <1>3, InFinite, FS_RemoveElement
<1> QED BY <1>4, <1>5, <1>6, <1>7

\* A wake-up leaves nobody waiting or wakes as many as were asked for, and
\* touches nobody else.
LEMMA Woke ==
  ASSUME NEW at \in [Callers -> States], NEW n \in Nat, Wake(n, at)
  PROVE  /\ pc' \in [Callers -> States]
         /\ In(pc', "holding") = In(at, "holding")
         /\ In(pc', "waiting") \subseteq In(at, "waiting")
         /\ \/ In(pc', "waiting") = {}
            \/ Cardinality(In(pc', "woken")) = Cardinality(In(at, "woken")) + n
         /\ \A p \in Callers : pc'[p] \in {"waiting", "woken"} =>
                                 at[p] \in {"waiting", "woken"}
<1>1. PICK W \in SUBSET In(at, "waiting") :
        /\ IF Cardinality(In(at, "waiting")) <= n THEN W = In(at, "waiting")
                                                  ELSE Cardinality(W) = n
        /\ pc' = [q \in Callers |-> IF q \in W THEN "woken" ELSE at[q]]
  BY DEF Wake
<1>2. /\ In(pc', "holding") = In(at, "holding")
      /\ In(pc', "waiting") = In(at, "waiting") \ W
      /\ In(pc', "woken") = In(at, "woken") \cup W
      /\ In(at, "woken") \cap W = {}
  BY <1>1 DEF In
<1>3. IsFiniteSet(W) /\ Cardinality(W) \in Nat
  BY InFinite, FS_Subset, FS_CardinalityType
<1>4. Cardinality(In(pc', "woken")) = Cardinality(In(at, "woken")) + Cardinality(W)
  <2>1. Cardinality(In(pc', "woken")) =
          Cardinality(In(at, "woken")) + Cardinality(W) - Cardinality({})
    BY <1>2, <1>3, InFinite, FS_Union
  <2> QED BY <2>1, <1>3, InFinite, FS_EmptySet
<1>5. pc' \in [Callers -> States]
  BY <1>1 DEF States
<1>6. \A p \in Callers : pc'[p] \in {"waiting", "woken"} => at[p] \in {"waiting", "woken"}
  BY <1>1 DEF In
<1> QED BY <1>1, <1>2, <1>4, <1>5, <1>6

\* Taking a caller out of the deque keeps all the others in it.
LEMMA OthersStay ==
  ASSUME waiters \in Seq(Callers), NEW p \in Callers,
         \E i \in DOMAIN waiters : waiters[i] = p
  PROVE  /\ Others(p) \in Seq(Callers)
         /\ \A q \in Callers \ {p} :
              (\E i \in DOMAIN waiters : waiters[i] = q) =>
                 \E i \in DOMAIN Others(p) : Others(p)[i] = q
<1> DEFINE k == Position(p)
           before == SubSeq(waiters, 1, k - 1)
           after == SubSeq(waiters, k + 1, Len(waiters))
<1>1. k \in 1..Len(waiters) /\ waiters[k] = p
  BY DEF Position
<1>2. before \in Seq(Callers) /\ Len(before) = k - 1
      /\ \A i \in 1..(k - 1) : before[i] = waiters[i]
  BY <1>1
<1>3. after \in Seq(Callers) /\ Len(after) = Len(waiters) - k
      /\ \A i \in 1..(Len(waiters) - k) : after[i] = waiters[k + i]
  BY <1>1
<1>4. Others(p) = before \o after
  BY DEF Others
<1> HIDE DEF k, before, after
<1>5. Others(p) \in Seq(Callers) /\ Len(Others(p)) = Len(waiters) - 1
      /\ \A i \in 1..(Len(waiters) - 1) :
           Others(p)[i] = IF i <= k - 1 THEN before[i] ELSE after[i - (k - 1)]
  <2>1. before \o after \in Seq(Callers) /\ Len(before \o after) = Len(before) + Len(after)
        /\ \A i \in 1..(Len(before) + Len(after)) :
             (before \o after)[i] =
               IF i <= Len(before) THEN before[i] ELSE after[i - Len(before)]
    BY <1>2, <1>3, ConcatProperties
  <2>2. Len(before) = k - 1 /\ Len(before) + Len(after) = Len(waiters) - 1
    BY <1>1, <1>2, <1>3
  <2> QED BY <2>1, <2>2, <1>4
<1>6. ASSUME NEW q \in Callers \ {p}, NEW i \in DOMAIN waiters, waiters[i] = q
      PROVE  \E j \in DOMAIN Others(p) : Others(p)[j] = q
  <2>1. CASE i < k
    <3>1. i \in 1..(k - 1) /\ i \in 1..(Len(waiters) - 1)
      BY <2>1, <1>1, <1>6
    <3> QED BY <3>1, <1>1, <1>2, <1>5, <1>6
  <2>2. CASE i > k
    <3>1. i - 1 \in 1..(Len(waiters) - 1) /\ ~(i - 1 <= k - 1)
          /\ (i - 1) - (k - 1) \in 1..(Len(waiters) - k)
          /\ k + ((i - 1) - (k - 1)) = i
      BY <2>2, <1>1, <1>6
    <3>2. Others(p)[i - 1] = after[(i - 1) - (k - 1)]
      BY <3>1, <1>5
    <3>3. after[(i - 1) - (k - 1)] = waiters[i]
      BY <3>1, <1>3
    <3>4. DOMAIN Others(p) = 1..(Len(waiters) - 1)
      BY <1>5
    <3> QED BY <3>1, <3>2, <3>3, <3>4, <1>6
  <2> QED BY <2>1, <2>2, <1>1, <1>6
<1> QED BY <1>5, <1>6

-----------------------------------------------------------------------------
LEMMA InitInv == Init => IInv
<1> SUFFICES ASSUME Init PROVE IInv
  OBVIOUS
<1>1. In(pc, "holding") = {} /\ In(pc, "waiting") = {}
  BY DEF Init, In
<1>2. TypeOK
  BY BoundsAssumption DEF Init, TypeOK
<1>3. Queued
  BY DEF Init, Queued
<1>4. SlotsAccounted
  BY <1>1, FS_EmptySet DEF Init, SlotsAccounted
<1>5. NoneStranded
  BY <1>1 DEF NoneStranded
<1> QED BY <1>2, <1>3, <1>4, <1>5 DEF IInv

\* What the invariant says of the callers, in the form the steps use it.
LEMMA Facts ==
  ASSUME IInv
  PROVE  /\ pc \in [Callers -> States]
         /\ inFlight \in Nat /\ capacity \in Nat
         /\ waiters \in Seq(Callers)
         /\ inFlight = Cardinality(In(pc, "holding"))
         /\ \/ In(pc, "waiting") = {}
            \/ inFlight + Cardinality(In(pc, "woken")) >= capacity
  BY BoundsAssumption DEF IInv, TypeOK, SlotsAccounted, NoneStranded, States

\* A caller joins the end of the deque.
LEMMA Joined ==
  ASSUME NEW s \in Seq(Callers), NEW p \in Callers
  PROVE  /\ Append(s, p) \in Seq(Callers)
         /\ \A q \in Callers :
              q = p \/ (\E i \in DOMAIN s : s[i] = q) =>
                 \E i \in DOMAIN Append(s, p) : Append(s, p)[i] = q
<1>1. /\ Append(s, p) \in Seq(Callers)
      /\ DOMAIN Append(s, p) = 1..(Len(s) + 1)
      /\ Append(s, p)[Len(s) + 1] = p
      /\ \A i \in DOMAIN s : Append(s, p)[i] = s[i]
      /\ DOMAIN s = 1..Len(s)
  OBVIOUS
<1>2. Len(s) + 1 \in DOMAIN Append(s, p)
  BY <1>1
<1>3. \A i \in DOMAIN s : i \in DOMAIN Append(s, p)
  BY <1>1
<1> QED BY <1>1, <1>2, <1>3

\* A caller that leaves the deque and is told nothing more keeps the others queued.
LEMMA LeftQueue ==
  ASSUME IInv, NEW p \in Callers, pc[p] \in {"waiting", "woken"},
         waiters' = Others(p), pc'[p] \notin {"waiting", "woken"},
         \A q \in Callers \ {p} : pc'[q] \in {"waiting", "woken"} =>
                                    pc[q] \in {"waiting", "woken"}
  PROVE  Queued' /\ waiters' \in Seq(Callers)
<1>1. waiters \in Seq(Callers) /\ \E i \in DOMAIN waiters : waiters[i] = p
  BY Facts DEF IInv, Queued
<1>2. ASSUME NEW q \in Callers, pc'[q] \in {"waiting", "woken"}
      PROVE  \E i \in DOMAIN waiters' : waiters'[i] = q
  <2>1. q \in Callers \ {p} /\ pc[q] \in {"waiting", "woken"}
    BY <1>2
  <2>2. \E i \in DOMAIN waiters : waiters[i] = q
    BY <2>1 DEF IInv, Queued
  <2> QED BY <1>1, <2>1, <2>2, OthersStay
<1>3. waiters' \in Seq(Callers)
  BY <1>1, OthersStay
<1> QED BY <1>2, <1>3 DEF Queued

-----------------------------------------------------------------------------
LEMMA AcquireInv == ASSUME IInv, NEW p \in Callers, Acquire(p) PROVE IInv'
<1> USE Facts
<1>1. /\ pc[p] = "idle" /\ calls[p] < MaxCalls /\ calls' = [calls EXCEPT ![p] = @ + 1]
      /\ inFlight' = inFlight + 1 /\ pc' = [pc EXCEPT ![p] = "holding"]
      /\ capacity' = capacity /\ waiters' = waiters
  BY DEF Acquire, Begin
<1>2. /\ pc' \in [Callers -> States]
      /\ Cardinality(In(pc', "holding")) = Cardinality(In(pc, "holding")) + 1
      /\ In(pc', "waiting") = In(pc, "waiting") /\ In(pc', "woken") = In(pc, "woken")
  <2>1. /\ "idle" \in States /\ "holding" \in States
        /\ "waiting" \in States \ {"idle", "holding"}
        /\ "woken" \in States \ {"idle", "holding"}
    BY DEF States
  <2>2. /\ pc' \in [Callers -> States]
        /\ Cardinality(In(pc', "holding")) = Cardinality(In(pc, "holding")) + 1
        /\ \A q \in States \ {"idle", "holding"} : In(pc', q) = In(pc, q)
    <3>1. /\ pc \in [Callers -> States] /\ pc' \in [Callers -> States]
          /\ "idle" # "holding" /\ pc[p] = "idle" /\ pc'[p] = "holding"
          /\ \A q \in Callers \ {p} : pc'[q] = pc[q]
      BY <1>1, <2>1
    <3> QED BY <3>1, <2>1, Moved
  <2> QED BY <2>1, <2>2
<1>3. TypeOK'
  BY <1>1, <1>2, BoundsAssumption DEF IInv, TypeOK, States
<1>4. Queued'
  BY <1>1 DEF IInv, Queued
<1>5. SlotsAccounted'
  BY <1>1, <1>2 DEF SlotsAccounted
<1>6. NoneStranded'
  <2>1. Cardinality(In(pc, "woken")) \in Nat
    BY InFinite
  <2> QED BY <2>1, <1>1, <1>2 DEF NoneStranded
<1> QED BY <1>3, <1>4, <1>5, <1>6 DEF IInv

LEMMA EnqueueInv == ASSUME IInv, NEW p \in Callers, Enqueue(p) PROVE IInv'
<1> USE Facts
<1>1. /\ pc[p] = "idle" /\ calls[p] < MaxCalls /\ calls' = [calls EXCEPT ![p] = @ + 1]
      /\ inFlight >= capacity /\ inFlight' = inFlight
      /\ pc' = [pc EXCEPT ![p] = "waiting"]
      /\ capacity' = capacity /\ waiters' = Append(waiters, p)
  BY DEF Enqueue, Begin
<1>2. /\ pc' \in [Callers -> States]
      /\ In(pc', "holding") = In(pc, "holding") /\ In(pc', "woken") = In(pc, "woken")
  BY <1>1 DEF States, In
<1>3. waiters' \in Seq(Callers) /\ Queued'
  <2>1. ASSUME NEW q \in Callers, pc'[q] \in {"waiting", "woken"}
        PROVE  \E i \in DOMAIN waiters' : waiters'[i] = q
    <3>1. q = p \/ pc[q] \in {"waiting", "woken"}
      BY <2>1, <1>1
    <3>2. q = p \/ \E i \in DOMAIN waiters : waiters[i] = q
      BY <3>1 DEF IInv, Queued
    <3> QED BY <3>2, <1>1, Joined
  <2> QED BY <2>1, <1>1, Joined DEF Queued
<1>4. TypeOK'
  BY <1>1, <1>2, <1>3, BoundsAssumption DEF IInv, TypeOK, States
<1>5. SlotsAccounted'
  BY <1>1, <1>2 DEF SlotsAccounted
<1>6. NoneStranded'
  <2>1. Cardinality(In(pc, "woken")) \in Nat
    BY InFinite
  <2> QED BY <2>1, <1>1, <1>2 DEF NoneStranded
<1> QED BY <1>3, <1>4, <1>5, <1>6 DEF IInv

LEMMA AcquireWokenInv == ASSUME IInv, NEW p \in Callers, AcquireWoken(p) PROVE IInv'
<1> USE Facts
<1>1. /\ pc[p] = "woken" /\ calls' = calls /\ inFlight < capacity
      /\ inFlight' = inFlight + 1 /\ pc' = [pc EXCEPT ![p] = "holding"]
      /\ capacity' = capacity /\ waiters' = Others(p)
  BY DEF AcquireWoken
<1>2. /\ pc' \in [Callers -> States]
      /\ Cardinality(In(pc', "holding")) = Cardinality(In(pc, "holding")) + 1
      /\ Cardinality(In(pc', "woken")) = Cardinality(In(pc, "woken")) - 1
      /\ In(pc', "waiting") = In(pc, "waiting")
  <2>1. /\ "woken" \in States /\ "holding" \in States
        /\ "waiting" \in States \ {"woken", "holding"}
    BY DEF States
  <2>2. /\ pc' \in [Callers -> States] /\ pc'[p] = "holding"
        /\ \A q \in Callers \ {p} : pc'[q] = pc[q]
    BY <1>1, <2>1
  <2>3. /\ Cardinality(In(pc', "holding")) = Cardinality(In(pc, "holding")) + 1
        /\ Cardinality(In(pc', "woken")) = Cardinality(In(pc, "woken")) - 1
        /\ \A q \in States \ {"woken", "holding"} : In(pc', q) = In(pc, q)
    <3>1. pc \in [Callers -> States] /\ "woken" # "holding" /\ pc[p] = "woken"
      BY <1>1
    <3> QED BY <3>1, <2>1, <2>2, Moved
  <2> QED BY <2>1, <2>2, <2>3
<1>3. waiters' \in Seq(Callers) /\ Queued'
  <2>1. /\ pc'[p] \notin {"waiting", "woken"}
        /\ \A q \in Callers \ {p} : pc'[q] = pc[q]
    BY <1>1
  <2> QED BY <2>1, <1>1, LeftQueue
<1>4. TypeOK'
  BY <1>1, <1>2, <1>3, BoundsAssumption DEF IInv, TypeOK, States
<1>5. SlotsAccounted'
  BY <1>1, <1>2 DEF SlotsAccounted
<1>6. NoneStranded'
  <2>1. Cardinality(In(pc, "woken")) \in Nat
    BY InFinite
  <2> QED BY <2>1, <1>1, <1>2 DEF NoneStranded
<1> QED BY <1>3, <1>4, <1>5, <1>6 DEF IInv

LEMMA RequeueInv == ASSUME IInv, NEW p \in Callers, Requeue(p) PROVE IInv'
<1> USE Facts
<1>1. /\ pc[p] = "woken" /\ calls' = calls /\ inFlight >= capacity
      /\ inFlight' = inFlight /\ pc' = [pc EXCEPT ![p] = "waiting"]
      /\ capacity' = capacity /\ waiters' = Append(Others(p), p)
  BY DEF Requeue
<1>2. /\ pc' \in [Callers -> States]
      /\ In(pc', "holding") = In(pc, "holding")
  BY <1>1 DEF States, In
<1>3. waiters' \in Seq(Callers) /\ Queued'
  <2>1. \E i \in DOMAIN waiters : waiters[i] = p
    BY <1>1 DEF IInv, Queued
  <2>2. Others(p) \in Seq(Callers)
    BY <2>1, OthersStay
  <2>3. ASSUME NEW q \in Callers, pc'[q] \in {"waiting", "woken"}
        PROVE  \E i \in DOMAIN waiters' : waiters'[i] = q
    <3>1. q = p \/ (q \in Callers \ {p} /\ pc[q] \in {"waiting", "woken"})
      BY <2>3, <1>1
    <3>2. q = p \/ (q \in Callers \ {p} /\ \E i \in DOMAIN waiters : waiters[i] = q)
      BY <3>1 DEF IInv, Queued
    <3>3. q = p \/ \E i \in DOMAIN Others(p) : Others(p)[i] = q
      BY <3>2, <2>1, OthersStay
    <3> QED BY <3>3, <2>2, <1>1, Joined
  <2> QED BY <2>2, <2>3, <1>1, Joined DEF Queued
<1>4. TypeOK'
  BY <1>1, <1>2, <1>3, BoundsAssumption DEF IInv, TypeOK, States
<1>5. SlotsAccounted'
  BY <1>1, <1>2 DEF SlotsAccounted
<1>6. NoneStranded'
  <2>1. Cardinality(In(pc', "woken")) \in Nat
    BY InFinite
  <2> QED BY <2>1, <1>1, <1>2 DEF NoneStranded
<1> QED BY <1>3, <1>4, <1>5, <1>6 DEF IInv

LEMMA CancelWaitingInv == ASSUME IInv, NEW p \in Callers, CancelWaiting(p) PROVE IInv'
<1> USE Facts
<1>1. /\ pc[p] = "waiting" /\ calls' = calls
      /\ inFlight' = inFlight /\ pc' = [pc EXCEPT ![p] = "idle"]
      /\ capacity' = capacity /\ waiters' = Others(p)
  BY DEF CancelWaiting
<1>2. /\ pc' \in [Callers -> States]
      /\ In(pc', "holding") = In(pc, "holding") /\ In(pc', "woken") = In(pc, "woken")
      /\ In(pc', "waiting") \subseteq In(pc, "waiting")
  BY <1>1 DEF States, In
<1>3. waiters' \in Seq(Callers) /\ Queued'
  <2>1. /\ pc'[p] \notin {"waiting", "woken"}
        /\ \A q \in Callers \ {p} : pc'[q] = pc[q]
    BY <1>1
  <2> QED BY <2>1, <1>1, LeftQueue
<1>4. TypeOK'
  BY <1>1, <1>2, <1>3, BoundsAssumption DEF IInv, TypeOK, States
<1>5. SlotsAccounted'
  BY <1>1, <1>2 DEF SlotsAccounted
<1>6. NoneStranded'
  BY <1>1, <1>2 DEF NoneStranded
<1> QED BY <1>3, <1>4, <1>5, <1>6 DEF IInv

\* A caller goes idle, and one wake-up follows.
LEMMA IdleThenWoke ==
  ASSUME NEW p \in Callers, NEW r \in {"woken", "holding"},
         pc \in [Callers -> States], pc[p] = r, Wake(1, [pc EXCEPT ![p] = "idle"])
  PROVE  /\ pc' \in [Callers -> States] /\ pc'[p] = "idle"
         /\ \/ In(pc', "waiting") = {}
            \/ /\ In(pc, "waiting") # {}
               /\ Cardinality(In(pc', "woken")) =
                    Cardinality(In(pc, "woken")) + (IF r = "woken" THEN 0 ELSE 1)
         /\ Cardinality(In(pc', "holding")) =
              Cardinality(In(pc, "holding")) - (IF r = "holding" THEN 1 ELSE 0)
         /\ \A q \in Callers : pc'[q] \in {"waiting", "woken"} =>
                                 pc[q] \in {"waiting", "woken"}
<1> DEFINE at == [pc EXCEPT ![p] = "idle"]
<1>1. /\ at \in [Callers -> States] /\ at[p] = "idle"
      /\ \A q \in Callers \ {p} : at[q] = pc[q]
      /\ r \in States /\ "idle" \in States /\ r # "idle"
  BY DEF States
<1>2. Wake(1, at)
  OBVIOUS
<1> HIDE DEF at
<1>3. /\ Cardinality(In(at, r)) = Cardinality(In(pc, r)) - 1
      /\ \A q \in States \ {r, "idle"} : In(at, q) = In(pc, q)
  BY <1>1, Moved
<1>4. /\ pc' \in [Callers -> States]
      /\ In(pc', "holding") = In(at, "holding")
      /\ In(pc', "waiting") \subseteq In(at, "waiting")
      /\ \/ In(pc', "waiting") = {}
         \/ Cardinality(In(pc', "woken")) = Cardinality(In(at, "woken")) + 1
      /\ \A q \in Callers : pc'[q] \in {"waiting", "woken"} =>
                              at[q] \in {"waiting", "woken"}
  BY <1>1, <1>2, Woke
<1>5. pc'[p] = "idle"
  <2>1. PICK W \in SUBSET In(at, "waiting") :
          pc' = [q \in Callers |-> IF q \in W THEN "woken" ELSE at[q]]
    BY <1>2 DEF Wake
  <2> QED BY <2>1, <1>1 DEF In
<1>6. In(at, "waiting") = In(pc, "waiting")
  BY <1>3 DEF States
<1>7. Cardinality(In(pc', "holding")) =
        Cardinality(In(pc, "holding")) - (IF r = "holding" THEN 1 ELSE 0)
  <2>1. CASE r = "holding" BY <2>1, <1>3, <1>4
  <2>2. CASE r = "woken"
    <3>1. In(at, "holding") = In(pc, "holding")
      BY <2>2, <1>3 DEF States
    <3> QED BY <3>1, <2>2, <1>4, InFinite
  <2> QED BY <2>1, <2>2
<1>8. \/ In(pc', "waiting") = {}
      \/ Cardinality(In(pc', "woken")) =
           Cardinality(In(pc, "woken")) + (IF r = "woken" THEN 0 ELSE 1)
  <2>1. CASE r = "woken" BY <2>1, <1>3, <1>4, InFinite
  <2>2. CASE r = "holding"
    <3>1. In(at, "woken") = In(pc, "woken")
      BY <2>2, <1>3 DEF States
    <3> QED BY <3>1, <2>2, <1>4
  <2> QED BY <2>1, <2>2
<1> QED BY <1>1, <1>4, <1>5, <1>6, <1>7, <1>8

LEMMA CancelWokenInv == ASSUME IInv, NEW p \in Callers, CancelWoken(p) PROVE IInv'
<1> USE Facts
<1>1. /\ pc[p] = "woken" /\ calls' = calls /\ inFlight' = inFlight
      /\ capacity' = capacity /\ waiters' = Others(p)
      /\ Wake(1, [pc EXCEPT ![p] = "idle"])
  BY DEF CancelWoken
<1>2. /\ pc' \in [Callers -> States] /\ pc'[p] = "idle"
      /\ \/ In(pc', "waiting") = {}
         \/ /\ In(pc, "waiting") # {}
            /\ Cardinality(In(pc', "woken")) = Cardinality(In(pc, "woken")) + 0
      /\ Cardinality(In(pc', "holding")) = Cardinality(In(pc, "holding")) - 0
      /\ \A q \in Callers : pc'[q] \in {"waiting", "woken"} =>
                              pc[q] \in {"waiting", "woken"}
  BY <1>1, IdleThenWoke
<1>3. waiters' \in Seq(Callers) /\ Queued'
  <2>1. /\ pc[p] \in {"waiting", "woken"} /\ pc'[p] \notin {"waiting", "woken"}
        /\ \A q \in Callers \ {p} : pc'[q] \in {"waiting", "woken"} =>
                                      pc[q] \in {"waiting", "woken"}
    BY <1>1, <1>2
  <2> QED BY <2>1, <1>1, LeftQueue
<1>4. TypeOK'
  BY <1>1, <1>2, <1>3, BoundsAssumption DEF IInv, TypeOK, States
<1>5. SlotsAccounted'
  BY <1>1, <1>2, InFinite DEF SlotsAccounted
<1>6. NoneStranded'
  <2>1. Cardinality(In(pc, "woken")) \in Nat
    BY InFinite
  <2> QED BY <2>1, <1>1, <1>2 DEF NoneStranded
<1> QED BY <1>3, <1>4, <1>5, <1>6 DEF IInv

LEMMA ReleaseInv == ASSUME IInv, NEW p \in Callers, Release(p) PROVE IInv'
<1> USE Facts
<1>1. /\ pc[p] = "holding" /\ calls' = calls
      /\ inFlight' = IF inFlight > 0 THEN inFlight - 1 ELSE inFlight
      /\ capacity' = capacity /\ waiters' = waiters
      /\ Wake(1, [pc EXCEPT ![p] = "idle"])
  BY DEF Release
<1>2. /\ pc' \in [Callers -> States]
      /\ \/ In(pc', "waiting") = {}
         \/ /\ In(pc, "waiting") # {}
            /\ Cardinality(In(pc', "woken")) = Cardinality(In(pc, "woken")) + 1
      /\ Cardinality(In(pc', "holding")) = Cardinality(In(pc, "holding")) - 1
      /\ \A q \in Callers : pc'[q] \in {"waiting", "woken"} =>
                              pc[q] \in {"waiting", "woken"}
  BY <1>1, IdleThenWoke
<1>3. inFlight > 0 /\ inFlight' = inFlight - 1
  <2>1. Cardinality(In(pc', "holding")) \in Nat
    BY InFinite
  <2> QED BY <2>1, <1>1, <1>2
<1>4. Queued'
  BY <1>1, <1>2 DEF IInv, Queued
<1>5. TypeOK'
  BY <1>1, <1>2, <1>3, BoundsAssumption DEF IInv, TypeOK, States
<1>6. SlotsAccounted'
  BY <1>2, <1>3 DEF SlotsAccounted
<1>7. NoneStranded'
  <2>1. Cardinality(In(pc, "woken")) \in Nat
    BY InFinite
  <2> QED BY <2>1, <1>1, <1>2, <1>3 DEF NoneStranded
<1> QED BY <1>4, <1>5, <1>6, <1>7 DEF IInv

LEMMA SetCapacityInv ==
  ASSUME IInv, NEW n \in 1..MaxCapacity, SetCapacity(n) PROVE IInv'
<1> USE Facts
<1> DEFINE opened == IF n > capacity THEN n - capacity ELSE 0
<1>1. /\ calls' = calls /\ inFlight' = inFlight /\ waiters' = waiters
      /\ capacity' = n /\ Wake(opened, pc)
  BY DEF SetCapacity
<1>2. n \in Nat /\ opened \in Nat /\ capacity + opened >= n
  BY BoundsAssumption
<1> HIDE DEF opened
<1>3. /\ pc' \in [Callers -> States]
      /\ In(pc', "holding") = In(pc, "holding")
      /\ In(pc', "waiting") \subseteq In(pc, "waiting")
      /\ \/ In(pc', "waiting") = {}
         \/ Cardinality(In(pc', "woken")) = Cardinality(In(pc, "woken")) + opened
      /\ \A q \in Callers : pc'[q] \in {"waiting", "woken"} =>
                              pc[q] \in {"waiting", "woken"}
  BY <1>1, <1>2, Woke
<1>4. Queued'
  BY <1>1, <1>3 DEF IInv, Queued
<1>5. TypeOK'
  BY <1>1, <1>3 DEF IInv, TypeOK, States
<1>6. SlotsAccounted'
  BY <1>1, <1>3 DEF SlotsAccounted
<1>7. NoneStranded'
  <2>1. Cardinality(In(pc, "woken")) \in Nat
    BY InFinite
  <2> QED BY <2>1, <1>1, <1>2, <1>3 DEF NoneStranded
<1> QED BY <1>4, <1>5, <1>6, <1>7 DEF IInv

LEMMA NextInv == IInv /\ [Next]_vars => IInv'
<1> SUFFICES ASSUME IInv, [Next]_vars PROVE IInv'
  OBVIOUS
<1>1. CASE \E p \in Callers : Acquire(p) \/ Enqueue(p) \/ Resume(p)
                              \/ CancelWaiting(p) \/ CancelWoken(p) \/ Release(p)
  BY <1>1, AcquireInv, EnqueueInv, AcquireWokenInv, RequeueInv, CancelWaitingInv,
     CancelWokenInv, ReleaseInv DEF Resume
<1>2. CASE \E n \in 1..MaxCapacity : SetCapacity(n)
  BY <1>2, SetCapacityInv
<1>3. CASE UNCHANGED vars
  BY <1>3 DEF vars, IInv, TypeOK, Queued, SlotsAccounted, NoneStranded, In
<1> QED BY <1>1, <1>2, <1>3 DEF Next

-----------------------------------------------------------------------------
\* Whatever callers come, cancel and finish, and however the allowance moves:
\* slots are counted right and no free slot is without a caller on its way.
THEOREM Invariance == Spec => []IInv
BY InitInv, NextInv, PTL DEF Spec

\* Every variable keeps to its type.  (the class's fields)
THEOREM LimiterTypes == Spec => []TypeOK
<1>1. IInv => TypeOK
  BY DEF IInv
<1> QED BY <1>1, Invariance, PTL

\* Every slot in use is one caller's, and is given back once.  (acquire, release)
THEOREM LimiterSlotsAccounted == Spec => []SlotsAccounted
<1>1. IInv => SlotsAccounted
  BY DEF IInv
<1> QED BY <1>1, Invariance, PTL

\* No caller is left waiting while a slot is free that nobody was woken for.
\* (release, set_max_concurrency, the cancellation in acquire)
THEOREM LimiterNoneStranded == Spec => []NoneStranded
<1>1. IInv => NoneStranded
  BY DEF IInv
<1> QED BY <1>1, Invariance, PTL
=============================================================================
