------------------------ MODULE DevicePairingProofs ------------------------
(* Pairing, for any requests, polls and times to live. *)
EXTENDS DevicePairing, TLAPS

\* An approved request names a token nobody has been given, of an approval that will
\* not write again; only such approvals' tokens are given away, and none is put back.
OneShot ==
  /\ key.status = "approved" =>
       /\ key.token \in Approvals /\ handed[key.token] = 0
       /\ step[key.token] \in {"dropping", "over"}
  /\ \A a \in Approvals : handed[a] <= 1
  /\ \A a \in Approvals : handed[a] # 0 => step[a] \in {"dropping", "over"}

\* A request that has been decided is never pending again: no poll takes a pending one
\* out of the store, as none asks to consume it before it is approved.
Decided ==
  /\ key.status = "pending" => late = {} /\ \A p \in Polls : poll[p] = "idle"
  /\ \A p \in Polls : taken[p].status # "pending"

\* An approval that had not begun when a denial was recorded makes no token.
TooLate ==
  /\ \A a \in late : step[a] \in {"new", "over"}
  /\ \A a \in Approvals : step[a] = "new" => a \notin tokens
  /\ late \cap tokens = {}

\* The inductive invariant.
IInv == TypeOK /\ OneShot /\ Decided /\ TooLate

-----------------------------------------------------------------------------
LEMMA InitInv == Init => IInv
BY TimesAssumption
   DEF Init, IInv, TypeOK, OneShot, Decided, TooLate, NoKey, Payloads, Deciding

\* The requests that decide.
LEMMA LookInv == ASSUME NEW d \in Deciding, IInv, Look(d) PROVE IInv'
BY DEF Look, Goes, LookedUp, IInv, TypeOK, OneShot, Decided, TooLate, Deciding

LEMMA MakeInv == ASSUME NEW a \in Approvals, IInv, Make(a) PROVE IInv'
BY DEF Make, Goes, IInv, TypeOK, OneShot, Decided, TooLate, Deciding

LEMMA LoadInv == ASSUME NEW d \in Deciding, IInv, Load(d) PROVE IInv'
<1> USE DEF Load, Goes, IInv
<1>1. TypeOK'
  BY DEF TypeOK, Deciding
<1>2. OneShot'
  BY DEF TypeOK, OneShot, Deciding
<1>3. Decided' /\ TooLate'
  BY RequestsAssumption DEF TypeOK, Decided, TooLate, Deciding
<1> QED BY <1>1, <1>2, <1>3

LEMMA ReadTtlInv == ASSUME NEW a \in Approvals, IInv, ReadTtl(a) PROVE IInv'
<1> USE DEF ReadTtl, Goes, IInv
<1>1. TypeOK'
  BY TimesAssumption DEF TypeOK, Deciding
<1>2. OneShot' /\ Decided' /\ TooLate'
  BY DEF TypeOK, OneShot, Decided, TooLate, Deciding
<1> QED BY <1>1, <1>2

LEMMA MarkApprovedInv == ASSUME NEW a \in Approvals, IInv, MarkApproved(a) PROVE IInv'
<1> USE DEF MarkApproved, Written, Goes, IInv
<1>1. TypeOK'
  BY DEF TypeOK, Payloads, Deciding
<1>2. OneShot'
  BY DEF TypeOK, OneShot, Deciding
<1>3. Decided' /\ TooLate'
  BY DEF TypeOK, Decided, TooLate, Deciding
<1> QED BY <1>1, <1>2, <1>3

LEMMA MarkDeniedInv == ASSUME NEW d \in Denials, IInv, MarkDenied(d) PROVE IInv'
<1> USE DEF MarkDenied, Written, Goes, IInv
<1>1. TypeOK'
  BY TimesAssumption DEF TypeOK, Payloads, NoKey, Deciding
<1>2. OneShot'
  BY RequestsAssumption DEF TypeOK, OneShot, NoKey, Deciding
<1>3. Decided'
  BY DEF TypeOK, Decided, NoKey
<1>4. TooLate'
  BY RequestsAssumption DEF TypeOK, TooLate, Deciding
<1> QED BY <1>1, <1>2, <1>3, <1>4

LEMMA DropCodeInv == ASSUME NEW d \in Deciding, IInv, DropCode(d) PROVE IInv'
BY DEF DropCode, Goes, IInv, TypeOK, OneShot, Decided, TooLate, Deciding

\* The device's polls.
LEMMA PollInv == ASSUME NEW p \in Polls, IInv, Poll(p) PROVE IInv'
BY DEF Poll, IInv, TypeOK, OneShot, Decided, TooLate

LEMMA ConsumeInv == ASSUME NEW p \in Polls, IInv, Consume(p) PROVE IInv'
<1> USE DEF IInv
<1>1. poll[p] = "approved" /\ key' = NoKey /\ left' = 0
  BY DEF Consume
<1>2. /\ handed' = IF key.status = "approved" THEN Handed(key) ELSE handed
      /\ taken' = IF key.status \in {"pending", "denied"} THEN [taken EXCEPT ![p] = key]
                                                          ELSE taken
      /\ poll' = [poll EXCEPT ![p] =
                    IF key.status \in {"pending", "denied"} THEN "putback" ELSE "idle"]
  BY DEF Consume, TypeOK, Payloads
<1>3. UNCHANGED <<code, age, step, knows, ttl, tokens, late>>
  BY DEF Consume
<1>4. key.status # "pending"
  BY <1>1 DEF Decided
<1>5. handed' \in [Approvals -> Nat]
  <2>1. CASE key.status = "approved"
    <3>1. key.token \in Approvals
      BY <2>1 DEF OneShot
    <3>2. handed[key.token] + 1 \in Nat
      BY <3>1 DEF TypeOK
    <3> QED BY <1>2, <2>1, <3>1, <3>2 DEF TypeOK, Handed
  <2>2. CASE key.status # "approved"
    BY <1>2, <2>2 DEF TypeOK
  <2> QED BY <2>1, <2>2
<1>6. TypeOK'
  BY <1>1, <1>2, <1>3, <1>5, TimesAssumption DEF TypeOK, Payloads, NoKey
<1>7. OneShot'
  BY <1>1, <1>2, <1>3 DEF TypeOK, OneShot, Handed, NoKey
<1>8. Decided' /\ TooLate'
  BY <1>1, <1>2, <1>3, <1>4 DEF TypeOK, Decided, TooLate, NoKey
<1> QED BY <1>6, <1>7, <1>8

LEMMA PutBackInv == ASSUME NEW p \in Polls, IInv, PutBack(p) PROVE IInv'
<1> USE DEF PutBack, IInv
<1>1. TypeOK'
  BY TimesAssumption DEF TypeOK, Payloads, NoKey
<1>2. OneShot' /\ Decided' /\ TooLate'
  BY DEF TypeOK, OneShot, Decided, TooLate, NoKey
<1> QED BY <1>1, <1>2

LEMMA TickInv == ASSUME IInv, Tick PROVE IInv'
<1> USE DEF Tick, IInv
<1>1. TypeOK'
  BY TimesAssumption DEF TypeOK, Payloads, NoKey
<1>2. OneShot' /\ Decided' /\ TooLate'
  BY DEF TypeOK, OneShot, Decided, TooLate, NoKey
<1> QED BY <1>1, <1>2

LEMMA NextInv == IInv /\ [Next]_vars => IInv'
<1> SUFFICES ASSUME IInv, [Next]_vars PROVE IInv'
  OBVIOUS
<1>1. CASE \E d \in Deciding : Look(d) \/ Load(d) \/ MarkDenied(d) \/ DropCode(d)
  <2>1. PICK d \in Deciding : Look(d) \/ Load(d) \/ MarkDenied(d) \/ DropCode(d)
    BY <1>1
  <2>2. MarkDenied(d) => d \in Denials
    BY DEF MarkDenied
  <2> QED BY <2>1, <2>2, LookInv, LoadInv, MarkDeniedInv, DropCodeInv
<1>2. CASE \E a \in Approvals : Make(a) \/ ReadTtl(a) \/ MarkApproved(a)
  BY <1>2, MakeInv, ReadTtlInv, MarkApprovedInv
<1>3. CASE \E p \in Polls : Poll(p) \/ Consume(p) \/ PutBack(p)
  BY <1>3, PollInv, ConsumeInv, PutBackInv
<1>4. CASE Tick
  BY <1>4, TickInv
<1>5. CASE UNCHANGED vars
  BY <1>5 DEF vars, IInv, TypeOK, OneShot, Decided, TooLate
<1> QED BY <1>1, <1>2, <1>3, <1>4, <1>5 DEF Next

-----------------------------------------------------------------------------
\* What is true of a pairing request, whoever decides and polls and however long it
\* takes: it is approved for one device, and not undecided again.
THEOREM PairingInvariance == Spec => []IInv
BY InitInv, NextInv, PTL DEF Spec

\* A token is handed out at most once, for any approvals, denials and polls.
\* (mark_approved, consume_approved)
THEOREM PairingHandedOnce == Spec => []HandedOnce
<1>1. IInv => HandedOnce
  BY DEF IInv, OneShot, HandedOnce
<1> QED BY <1>1, PairingInvariance, PTL

\* No approval that began after a denial makes a token.  (mark_denied, consume_approved)
THEOREM PairingDenialStands == Spec => []DenialStands
<1>1. IInv => DenialStands
  BY DEF IInv, TooLate, DenialStands
<1> QED BY <1>1, PairingInvariance, PTL
=============================================================================
