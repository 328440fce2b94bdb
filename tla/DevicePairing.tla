--------------------------- MODULE DevicePairing ---------------------------
(***************************************************************************)
(* One request of a device to be paired: it polls with its device code     *)
(* while signed-in users approve or deny by the short code.  The state is  *)
(* a key in Redis that expires; every request reads it, decides, and       *)
(* writes it in calls of their own.                                        *)
(*   endpoints/device_auth.py, utils/device_auth.py                        *)
(* The pacing of the polls and the metadata of the request are left out.   *)
(***************************************************************************)
EXTENDS Integers, FiniteSets

CONSTANTS
  Approvals, Denials,  \* the requests that decide; an approval makes a token of its own
  Polls,               \* the device's polls that may be under way at once
  NoToken,
  Ttl, DeniedTtl,      \* PENDING_TTL_SECONDS, DENIED_TTL_SECONDS
  MaxAge               \* bounds the time that passes

ASSUME RequestsAssumption == Approvals \cap Denials = {} /\ NoToken \notin Approvals
ASSUME TimesAssumption == {Ttl, DeniedTtl, MaxAge} \subseteq Nat \ {0} /\ DeniedTtl <= Ttl

VARIABLES
  key,      \* device_auth:dc: status, and the token once approved
  left,     \* its time to live
  code,     \* device_auth:uc is there
  age,      \* the time since the device asked
  step,     \* each deciding request's step
  knows,    \* the requests whose mark_ call read the short code in the key
  ttl,      \* the time to live it read
  poll,     \* each poll's step
  taken,    \* the payload a poll took out of the key
  tokens,   \* the approvals whose token is in the database
  handed,   \* token -> how often the device was given it
  late      \* history: the approvals that began after a denial was recorded

vars == <<key, left, code, age, step, knows, ttl, poll, taken, tokens, handed, late>>

NoKey    == [status |-> "none", token |-> NoToken]
Payloads == [status : {"none", "pending", "approved", "denied"}, token : Approvals \cup {NoToken}]
Deciding == Approvals \cup Denials

TypeOK ==
  /\ key \in Payloads /\ left \in 0..Ttl /\ code \in BOOLEAN /\ age \in 0..MaxAge
  /\ step \in [Deciding -> {"new", "seen", "made", "marking", "writing", "dropping", "over"}]
  /\ knows \subseteq Deciding
  /\ ttl \in [Deciding -> 0..Ttl]
  /\ poll \in [Polls -> {"idle", "approved", "putback"}] /\ taken \in [Polls -> Payloads]
  /\ tokens \subseteq Approvals /\ handed \in [Approvals -> Nat] /\ late \subseteq Approvals

\* device_auth_init
Init ==
  /\ key = [NoKey EXCEPT !.status = "pending"] /\ left = Ttl /\ code = TRUE /\ age = 0
  /\ step = [d \in Deciding |-> "new"] /\ knows = {} /\ ttl = [d \in Deciding |-> 0]
  /\ poll = [p \in Polls |-> "idle"] /\ taken = [p \in Polls |-> NoKey]
  /\ tokens = {} /\ handed = [a \in Approvals |-> 0] /\ late = {}

-----------------------------------------------------------------------------
(* approve and deny *)

Goes(d, next) == step' = [step EXCEPT ![d] = next]

\* Mutant: what the request has become is not looked at.
LookedUpAny == code /\ key.status # "none"

LookedUp == code /\ key.status = "pending"

Look(d) ==
  /\ step[d] = "new"
  /\ Goes(d, IF LookedUp THEN "seen" ELSE "over")
  /\ UNCHANGED <<key, left, code, age, knows, ttl, poll, taken, tokens, handed, late>>

\* The device and its token, in one transaction.
Make(a) ==
  /\ step[a] = "seen" /\ a \in Approvals
  /\ tokens' = tokens \cup {a}
  /\ Goes(a, "made")
  /\ UNCHANGED <<key, left, code, age, knows, ttl, poll, taken, handed, late>>

\* mark_approved and mark_denied: nothing if the key is gone; only a pending one
\* holds the short code.
Load(d) ==
  /\ step[d] = IF d \in Approvals THEN "made" ELSE "seen"
  /\ Goes(d, IF key.status = "none" THEN "over" ELSE IF d \in Approvals THEN "marking" ELSE "writing")
  /\ knows' = IF key.status = "pending" THEN knows \cup {d} ELSE knows
  /\ UNCHANGED <<key, left, code, age, ttl, poll, taken, tokens, handed, late>>

ReadTtl(a) ==
  /\ step[a] = "marking"
  /\ ttl' = [ttl EXCEPT ![a] = IF left < 1 THEN Ttl ELSE left]
  /\ Goes(a, "writing")
  /\ UNCHANGED <<key, left, code, age, knows, poll, taken, tokens, handed, late>>

Written(d) == Goes(d, IF d \in knows THEN "dropping" ELSE "over")

MarkApproved(a) ==
  /\ step[a] = "writing" /\ a \in Approvals
  /\ key' = [status |-> "approved", token |-> a] /\ left' = ttl[a]
  /\ Written(a)
  /\ UNCHANGED <<code, age, knows, ttl, poll, taken, tokens, handed, late>>

MarkDenied(d) ==
  /\ step[d] = "writing" /\ d \in Denials
  /\ key' = [NoKey EXCEPT !.status = "denied"] /\ left' = DeniedTtl
  /\ Written(d)
  /\ late' = late \cup {a \in Approvals : step[a] = "new"}
  /\ UNCHANGED <<code, age, knows, ttl, poll, taken, tokens, handed>>

DropCode(d) ==
  /\ step[d] = "dropping"
  /\ code' = FALSE
  /\ Goes(d, "over")
  /\ UNCHANGED <<key, left, age, knows, ttl, poll, taken, tokens, handed, late>>

-----------------------------------------------------------------------------
(* token *)

\* Only an approved request is consumed; any other answer leaves the key alone.
Poll(p) ==
  /\ poll[p] = "idle" /\ key.status = "approved"
  /\ poll' = [poll EXCEPT ![p] = "approved"]
  /\ UNCHANGED <<key, left, code, age, step, knows, ttl, taken, tokens, handed, late>>

Handed(payload) == [handed EXCEPT ![payload.token] = @ + 1]

\* Mutant: the key is read first and deleted in a call of its own.
ConsumeInTwo(p) ==
  \/ /\ poll[p] = "approved"
     /\ IF key.status = "approved"
        THEN /\ handed' = Handed(key)
             /\ poll' = [poll EXCEPT ![p] = "putback"]
             /\ taken' = [taken EXCEPT ![p] = key]
        ELSE poll' = [poll EXCEPT ![p] = "idle"] /\ UNCHANGED <<handed, taken>>
     /\ UNCHANGED <<key, left, code, age, step, knows, ttl, tokens, late>>
  \/ /\ poll[p] = "putback" /\ taken[p].status = "approved"
     /\ key' = NoKey /\ left' = 0
     /\ poll' = [poll EXCEPT ![p] = "idle"] /\ taken' = [taken EXCEPT ![p] = NoKey]
     /\ UNCHANGED <<code, age, step, knows, ttl, tokens, handed, late>>

\* consume_approved: getdel; what is not approved by now is put back.
Consume(p) ==
  /\ poll[p] = "approved"
  /\ key' = NoKey /\ left' = 0
  /\ CASE key.status = "approved" ->
            /\ handed' = Handed(key)
            /\ poll' = [poll EXCEPT ![p] = "idle"] /\ UNCHANGED taken
       [] key.status \in {"pending", "denied"} ->
            /\ poll' = [poll EXCEPT ![p] = "putback"]
            /\ taken' = [taken EXCEPT ![p] = key] /\ UNCHANGED handed
       [] OTHER -> poll' = [poll EXCEPT ![p] = "idle"] /\ UNCHANGED <<handed, taken>>
  /\ UNCHANGED <<code, age, step, knows, ttl, tokens, late>>

PutBack(p) ==
  /\ poll[p] = "putback" /\ taken[p].status # "approved"
  /\ key' = taken[p] /\ left' = Ttl
  /\ poll' = [poll EXCEPT ![p] = "idle"] /\ taken' = [taken EXCEPT ![p] = NoKey]
  /\ UNCHANGED <<code, age, step, knows, ttl, tokens, handed, late>>

-----------------------------------------------------------------------------

Tick ==
  /\ age < MaxAge
  /\ age' = age + 1
  /\ left' = IF left > 0 THEN left - 1 ELSE 0
  /\ key' = IF left > 1 THEN key ELSE NoKey
  /\ code' = (code /\ age' < Ttl)
  /\ UNCHANGED <<step, knows, ttl, poll, taken, tokens, handed, late>>

Next ==
  \/ \E d \in Deciding : Look(d) \/ Load(d) \/ MarkDenied(d) \/ DropCode(d)
  \/ \E a \in Approvals : Make(a) \/ ReadTtl(a) \/ MarkApproved(a)
  \/ \E p \in Polls : Poll(p) \/ Consume(p) \/ PutBack(p)
  \/ Tick

Spec == Init /\ [][Next]_vars

-----------------------------------------------------------------------------
(* Properties. *)

\* A token is handed out once, whatever polls race for it and whatever is decided
\* meanwhile ("One-shot read of an approved blob", utils/device_auth.py 198).
HandedOnce == \A a \in Approvals : handed[a] <= 1

\* An approval that began after a denial was recorded pairs nothing: the request stays
\* denied, also when a poll takes the denial out of the store and puts it back
\* (endpoints/device_auth.py 167-171, utils/device_auth.py 182-194, 204-214).
DenialStands == late \cap tokens = {}
=============================================================================
