----------------------- MODULE StreamingSessionProofs -----------------------
(***************************************************************************)
(* Proofs about StreamingSession, for every pool, every number of claims,  *)
(* teardowns and requests, and every number of restarts.                   *)
(*                                                                         *)
(* An update of one record is first restated field by field (Moved, Works, *)
(* Wrote); an action is then summarised by what it does to the requests,   *)
(* to the teardowns and to the keys; the invariants follow from those      *)
(* summaries.                                                              *)
(***************************************************************************)
EXTENDS StreamingSession, TLAPS

-----------------------------------------------------------------------------
(* The inductive invariant, by parts. *)

\* A request that has not won a container has none, one that is launching or
\* holding on to its claim has one, and it never walks past the pool.
ReqOK(p, a, i, h) ==
  /\ p \in {"idle", "try", "wait", "retry"} => i <= Len(Pool)
  /\ p \in {"idle", "try", "scan", "wait", "retry"} => a = None
  /\ p \in {"probe", "hydrate", "activate", "stamp"} \/ h # "off" => a \in Containers
  /\ i > 0

ReqInv == \A k \in Claims : ReqOK(req[k].pc, req[k].at, req[k].idx, req[k].hold)

\* Where every marker lands and no work outlasts its keepalive.
Guarded == {"sweep", "contention", "overrun"} \cap Env = {}

\* A teardown in flight has a container and, unless it is the sweep's, the
\* session it ends; the save-and-exit steps belong to an exit; a takeover, and
\* any teardown where every marker lands, works under its marker.
TaskOK(kd, p, a, o, tk, kp, w) ==
  /\ p # "idle" => a \in Containers /\ kd # "none"
  /\ kd = "abandoned" /\ p # "mark" => tk
  /\ Guarded /\ p \in {"quiesce", "collect", "drop"} => tk /\ kp = "ticking"
  /\ p # "idle" /\ kd # "sweep" => o \in Claims
  /\ p \in {"kill", "give", "let-go", "brief"} => kd = "exit"
  /\ kd = "sweep" => tk = FALSE
  /\ kd \in Env \cup {"none", "abandoned"}
  /\ p = "idle" => o = None /\ tk = FALSE /\ kp = "off" /\ w = None

TaskInv == \A t \in Tasks :
  TaskOK(task[t].kind, task[t].pc, task[t].at, task[t].of, task[t].token,
         task[t].keep, task[t].waiter)

\* The session a teardown ends is one that won its container.
OfInv == \A t \in Tasks : task[t].of # None => req[task[t].of].at # None

\* A claim awaits at most one teardown, and does nothing else meanwhile.
WaitInv == \A t \in Tasks : task[t].waiter # None =>
  /\ req[task[t].waiter].pc = "wait"
  /\ \A u \in Tasks : task[u].waiter = task[t].waiter => u = t

\* A request on a session has the container it found it on.
OpInv == \A o \in Ops : op[o].kind # "none" =>
  op[o].kind \in Env /\ op[o].at \in Containers /\ op[o].of \in Claims

\* A key names the claim that won that container, and a free key names none.
StoreInv == \A c \in Containers :
  /\ store[c].st = "free" => store[c].by = None
  /\ store[c].st # "free" => store[c].by \in Claims /\ req[store[c].by].at = c

\* A claim is drained at most once, by one teardown, and is nowhere after.
TokenInv == \A t \in Tasks : task[t].token =>
  /\ task[t].of \in Claims /\ req[task[t].of].at # None
  /\ \A c \in Containers : ~SameClaim(store[c], task[t].of)
  /\ \A u \in Tasks : task[u].token /\ task[u].of = task[t].of => u = t

\* Without the administrator's sweep a live marker reserves its container.
HeldInv == "sweep" \notin Env => ReservationHeld

IInv == /\ TypeOK /\ ReqInv /\ TaskInv /\ OfInv /\ WaitInv /\ OpInv /\ StoreInv
        /\ TokenInv /\ HeldInv

\* The initial state is in order.
LEMMA InitInv == Init => IInv
  BY NoneIsNoValue, PoolIsContainers, KindsAssumption, SwitchAssumption
  DEF Init, IInv, TypeOK, ReqInv, ReqOK, TaskInv, TaskOK, OfInv, WaitInv, OpInv,
      StoreInv, TokenInv, HeldInv, ReservationHeld, IdleReq, IdleTask, Teardown, IdleOp, Free, Entry, ReqState,
      TaskState, OpState

-----------------------------------------------------------------------------
(* Updates of a request's record, field by field. *)

ReqPcs == {"idle", "try", "scan", "wait", "retry", "probe", "hydrate", "activate",
           "stamp", "up", "over"}
Holds == {"off", "armed", "ticking"}

Moved(k, p, a, i, h) ==
  /\ req' \in [Claims -> ReqState]
  /\ req'[k].pc = p /\ req'[k].at = a /\ req'[k].idx = i /\ req'[k].hold = h
  /\ \A j \in Claims : j # k => req'[j] = req[j]

\* A request whose pc alone is assigned moves to that pc.
LEMMA MovePc ==
  ASSUME req \in [Claims -> ReqState], NEW k \in Claims, NEW p \in ReqPcs,
         req' = [req EXCEPT ![k].pc = p]
  PROVE  Moved(k, p, req[k].at, req[k].idx, req[k].hold)
  BY DEF ReqState, ReqPcs, Moved

\* A request that wins a container moves to its next pc and remembers the container.
LEMMA MoveAt ==
  ASSUME req \in [Claims -> ReqState], NEW k \in Claims, NEW p \in ReqPcs,
         NEW a \in Containers, req' = [req EXCEPT ![k].pc = p, ![k].at = a]
  PROVE  Moved(k, p, a, req[k].idx, req[k].hold)
  BY DEF ReqState, ReqPcs, Moved

\* A request whose pool position alone is assigned stays where it was.
LEMMA MoveIdx ==
  ASSUME req \in [Claims -> ReqState], NEW k \in Claims, NEW i \in Nat,
         req' = [req EXCEPT ![k].idx = i]
  PROVE  Moved(k, req[k].pc, req[k].at, i, req[k].hold)
  BY DEF ReqState, Moved

\* A request that starts over in the pool changes its pc and its position.
LEMMA MovePcIdx ==
  ASSUME req \in [Claims -> ReqState], NEW k \in Claims, NEW p \in ReqPcs,
         NEW i \in Nat, req' = [req EXCEPT ![k].pc = p, ![k].idx = i]
  PROVE  Moved(k, p, req[k].at, i, req[k].hold)
  BY DEF ReqState, ReqPcs, Moved

\* A request that arms or ends its launch keepalive changes its pc and its hold.
LEMMA MovePcHold ==
  ASSUME req \in [Claims -> ReqState], NEW k \in Claims, NEW p \in ReqPcs,
         NEW h \in Holds, req' = [req EXCEPT ![k].pc = p, ![k].hold = h]
  PROVE  Moved(k, p, req[k].at, req[k].idx, h)
<1> DEFINE q == [req[k] EXCEPT !.pc = p]
           r == [q EXCEPT !.hold = h]
<1>1. req' = [req EXCEPT ![k] = r]
  OBVIOUS
<1>2. /\ q \in ReqState /\ q.pc = p /\ q.at = req[k].at /\ q.idx = req[k].idx
      /\ q.hold = req[k].hold
  BY DEF ReqState, ReqPcs
<1> HIDE DEF q
<1>3. /\ r \in ReqState /\ r.pc = q.pc /\ r.at = q.at /\ r.idx = q.idx /\ r.hold = h
  BY <1>2 DEF ReqState, Holds
<1> HIDE DEF r
<1>4. /\ req' \in [Claims -> ReqState] /\ req'[k] = r
      /\ \A j \in Claims : j # k => req'[j] = req[j]
  BY <1>1, <1>3
<1> QED BY <1>2, <1>3, <1>4 DEF Moved

\* A tick of the launch keepalive changes the hold alone.
LEMMA MoveHold ==
  ASSUME req \in [Claims -> ReqState], NEW k \in Claims, NEW h \in Holds,
         req' = [req EXCEPT ![k].hold = h]
  PROVE  Moved(k, req[k].pc, req[k].at, req[k].idx, h)
  BY DEF ReqState, Moved, Holds

-----------------------------------------------------------------------------
(* Updates of a teardown's record, field by field. *)

Kinds == {"none", "release", "abandoned", "exit", "sweep"}
TaskPcs == {"idle", "mark", "kill", "give", "let-go", "brief", "reread", "quiesce",
            "collect", "drop"}

Works(t, kd, p, a, o, tk, kp, w) ==
  /\ task' \in [Tasks -> TaskState]
  /\ task'[t].kind = kd /\ task'[t].pc = p /\ task'[t].at = a /\ task'[t].of = o
  /\ task'[t].token = tk /\ task'[t].keep = kp /\ task'[t].waiter = w
  /\ \A u \in Tasks : u # t => task'[u] = task[u]

\* A teardown that begins has the record it was given and no marker.
LEMMA WorkBegin ==
  ASSUME task \in [Tasks -> TaskState], NEW t \in Tasks, NEW kd \in Kinds,
         NEW p \in TaskPcs, NEW a \in Containers, NEW o \in Claims \cup {None},
         NEW w \in Claims \cup {None}, task' = [task EXCEPT ![t] = Teardown(kd, p, a, o, w)]
  PROVE  Works(t, kd, p, a, o, FALSE, "off", w)
<1>1. Teardown(kd, p, a, o, w) \in TaskState
  BY DEF Teardown, TaskState, Kinds, TaskPcs
<1> QED BY <1>1 DEF Works, Teardown

\* A teardown whose pc alone is assigned keeps the rest of its record.
LEMMA WorkPc ==
  ASSUME task \in [Tasks -> TaskState], NEW t \in Tasks, NEW p \in TaskPcs,
         task' = [task EXCEPT ![t].pc = p]
  PROVE  Works(t, task[t].kind, p, task[t].at, task[t].of, task[t].token,
               task[t].keep, task[t].waiter)
  BY DEF TaskState, TaskPcs, Works

\* One field of a teardown's record set, for the updates of several.
LEMMA SetTaskPc ==
  ASSUME NEW r \in TaskState, NEW p \in TaskPcs
  PROVE  LET s == [r EXCEPT !.pc = p] IN
           /\ s \in TaskState /\ s.pc = p /\ s.kind = r.kind /\ s.at = r.at /\ s.of = r.of
           /\ s.token = r.token /\ s.keep = r.keep /\ s.waiter = r.waiter
  BY DEF TaskState, TaskPcs

\* Replacing the session of a teardown record keeps it a teardown record.
LEMMA SetTaskOf ==
  ASSUME NEW r \in TaskState, NEW o \in Claims \cup {None}
  PROVE  LET s == [r EXCEPT !.of = o] IN
           /\ s \in TaskState /\ s.pc = r.pc /\ s.kind = r.kind /\ s.at = r.at /\ s.of = o
           /\ s.token = r.token /\ s.keep = r.keep /\ s.waiter = r.waiter
  BY DEF TaskState

\* Replacing the keepalive of a teardown record keeps it a teardown record.
LEMMA SetTaskKeep ==
  ASSUME NEW r \in TaskState, NEW h \in Holds
  PROVE  LET s == [r EXCEPT !.keep = h] IN
           /\ s \in TaskState /\ s.pc = r.pc /\ s.kind = r.kind /\ s.at = r.at /\ s.of = r.of
           /\ s.token = r.token /\ s.keep = h /\ s.waiter = r.waiter
  BY DEF TaskState, Holds

\* Replacing the token of a teardown record keeps it a teardown record.
LEMMA SetTaskToken ==
  ASSUME NEW r \in TaskState
  PROVE  LET s == [r EXCEPT !.token = TRUE] IN
           /\ s \in TaskState /\ s.pc = r.pc /\ s.kind = r.kind /\ s.at = r.at /\ s.of = r.of
           /\ s.token = TRUE /\ s.keep = r.keep /\ s.waiter = r.waiter
  BY DEF TaskState

\* The sweep's second read changes the pc and the session of its teardown.
LEMMA WorkPcOf ==
  ASSUME task \in [Tasks -> TaskState], NEW t \in Tasks, NEW p \in TaskPcs,
         NEW o \in Claims \cup {None}, task' = [task EXCEPT ![t].pc = p, ![t].of = o]
  PROVE  Works(t, task[t].kind, p, task[t].at, o, task[t].token,
               task[t].keep, task[t].waiter)
<1> DEFINE q == [task[t] EXCEPT !.pc = p]
           r == [q EXCEPT !.of = o]
<1>1. task' = [task EXCEPT ![t] = r]
  OBVIOUS
<1>2. /\ q \in TaskState /\ q.pc = p /\ q.kind = task[t].kind /\ q.at = task[t].at
      /\ q.of = task[t].of /\ q.token = task[t].token /\ q.keep = task[t].keep
      /\ q.waiter = task[t].waiter
  BY SetTaskPc
<1> HIDE DEF q
<1>3. /\ r \in TaskState /\ r.pc = q.pc /\ r.kind = q.kind /\ r.at = q.at /\ r.of = o
      /\ r.token = q.token /\ r.keep = q.keep /\ r.waiter = q.waiter
  BY <1>2, SetTaskOf
<1> HIDE DEF r
<1>4. /\ task' \in [Tasks -> TaskState] /\ task'[t] = r
      /\ \A u \in Tasks : u # t => task'[u] = task[u]
  BY <1>1, <1>3
<1> QED BY <1>2, <1>3, <1>4 DEF Works

\* A marker that landed gives the teardown its token and its keepalive.
LEMMA WorkReserved ==
  ASSUME task \in [Tasks -> TaskState], NEW t \in Tasks, NEW p \in TaskPcs,
         task' = Reserved(t, p)
  PROVE  Works(t, task[t].kind, p, task[t].at, task[t].of, TRUE, "ticking",
               task[t].waiter)
<1> DEFINE q == [task[t] EXCEPT !.token = TRUE]
           r == [q EXCEPT !.keep = "ticking"]
           s == [r EXCEPT !.pc = p]
<1>1. task' = [task EXCEPT ![t] = s]
  BY DEF Reserved
<1>2. /\ q \in TaskState /\ q.pc = task[t].pc /\ q.kind = task[t].kind /\ q.at = task[t].at
      /\ q.of = task[t].of /\ q.token = TRUE /\ q.keep = task[t].keep
      /\ q.waiter = task[t].waiter
  BY SetTaskToken
<1> HIDE DEF q
<1>3. /\ r \in TaskState /\ r.pc = q.pc /\ r.kind = q.kind /\ r.at = q.at /\ r.of = q.of
      /\ r.token = q.token /\ r.keep = "ticking" /\ r.waiter = q.waiter
  BY <1>2, SetTaskKeep DEF Holds
<1> HIDE DEF r
<1>4. /\ s \in TaskState /\ s.pc = p /\ s.kind = r.kind /\ s.at = r.at /\ s.of = r.of
      /\ s.token = r.token /\ s.keep = r.keep /\ s.waiter = r.waiter
  BY <1>3, SetTaskPc
<1> HIDE DEF s
<1>5. /\ task' \in [Tasks -> TaskState] /\ task'[t] = s
      /\ \A u \in Tasks : u # t => task'[u] = task[u]
  BY <1>1, <1>4
<1> QED BY <1>2, <1>3, <1>4, <1>5 DEF Works

\* A marker that did not land leaves the teardown an armed keepalive and no token.
LEMMA WorkUnmarked ==
  ASSUME task \in [Tasks -> TaskState], NEW t \in Tasks, NEW p \in TaskPcs,
         task' = Unmarked(t, p)
  PROVE  Works(t, task[t].kind, p, task[t].at, task[t].of, task[t].token, "armed",
               task[t].waiter)
<1> DEFINE q == [task[t] EXCEPT !.keep = "armed"]
           r == [q EXCEPT !.pc = p]
<1>1. task' = [task EXCEPT ![t] = r]
  BY DEF Unmarked
<1>2. /\ q \in TaskState /\ q.pc = task[t].pc /\ q.kind = task[t].kind /\ q.at = task[t].at
      /\ q.of = task[t].of /\ q.token = task[t].token /\ q.keep = "armed"
      /\ q.waiter = task[t].waiter
  BY SetTaskKeep DEF Holds
<1> HIDE DEF q
<1>3. /\ r \in TaskState /\ r.pc = p /\ r.kind = q.kind /\ r.at = q.at /\ r.of = q.of
      /\ r.token = q.token /\ r.keep = q.keep /\ r.waiter = q.waiter
  BY <1>2, SetTaskPc
<1> HIDE DEF r
<1>4. /\ task' \in [Tasks -> TaskState] /\ task'[t] = r
      /\ \A u \in Tasks : u # t => task'[u] = task[u]
  BY <1>1, <1>3
<1> QED BY <1>2, <1>3, <1>4 DEF Works

\* A tick of the reservation's keepalive changes the keepalive alone.
LEMMA WorkKeep ==
  ASSUME task \in [Tasks -> TaskState], NEW t \in Tasks, NEW h \in Holds,
         task' = [task EXCEPT ![t].keep = h]
  PROVE  Works(t, task[t].kind, task[t].pc, task[t].at, task[t].of, task[t].token, h,
               task[t].waiter)
  BY DEF TaskState, Holds, Works

\* A teardown that ends leaves an idle slot.
LEMMA WorkDone ==
  ASSUME task \in [Tasks -> TaskState], NEW t \in Tasks,
         task' = [task EXCEPT ![t] = IdleTask]
  PROVE  Works(t, "none", "idle", None, None, FALSE, "off", None)
  BY DEF TaskState, Works, IdleTask, Teardown


-----------------------------------------------------------------------------
(* Updates of a key. *)

\* What the free key, a session and a drain marker are, as values of a key.
LEMMA EntryFacts ==
  /\ Free \in Entry /\ Free.st = "free" /\ Free.by = None
  /\ \A k \in Claims :
       /\ Session(k) \in Entry /\ Session(k).st = "claim" /\ Session(k).by = k
       /\ Marker(k) \in Entry /\ Marker(k).st = "drain" /\ Marker(k).by = k
  BY DEF Free, Session, Marker, Entry

\* A merge or a restamp changes neither the kind of entry nor its holder.
LEMMA EntryUpdates ==
  ASSUME NEW e \in Entry, NEW k \in Claims
  PROVE  /\ Merged(e, k) \in Entry /\ Merged(e, k).st = e.st /\ Merged(e, k).by = e.by
         /\ Restamped(e) \in Entry /\ Restamped(e).st = e.st /\ Restamped(e).by = e.by
<1>1. /\ Merged(e, k) \in Entry /\ Merged(e, k).st = e.st /\ Merged(e, k).by = e.by
  <2> DEFINE d == [e EXCEPT !.ttl = "full"]
  <2>1. d \in Entry /\ d.st = e.st /\ d.by = e.by
    BY DEF Entry
  <2>2. Merged(e, k) = [d EXCEPT !.merged = @ \cup {k}]
    BY DEF Merged, Entry
  <2> HIDE DEF d
  <2> QED BY <2>1, <2>2 DEF Entry
<1>2. /\ Restamped(e) \in Entry /\ Restamped(e).st = e.st /\ Restamped(e).by = e.by
  <2> DEFINE d == [e EXCEPT !.ttl = "full"]
  <2>1. d \in Entry /\ d.st = e.st /\ d.by = e.by
    BY DEF Entry
  <2>2. Restamped(e) = [d EXCEPT !.fresh = TRUE]
    BY DEF Restamped
  <2> HIDE DEF d
  <2> QED BY <2>1, <2>2 DEF Entry
<1> QED BY <1>1, <1>2

Wrote(c, e) ==
  /\ store' \in [Containers -> Entry]
  /\ store'[c] = e
  /\ \A d \in Containers : d # c => store'[d] = store[d]

\* A plain write leaves its value at the key and the other keys alone.
LEMMA PutWrote ==
  ASSUME store \in [Containers -> Entry], NEW c \in Containers, NEW e \in Entry, Put(c, e)
  PROVE  Wrote(c, e)
  BY DEF Put, Wrote

\* A compare-and-set either writes its value or changes nothing.
LEMMA CasWrote ==
  ASSUME store \in [Containers -> Entry], NEW c \in Containers, NEW e \in Entry,
         NEW condition \in BOOLEAN, Cas(c, condition, e)
  PROVE  (condition /\ Wrote(c, e)) \/ (~condition /\ store' = store)
<1>1. CASE condition
  <2>1. store' = [store EXCEPT ![c] = e]
    BY <1>1, Zenon DEF Cas
  <2>2. Wrote(c, e)
    BY <2>1 DEF Wrote
  <2> QED BY <1>1, <2>2, Zenon
<1>2. CASE ~condition
  <2>1. store' = store
    BY <1>2, Zenon DEF Cas
  <2> QED BY <1>2, <2>1, Zenon
<1> QED BY <1>1, <1>2, Zenon

\* A container never leaves the claim that won it.
AtsKept == \A k \in Claims : req'[k].at = req[k].at

Elsewhere(c) == \A d \in Containers : d # c =>
  store'[d].st = store[d].st /\ store'[d].by = store[d].by

\* What a step does to the keys: nothing that matters to who holds what; or
\* the key of c is won by k, drained, given back, or cleared of a marker.
Quiet == \A c \in Containers : store'[c].st = store[c].st /\ store'[c].by = store[c].by

Took(c, k) ==
  /\ store[c].st = "free" /\ store'[c].st = "claim" /\ store'[c].by = k
  /\ req[k].at = None /\ req'[k].at = c
  /\ \A j \in Claims : j # k => req'[j].at = req[j].at
  /\ Elsewhere(c)

Drained(c) ==
  /\ store[c].st = "claim" /\ store'[c].st = "drain" /\ store'[c].by = store[c].by
  /\ Elsewhere(c)

Vacated(c) ==
  /\ store[c].st # "free" /\ store'[c].st = "free" /\ store'[c].by = None
  /\ Elsewhere(c)

KeyStep ==
  /\ store' \in [Containers -> Entry]
  /\ \/ AtsKept /\ Quiet
     \/ \E c \in Containers, k \in Claims : Took(c, k)
     \/ AtsKept /\ \E c \in Containers : Drained(c) \/ Vacated(c)

DrainsKept == \A c \in Containers : store[c].st = "drain" =>
  store'[c].st = "drain" /\ store'[c].by = store[c].by

\* A step that writes no key is quiet.
LEMMA Unwritten ==
  ASSUME store \in [Containers -> Entry], UNCHANGED store, AtsKept
  PROVE  KeyStep /\ DrainsKept
  BY DEF KeyStep, Quiet, DrainsKept

\* A write that keeps an entry's kind and holder is quiet.
LEMMA Rewritten ==
  ASSUME store \in [Containers -> Entry], NEW c \in Containers, NEW e, Wrote(c, e), AtsKept,
         e.st = store[c].st, e.by = store[c].by
  PROVE  KeyStep /\ DrainsKept
<1>1. Quiet
  BY DEF Quiet, Wrote
<1> QED BY <1>1 DEF KeyStep, Quiet, DrainsKept, Wrote

\* Deleting the key of a session vacates its container.
LEMMA Given ==
  ASSUME store \in [Containers -> Entry], NEW c \in Containers, Wrote(c, Free), AtsKept,
         store[c].st = "claim"
  PROVE  KeyStep /\ DrainsKept
<1>1. Vacated(c)
  BY EntryFacts DEF Vacated, Wrote, Elsewhere
<1> QED BY <1>1 DEF KeyStep, Vacated, DrainsKept, Wrote, Elsewhere

\* Replacing a session by its own drain marker begins a drain.
LEMMA Marked ==
  ASSUME store \in [Containers -> Entry], NEW c \in Containers, NEW k \in Claims,
         Wrote(c, Marker(k)), AtsKept, SameClaim(store[c], k)
  PROVE  KeyStep /\ DrainsKept /\ Drained(c)
<1>1. Drained(c)
  BY EntryFacts DEF Drained, Wrote, Elsewhere, SameClaim
<1> QED BY <1>1 DEF KeyStep, Drained, DrainsKept, Wrote, Elsewhere

\* Writing the session of a claim to a free key hands the container over.
LEMMA Won ==
  ASSUME store \in [Containers -> Entry], NEW c \in Containers, NEW k \in Claims,
         Wrote(c, Session(k)), store[c].st = "free", req[k].at = None, req'[k].at = c,
         \A j \in Claims : j # k => req'[j].at = req[j].at
  PROVE  KeyStep /\ DrainsKept
<1>1. Took(c, k)
  BY EntryFacts DEF Took, Wrote, Elsewhere
<1> QED BY <1>1 DEF KeyStep, Took, DrainsKept, Wrote, Elsewhere

-----------------------------------------------------------------------------
(* From what a step does to the records and the keys to the invariant. *)

\* A request record in order after its move leaves all request records in order.
LEMMA MovedInv ==
  ASSUME ReqInv, NEW k \in Claims, NEW p, NEW a, NEW i, NEW h, Moved(k, p, a, i, h),
         ReqOK(p, a, i, h)
  PROVE  req' \in [Claims -> ReqState] /\ ReqInv'
  BY DEF ReqInv, ReqOK, Moved

\* A move that keeps the container it won keeps what every claim won.
LEMMA MovedAts ==
  ASSUME NEW k \in Claims, NEW p, NEW i, NEW h, Moved(k, p, req[k].at, i, h)
  PROVE  AtsKept
  BY DEF Moved, AtsKept

\* A teardown record in order after its step leaves all teardown records in order.
LEMMA WorksInv ==
  ASSUME TaskInv, NEW t \in Tasks, NEW kd, NEW p, NEW a, NEW o, NEW tk, NEW kp, NEW w,
         Works(t, kd, p, a, o, tk, kp, w), TaskOK(kd, p, a, o, tk, kp, w)
  PROVE  task' \in [Tasks -> TaskState] /\ TaskInv'
  BY DEF TaskInv, TaskOK, Works

\* A teardown's session is the one it had, or one that a key names.
OfsKept == \A t \in Tasks :
  \/ task'[t].of = task[t].of
  \/ task'[t].of = None
  \/ \E c \in Containers : store[c].st # "free" /\ task'[t].of = store[c].by

\* No marker lands, no keepalive starts, nobody begins to wait.
TokensKept == \A t \in Tasks : task'[t].token => task[t].token /\ task'[t].of = task[t].of

TicksKept == \A t \in Tasks : task'[t].token /\ task'[t].keep = "ticking" =>
  /\ task[t].token /\ task[t].keep = "ticking"
  /\ task'[t].at = task[t].at /\ task'[t].of = task[t].of

WaitersKept == \A t \in Tasks : task'[t].waiter \in {task[t].waiter, None}

WaitsKept == \A k \in Claims : req[k].pc = "wait" => req'[k].pc = "wait"

\* Whoever a key names has won a container, after every allowed change of keys.
LEMMA StoreKept ==
  ASSUME TypeOK, StoreInv, KeyStep, req' \in [Claims -> ReqState]
  PROVE  StoreInv'
<1>1. CASE AtsKept /\ Quiet
  BY <1>1 DEF AtsKept, Quiet, StoreInv, TypeOK
<1>2. CASE \E c \in Containers, k \in Claims : Took(c, k)
  BY <1>2, NoneIsNoValue DEF Took, Elsewhere, StoreInv, TypeOK
<1>3. CASE AtsKept /\ \E c \in Containers : Drained(c) \/ Vacated(c)
  BY <1>3 DEF AtsKept, Drained, Vacated, Elsewhere, StoreInv, TypeOK
<1> QED BY <1>1, <1>2, <1>3 DEF KeyStep

\* Whoever a teardown works for has won a container, after every allowed step.
LEMMA OfKept ==
  ASSUME TypeOK, StoreInv, OfInv, KeyStep, OfsKept, task' \in [Tasks -> TaskState]
  PROVE  OfInv'
<1>1. \A k \in Claims : req[k].at # None => req'[k].at # None
  BY DEF KeyStep, AtsKept, Took
<1>2. SUFFICES ASSUME NEW t \in Tasks, task'[t].of # None
               PROVE  req'[task'[t].of].at # None
  BY DEF OfInv
<1>3. task'[t].of \in Claims
  BY <1>2 DEF TaskState
<1>4. req[task'[t].of].at # None
  BY <1>2, NoneIsNoValue DEF OfsKept, OfInv, StoreInv
<1> QED BY <1>1, <1>3, <1>4

\* A waiter still waits while nobody new begins to wait.
LEMMA WaitKept ==
  ASSUME TypeOK, WaitInv, WaitersKept, WaitsKept
  PROVE  WaitInv'
<1>1. \A t \in Tasks : task[t].waiter \in Claims \cup {None}
  BY DEF TypeOK, TaskState
<1> QED BY <1>1 DEF WaitInv, WaitersKept, WaitsKept

\* A token's claim stays off the keys, and no two teardowns come to share it.
LEMMA TokenKept ==
  ASSUME TypeOK, TokenInv, KeyStep, TokensKept
  PROVE  TokenInv'
<1>1. \A k \in Claims : req[k].at # None => req'[k].at # None
  BY DEF KeyStep, AtsKept, Took
<1>2. ASSUME NEW k \in Claims, req[k].at # None, \A c \in Containers : ~SameClaim(store[c], k)
      PROVE  \A c \in Containers : ~SameClaim(store'[c], k)
  BY <1>2 DEF KeyStep, Quiet, Took, Drained, Vacated, Elsewhere, SameClaim
<1> QED BY <1>1, <1>2 DEF TokenInv, TokensKept

\* Reservations survive a step that leaves drain markers where they are.
LEMMA HeldKept ==
  ASSUME TypeOK, TaskInv, HeldInv, TicksKept, DrainsKept
  PROVE  HeldInv'
<1>1. \A t \in Tasks : task[t].keep = "ticking" => task[t].at \in Containers
  BY DEF TaskInv, TaskOK
<1> QED BY <1>1 DEF HeldInv, ReservationHeld, HoldsToken, TicksKept, DrainsKept

\* The conjuncts of the invariant, once each is re-established.
LEMMA Combine ==
  ASSUME IInv, req' \in [Claims -> ReqState], ReqInv', task' \in [Tasks -> TaskState], TaskInv',
         op' \in [Ops -> OpState], OpInv', crashes' \in 0..MaxCrashes, KeyStep, OfsKept,
         WaitInv', TokenInv', HeldInv'
  PROVE  IInv' /\ KeyStep
  BY StoreKept, OfKept DEF IInv, TypeOK, KeyStep

\* A step that marks nothing, wakes nobody and clears no marker.
LEMMA Plain ==
  ASSUME IInv, req' \in [Claims -> ReqState], ReqInv', WaitsKept,
         task' \in [Tasks -> TaskState], TaskInv', OfsKept, TokensKept, TicksKept, WaitersKept,
         op' \in [Ops -> OpState], OpInv', crashes' \in 0..MaxCrashes, KeyStep, DrainsKept
  PROVE  IInv' /\ KeyStep
  BY Combine, WaitKept, TokenKept, HeldKept DEF IInv

\* A step of a request alone.
LEMMA PlainReq ==
  ASSUME IInv, NEW k \in Claims, NEW p, NEW a, NEW i, NEW h, Moved(k, p, a, i, h),
         ReqOK(p, a, i, h), req[k].pc # "wait" \/ p = "wait",
         UNCHANGED <<task, op, crashes>>, KeyStep, DrainsKept
  PROVE  IInv' /\ KeyStep
<1>1. req' \in [Claims -> ReqState] /\ ReqInv'
  BY MovedInv DEF IInv
<1>2. WaitsKept
  BY DEF WaitsKept, Moved
<1>3. OfsKept /\ TokensKept /\ TicksKept /\ WaitersKept
  BY DEF OfsKept, TokensKept, TicksKept, WaitersKept
<1>4. /\ task' \in [Tasks -> TaskState] /\ TaskInv'
      /\ op' \in [Ops -> OpState] /\ OpInv' /\ crashes' \in 0..MaxCrashes
  BY DEF IInv, TypeOK, TaskInv, OpInv
<1> QED BY <1>1, <1>2, <1>3, <1>4, Plain

\* A step of a teardown alone that marks nothing.
LEMMA PlainTask ==
  ASSUME IInv, NEW t \in Tasks, NEW kd, NEW p, NEW a, NEW o, NEW tk, NEW kp, NEW w,
         Works(t, kd, p, a, o, tk, kp, w), TaskOK(kd, p, a, o, tk, kp, w),
         w \in {task[t].waiter, None}, tk => task[t].token /\ o = task[t].of,
         tk /\ kp = "ticking" => task[t].keep = "ticking" /\ a = task[t].at,
         o = task[t].of \/ o = None \/ \E c \in Containers : store[c].st # "free" /\ o = store[c].by,
         UNCHANGED <<req, op, crashes>>, KeyStep, DrainsKept
  PROVE  IInv' /\ KeyStep
<1>1. task' \in [Tasks -> TaskState] /\ TaskInv'
  BY WorksInv DEF IInv
<1>2. OfsKept /\ TokensKept /\ TicksKept /\ WaitersKept
  BY DEF OfsKept, TokensKept, TicksKept, WaitersKept, Works
<1>3. WaitsKept
  BY DEF WaitsKept
<1>4. /\ req' \in [Claims -> ReqState] /\ ReqInv'
      /\ op' \in [Ops -> OpState] /\ OpInv' /\ crashes' \in 0..MaxCrashes
  BY DEF IInv, TypeOK, ReqInv, OpInv
<1> QED BY <1>1, <1>2, <1>3, <1>4, Plain

-----------------------------------------------------------------------------
(* The steps of a claim request. *)

\* What the records of the request kinds in order amount to.
LEMMA ReqFacts ==
  ASSUME IInv, NEW k \in Claims
  PROVE  /\ store \in [Containers -> Entry] /\ req \in [Claims -> ReqState]
         /\ req[k].pc \in ReqPcs /\ req[k].at \in Containers \cup {None}
         /\ req[k].idx \in Nat /\ req[k].hold \in Holds
         /\ ReqOK(req[k].pc, req[k].at, req[k].idx, req[k].hold)
  BY DEF IInv, TypeOK, ReqInv, ReqState, ReqPcs, Holds

\* Every position of the pool names a container.
LEMMA PoolFact ==
  ASSUME NEW i \in Nat, i > 0, i <= Len(Pool)
  PROVE  Pool[i] \in Containers
  BY PoolIsContainers

\* ArriveClaim keeps the invariant.
LEMMA ArriveInv ==
  ASSUME IInv, NEW k \in Claims, ArriveClaim(k)
  PROVE  IInv' /\ KeyStep
<1>1. Moved(k, "try", req[k].at, req[k].idx, req[k].hold)
  BY ReqFacts, MovePc DEF ArriveClaim, ReqGoto, ReqPcs
<1>2. ReqOK("try", req[k].at, req[k].idx, req[k].hold)
  BY ReqFacts, PoolIsContainers DEF ReqOK, ArriveClaim
<1>3. KeyStep /\ DrainsKept
  BY ReqFacts, <1>1, MovedAts, Unwritten DEF ArriveClaim
<1> QED BY <1>1, <1>2, <1>3, PlainReq DEF ArriveClaim

\* A claim that wins the free container c.
LEMMA WinInv ==
  ASSUME IInv, NEW k \in Claims, NEW c \in Containers, NEW p \in {"probe", "activate"},
         store[c].st = "free", Put(c, Session(k)), req[k].at = None, req[k].pc # "wait",
         req' = [req EXCEPT ![k].pc = p, ![k].at = c], UNCHANGED <<task, op, crashes>>
  PROVE  IInv' /\ KeyStep
<1>1. Moved(k, p, c, req[k].idx, req[k].hold)
  BY ReqFacts, MoveAt DEF ReqPcs
<1>2. ReqOK(p, c, req[k].idx, req[k].hold)
  BY ReqFacts DEF ReqOK
<1>3. Wrote(c, Session(k))
  BY ReqFacts, EntryFacts, PutWrote
<1>4. KeyStep /\ DrainsKept
  BY <1>1, <1>3, ReqFacts, Won DEF Moved
<1> QED BY <1>1, <1>2, <1>4, PlainReq

\* A claim that moves on to another place of its walk.
LEMMA WalkInv ==
  ASSUME IInv, NEW k \in Claims, NEW p, NEW i, Moved(k, p, req[k].at, i, req[k].hold),
         ReqOK(p, req[k].at, i, req[k].hold), req[k].pc # "wait",
         UNCHANGED <<store, task, op, crashes>>
  PROVE  IInv' /\ KeyStep
<1>1. KeyStep /\ DrainsKept
  BY ReqFacts, MovedAts, Unwritten
<1> QED BY <1>1, PlainReq

\* Walking on to the next candidate of the pool is a move in order.
LEMMA NextCandidateMoves ==
  ASSUME IInv, NEW k \in Claims, req' = NextCandidate(k)
  PROVE  Moved(k, "scan", req[k].at, req[k].idx + 1, req[k].hold)
<1>1. req' = [req EXCEPT ![k].pc = "scan", ![k].idx = req[k].idx + 1]
  BY ReqFacts DEF NextCandidate
<1>2. req[k].idx + 1 \in Nat
  BY ReqFacts
<1> QED BY <1>1, <1>2, ReqFacts, MovePcIdx DEF ReqPcs

\* TryClaim (SET NX) keeps the invariant.
LEMMA TryInv ==
  ASSUME IInv, NEW k \in Claims, TryClaim(k)
  PROVE  IInv' /\ KeyStep
<1> DEFINE c == Pool[req[k].idx]
<1>1. req[k].pc = "try" /\ req[k].at = None /\ req[k].idx > 0 /\ req[k].idx <= Len(Pool)
  BY ReqFacts DEF TryClaim, ReqOK
<1>2. c \in Containers
  BY <1>1, ReqFacts, PoolFact
<1>3. CASE store[c].st = "free"
  BY <1>1, <1>2, <1>3, WinInv DEF TryClaim
<1>4. CASE store[c].st # "free" /\ req[k].idx < Len(Pool)
  <2>1. req' = [req EXCEPT ![k].idx = req[k].idx + 1]
    BY <1>4 DEF TryClaim
  <2>2. req[k].idx + 1 \in Nat
    BY ReqFacts
  <2>3. Moved(k, req[k].pc, req[k].at, req[k].idx + 1, req[k].hold)
    BY <2>1, <2>2, ReqFacts, MoveIdx
  <2>4. ReqOK(req[k].pc, req[k].at, req[k].idx + 1, req[k].hold)
    BY <1>1, <1>4, ReqFacts, PoolIsContainers DEF ReqOK
  <2> QED BY <1>1, <1>4, <2>3, <2>4, WalkInv DEF TryClaim
<1>5. CASE store[c].st # "free" /\ ~(req[k].idx < Len(Pool))
  <2>1. req' = [req EXCEPT ![k].pc = "scan", ![k].idx = 1]
    BY <1>5 DEF TryClaim
  <2>2. Moved(k, "scan", req[k].at, 1, req[k].hold)
    BY <2>1, ReqFacts, MovePcIdx DEF ReqPcs
  <2>3. ReqOK("scan", req[k].at, 1, req[k].hold)
    BY <1>1, ReqFacts DEF ReqOK
  <2> QED BY <1>1, <1>5, <2>2, <2>3, WalkInv DEF TryClaim
<1> QED BY <1>3, <1>4, <1>5

\* RetryClaim (SET NX after a takeover) keeps the invariant.
LEMMA RetryInv ==
  ASSUME IInv, NEW k \in Claims, RetryClaim(k)
  PROVE  IInv' /\ KeyStep
<1> DEFINE c == Pool[req[k].idx]
<1>1. req[k].pc = "retry" /\ req[k].at = None /\ req[k].idx > 0 /\ req[k].idx <= Len(Pool)
  BY ReqFacts DEF RetryClaim, ReqOK
<1>2. c \in Containers
  BY <1>1, ReqFacts, PoolFact
<1>3. CASE store[c].st = "free"
  BY <1>1, <1>2, <1>3, WinInv DEF RetryClaim
<1>4. CASE store[c].st # "free"
  <2>1. Moved(k, "scan", req[k].at, req[k].idx + 1, req[k].hold)
    BY <1>4, NextCandidateMoves DEF RetryClaim
  <2>2. ReqOK("scan", req[k].at, req[k].idx + 1, req[k].hold)
    BY <1>1, ReqFacts DEF ReqOK
  <2> QED BY <1>1, <1>4, <2>1, <2>2, WalkInv DEF RetryClaim
<1> QED BY <1>3, <1>4

\* RefuseClaim (409) keeps the invariant.
LEMMA RefuseInv ==
  ASSUME IInv, NEW k \in Claims, RefuseClaim(k)
  PROVE  IInv' /\ KeyStep
<1>1. Moved(k, "over", req[k].at, req[k].idx, req[k].hold)
  BY ReqFacts, MovePc DEF RefuseClaim, ReqGoto, ReqPcs
<1>2. ReqOK("over", req[k].at, req[k].idx, req[k].hold)
  BY ReqFacts DEF ReqOK
<1> QED BY <1>1, <1>2, WalkInv DEF RefuseClaim

\* ClaimDesktop (claim_desktop_session) keeps the invariant.
LEMMA DesktopInv ==
  ASSUME IInv, NEW k \in Claims, NEW c \in Containers, ClaimDesktop(k, c)
  PROVE  IInv' /\ KeyStep
<1>1. req[k].pc = "idle" /\ req[k].at = None
  BY ReqFacts DEF ClaimDesktop, ReqOK
<1>2. CASE store[c].st = "free"
  BY <1>1, <1>2, WinInv DEF ClaimDesktop
<1>3. CASE store[c].st # "free"
  <2>1. Moved(k, "over", req[k].at, req[k].idx, req[k].hold)
    BY <1>3, ReqFacts, MovePc DEF ClaimDesktop, ReqGoto, ReqPcs
  <2>2. ReqOK("over", req[k].at, req[k].idx, req[k].hold)
    BY ReqFacts DEF ReqOK
  <2> QED BY <1>1, <1>3, <2>1, <2>2, WalkInv DEF ClaimDesktop
<1> QED BY <1>2, <1>3

\* A launching claim that leaves its key, or who holds it, alone.
LEMMA LaunchingInv ==
  ASSUME IInv, NEW k \in Claims, NEW p, NEW h, Moved(k, p, req[k].at, req[k].idx, h),
         ReqOK(p, req[k].at, req[k].idx, h), req[k].pc # "wait", NEW c \in Containers,
         NEW e, store' = store \/ (Wrote(c, e) /\ e.st = store[c].st /\ e.by = store[c].by),
         UNCHANGED <<task, op, crashes>>
  PROVE  IInv' /\ KeyStep
<1>1. KeyStep /\ DrainsKept
  BY ReqFacts, MovedAts, Unwritten, Rewritten
<1> QED BY <1>1, PlainReq

\* SettleCard (_settle_memory_card) keeps the invariant.
LEMMA SettleInv ==
  ASSUME IInv, NEW k \in Claims, SettleCard(k)
  PROVE  IInv' /\ KeyStep
<1> DEFINE c == req[k].at
<1>1. req[k].pc = "probe" /\ c \in Containers
  BY ReqFacts DEF SettleCard, ReqOK
<1>2. Moved(k, "hydrate", req[k].at, req[k].idx, req[k].hold)
  BY ReqFacts, MovePc DEF SettleCard, ReqGoto, ReqPcs
<1>3. ReqOK("hydrate", req[k].at, req[k].idx, req[k].hold)
  BY <1>1, ReqFacts DEF ReqOK
<1>4. /\ Merged(store[c], k) \in Entry /\ Merged(store[c], k).st = store[c].st
      /\ Merged(store[c], k).by = store[c].by
  BY <1>1, ReqFacts, EntryUpdates
<1>5. store' = store \/ Wrote(c, Merged(store[c], k))
  BY <1>1, <1>4, ReqFacts, CasWrote DEF SettleCard
<1> QED BY <1>1, <1>2, <1>3, <1>4, <1>5, LaunchingInv DEF SettleCard

\* Hydrated (_hydrate_saves) keeps the invariant.
LEMMA HydratedInv ==
  ASSUME IInv, NEW k \in Claims, Hydrated(k)
  PROVE  IInv' /\ KeyStep
<1>1. req[k].pc = "hydrate" /\ req[k].at \in Containers
  BY ReqFacts DEF Hydrated, ReqOK
<1>2. Moved(k, "activate", req[k].at, req[k].idx, "armed")
  BY ReqFacts, MovePcHold DEF Hydrated, ReqPcs, Holds
<1>3. ReqOK("activate", req[k].at, req[k].idx, "armed")
  BY <1>1, ReqFacts DEF ReqOK
<1> QED BY <1>1, <1>2, <1>3, LaunchingInv DEF Hydrated

\* Activate (run_launch) keeps the invariant.
LEMMA ActivateInv ==
  ASSUME IInv, NEW k \in Claims, Activate(k)
  PROVE  IInv' /\ KeyStep
<1>1. req[k].pc = "activate" /\ req[k].at \in Containers
  BY ReqFacts DEF Activate, ReqOK
<1>2. Moved(k, "stamp", req[k].at, req[k].idx, "off")
  BY ReqFacts, MovePcHold DEF Activate, ReqPcs, Holds
<1>3. ReqOK("stamp", req[k].at, req[k].idx, "off")
  BY <1>1, ReqFacts DEF ReqOK
<1> QED BY <1>1, <1>2, <1>3, LaunchingInv DEF Activate

\* StampLaunched (stamp_launched) keeps the invariant.
LEMMA StampInv ==
  ASSUME IInv, NEW k \in Claims, StampLaunched(k)
  PROVE  IInv' /\ KeyStep
<1> DEFINE c == req[k].at
<1>1. req[k].pc = "stamp" /\ c \in Containers
  BY ReqFacts DEF StampLaunched, ReqOK
<1>2. Moved(k, "up", req[k].at, req[k].idx, req[k].hold)
  BY ReqFacts, MovePc DEF StampLaunched, ReqGoto, ReqPcs
<1>3. ReqOK("up", req[k].at, req[k].idx, req[k].hold)
  BY <1>1, ReqFacts DEF ReqOK
<1>4. /\ Merged(store[c], k) \in Entry /\ Merged(store[c], k).st = store[c].st
      /\ Merged(store[c], k).by = store[c].by
  BY <1>1, ReqFacts, EntryUpdates
<1>5. store' = store \/ Wrote(c, Merged(store[c], k))
  BY <1>1, <1>4, ReqFacts, CasWrote DEF StampLaunched, Contended, SameClaim
<1> QED BY <1>1, <1>2, <1>3, <1>4, <1>5, LaunchingInv DEF StampLaunched

\* AbortClaim (abort_claim) keeps the invariant.
LEMMA AbortInv ==
  ASSUME IInv, NEW k \in Claims, AbortClaim(k)
  PROVE  IInv' /\ KeyStep
<1> DEFINE c == req[k].at
<1>1. req[k].pc \in {"probe", "hydrate", "activate"} /\ c \in Containers
  BY ReqFacts DEF AbortClaim, ReqOK
<1>2. Moved(k, "over", req[k].at, req[k].idx, "off")
  BY ReqFacts, MovePcHold DEF AbortClaim, ReqPcs, Holds
<1>3. ReqOK("over", req[k].at, req[k].idx, "off")
  BY ReqFacts DEF ReqOK
<1>4. store' = store \/ (store[c].st = "claim" /\ Wrote(c, Free))
  BY <1>1, ReqFacts, EntryFacts, CasWrote DEF AbortClaim, Contended, SameClaim
<1>5. KeyStep /\ DrainsKept
  BY <1>1, <1>2, <1>4, ReqFacts, MovedAts, Unwritten, Given
<1> QED BY <1>1, <1>2, <1>3, <1>5, PlainReq DEF AbortClaim

\* HoldClaim (hold_session_claim) keeps the invariant.
LEMMA HoldInv ==
  ASSUME IInv, NEW k \in Claims, HoldClaim(k)
  PROVE  IInv' /\ KeyStep
<1> DEFINE c == req[k].at
           h == IF SameClaim(store[c], k) THEN "ticking" ELSE "off"
<1>1. c \in Containers
  BY ReqFacts DEF HoldClaim, ReqOK
<1>2. h \in {"ticking", "off"}
  OBVIOUS
<1>3. req' = [req EXCEPT ![k].hold = h]
  BY DEF HoldClaim
<1> HIDE DEF h
<1>4. Moved(k, req[k].pc, req[k].at, req[k].idx, h)
  BY <1>2, <1>3, ReqFacts, MoveHold DEF Holds
<1>5. ReqOK(req[k].pc, req[k].at, req[k].idx, h)
  BY <1>1, <1>2, ReqFacts DEF ReqOK
<1>6. /\ Restamped(store[c]) \in Entry /\ Restamped(store[c]).st = store[c].st
      /\ Restamped(store[c]).by = store[c].by
  BY <1>1, ReqFacts, EntryUpdates
<1>7. store' = store \/ Wrote(c, Restamped(store[c]))
  BY <1>1, <1>6, ReqFacts, CasWrote DEF HoldClaim, SameClaim
<1>8. KeyStep /\ DrainsKept
  BY <1>1, <1>4, <1>6, <1>7, ReqFacts, MovedAts, Unwritten, Rewritten
<1> QED BY <1>4, <1>5, <1>8, PlainReq DEF HoldClaim

\* HoldOverruns (_HOLD_CEILING_SECONDS) keeps the invariant.
LEMMA HoldOverrunsInv ==
  ASSUME IInv, NEW k \in Claims, HoldOverruns(k)
  PROVE  IInv' /\ KeyStep
<1>1. Moved(k, req[k].pc, req[k].at, req[k].idx, "off")
  BY ReqFacts, MoveHold DEF HoldOverruns, Holds
<1>2. ReqOK(req[k].pc, req[k].at, req[k].idx, "off")
  BY ReqFacts DEF ReqOK
<1>3. KeyStep /\ DrainsKept
  BY <1>1, ReqFacts, MovedAts, Unwritten DEF HoldOverruns
<1> QED BY <1>1, <1>2, <1>3, PlainReq DEF HoldOverruns

-----------------------------------------------------------------------------
(* The steps of a request on a live session. *)

\* A step of a session request that only rewrites an entry keeps the invariant.
LEMMA PlainOp ==
  ASSUME IInv, op' \in [Ops -> OpState], OpInv', UNCHANGED <<req, task, crashes>>,
         NEW c \in Containers, NEW e,
         store' = store \/ (Wrote(c, e) /\ e.st = store[c].st /\ e.by = store[c].by)
  PROVE  IInv' /\ KeyStep
<1>1. /\ store \in [Containers -> Entry]
      /\ req' \in [Claims -> ReqState] /\ ReqInv'
      /\ task' \in [Tasks -> TaskState] /\ TaskInv' /\ crashes' \in 0..MaxCrashes
  BY DEF IInv, TypeOK, ReqInv, TaskInv
<1>2. WaitsKept /\ OfsKept /\ TokensKept /\ TicksKept /\ WaitersKept /\ AtsKept
  BY DEF WaitsKept, OfsKept, TokensKept, TicksKept, WaitersKept, AtsKept
<1>3. KeyStep /\ DrainsKept
  BY <1>1, <1>2, Unwritten, Rewritten
<1> QED BY <1>1, <1>2, <1>3, Plain

\* What the record of a session request names.
LEMMA OpFacts ==
  ASSUME IInv, NEW o \in Ops
  PROVE  /\ store \in [Containers -> Entry] /\ op \in [Ops -> OpState]
         /\ op[o].kind # "none" => op[o].at \in Containers /\ op[o].of \in Claims
  BY DEF IInv, TypeOK, OpInv

\* Ending a session request keeps the invariant.
LEMMA EndOpInv ==
  ASSUME IInv, NEW o \in Ops, EndOp(o)
  PROVE  op' \in [Ops -> OpState] /\ OpInv'
  BY DEF IInv, TypeOK, OpInv, EndOp, IdleOp, OpState

\* BeginOp (find_session_for_user) keeps the invariant.
LEMMA BeginOpInv ==
  ASSUME IInv, NEW o \in Ops, NEW c \in Containers, BeginOp(o, c)
  PROVE  IInv' /\ KeyStep
<1>1. PICK kind \in Env \cap {"heartbeat", "control", "swap"} :
        op' = [op EXCEPT ![o] = [kind |-> kind, at |-> c, of |-> store[c].by]]
  BY DEF BeginOp
<1>2. store[c].by \in Claims
  BY DEF BeginOp, IInv, StoreInv
<1>3. op' \in [Ops -> OpState] /\ OpInv'
  BY <1>1, <1>2, OpFacts DEF OpState, OpInv, IInv
<1> QED BY <1>3, PlainOp DEF BeginOp

\* Heartbeat (heartbeat_session) keeps the invariant.
LEMMA HeartbeatInv ==
  ASSUME IInv, NEW o \in Ops, Heartbeat(o)
  PROVE  IInv' /\ KeyStep
<1> DEFINE c == op[o].at
<1>1. c \in Containers
  BY OpFacts DEF Heartbeat
<1>2. PICK k \in Claims : k = op[o].of
  BY OpFacts DEF Heartbeat
<1>3. /\ Restamped(store[c]) \in Entry /\ Restamped(store[c]).st = store[c].st
      /\ Restamped(store[c]).by = store[c].by
  BY <1>1, <1>2, OpFacts, EntryUpdates
<1>4. store' = store \/ Wrote(c, Restamped(store[c]))
  BY <1>1, <1>3, OpFacts, CasWrote DEF Heartbeat, Contended
<1> QED BY <1>1, <1>3, <1>4, EndOpInv, PlainOp DEF Heartbeat

\* Refresh (refresh_session) keeps the invariant.
LEMMA RefreshInv ==
  ASSUME IInv, NEW o \in Ops, Refresh(o)
  PROVE  IInv' /\ KeyStep
<1> DEFINE c == op[o].at
           e == [store[c] EXCEPT !.ttl = "full"]
<1>1. c \in Containers
  BY OpFacts DEF Refresh
<1>2. e \in Entry /\ e.st = store[c].st /\ e.by = store[c].by
  BY <1>1, OpFacts DEF Entry
<1>3. Cas(c, store[c].st # "free", e)
  BY DEF Refresh
<1> HIDE DEF e
<1>4. store' = store \/ Wrote(c, e)
  BY <1>1, <1>2, <1>3, OpFacts, CasWrote
<1> QED BY <1>1, <1>2, <1>4, EndOpInv, PlainOp DEF Refresh

\* SwapDisc (set_session_disc) keeps the invariant.
LEMMA SwapInv ==
  ASSUME IInv, NEW o \in Ops, SwapDisc(o)
  PROVE  IInv' /\ KeyStep
<1> DEFINE c == op[o].at
           k == op[o].of
<1>1. c \in Containers /\ k \in Claims
  BY OpFacts DEF SwapDisc
<1>2. /\ Merged(store[c], k) \in Entry /\ Merged(store[c], k).st = store[c].st
      /\ Merged(store[c], k).by = store[c].by
  BY <1>1, OpFacts, EntryUpdates
<1>3. store' = store \/ Wrote(c, Merged(store[c], k))
  BY <1>1, <1>2, OpFacts, CasWrote DEF SwapDisc, Contended, SameClaim
<1> QED BY <1>1, <1>2, <1>3, EndOpInv, PlainOp DEF SwapDisc

\* FailOp keeps the invariant.
LEMMA FailOpInv ==
  ASSUME IInv, NEW o \in Ops, FailOp(o)
  PROVE  IInv' /\ KeyStep
<1>1. PICK c \in Containers : TRUE
  BY PoolIsContainers, PoolFact
<1> QED BY <1>1, EndOpInv, PlainOp DEF FailOp

-----------------------------------------------------------------------------
(* The steps of a teardown. *)

\* What the record of a teardown names.
LEMMA TaskFacts ==
  ASSUME IInv, NEW t \in Tasks
  PROVE  /\ store \in [Containers -> Entry] /\ task \in [Tasks -> TaskState]
         /\ task[t].kind \in Kinds /\ task[t].pc \in TaskPcs
         /\ task[t].at \in Containers \cup {None} /\ task[t].of \in Claims \cup {None}
         /\ task[t].token \in BOOLEAN /\ task[t].keep \in Holds
         /\ task[t].waiter \in Claims \cup {None}
         /\ TaskOK(task[t].kind, task[t].pc, task[t].at, task[t].of, task[t].token,
                   task[t].keep, task[t].waiter)
  BY DEF IInv, TypeOK, TaskInv, TaskState, Kinds, TaskPcs, Holds

\* A step that changes neither keys nor requests is quiet.
LEMMA NothingWritten ==
  ASSUME IInv, UNCHANGED <<store, req>>
  PROVE  KeyStep /\ DrainsKept
<1>1. AtsKept
  BY DEF AtsKept
<1> QED BY <1>1, Unwritten DEF IInv, TypeOK

\* BeginTask (release, save-and-exit and sweep alike) keeps the invariant.
LEMMA BeginInv ==
  ASSUME IInv, NEW t \in Tasks, NEW c \in Containers, NEW kd \in {"release", "exit", "sweep"},
         NEW p \in {"mark", "kill", "reread"}, p = "kill" => kd = "exit", BeginTask(t, c, kd, p)
  PROVE  IInv' /\ KeyStep
<1>1. store[c].st = "claim" /\ store[c].by \in Claims /\ task[t] = IdleTask /\ kd \in Env
  BY DEF BeginTask, IInv, StoreInv
<1>2. Works(t, kd, p, c, store[c].by, FALSE, "off", None)
  <2>1. kd \in Kinds /\ p \in TaskPcs
    BY DEF Kinds, TaskPcs
  <2>2. task' = [task EXCEPT ![t] = Teardown(kd, p, c, store[c].by, None)]
    BY DEF BeginTask
  <2> QED BY <1>1, <2>1, <2>2, TaskFacts, WorkBegin
<1>3. TaskOK(kd, p, c, store[c].by, FALSE, "off", None)
  BY <1>1 DEF TaskOK
<1>4. KeyStep /\ DrainsKept
  BY NothingWritten DEF BeginTask
<1> QED BY <1>1, <1>2, <1>3, <1>4, PlainTask DEF BeginTask

\* Reread (_teardown of force_release_all) keeps the invariant.
LEMMA RereadInv ==
  ASSUME IInv, NEW t \in Tasks, Reread(t)
  PROVE  IInv' /\ KeyStep
<1> DEFINE c == task[t].at
           o == IF store[c].st = "claim" THEN store[c].by ELSE None
<1>1. c \in Containers /\ task[t].kind = "sweep"
  BY TaskFacts DEF Reread, TaskOK
<1>2. o = None \/ (o \in Claims /\ store[c].st # "free" /\ o = store[c].by)
  BY <1>1 DEF IInv, StoreInv
<1>3. task' = [task EXCEPT ![t].pc = "quiesce", ![t].of = o]
  BY DEF Reread
<1> HIDE DEF o
<1>4. Works(t, task[t].kind, "quiesce", task[t].at, o, task[t].token, task[t].keep,
            task[t].waiter)
  BY <1>2, <1>3, TaskFacts, WorkPcOf DEF TaskPcs
<1>5. TaskOK(task[t].kind, "quiesce", task[t].at, o, task[t].token, task[t].keep,
             task[t].waiter)
  BY <1>1, TaskFacts DEF TaskOK, Guarded, Reread
<1>6. KeyStep /\ DrainsKept
  BY NothingWritten DEF Reread
<1>7. task[t].token = FALSE
  BY <1>1, TaskFacts DEF TaskOK
<1> QED BY <1>1, <1>2, <1>4, <1>5, <1>6, <1>7, PlainTask DEF Reread

\* A teardown that moves to another step and writes nothing.
LEMMA ProceedInv ==
  ASSUME IInv, NEW t \in Tasks, NEW p,
         \/ task[t].pc \in {"quiesce", "collect"} /\ p \in {"collect", "drop"}
         \/ task[t].kind = "exit" /\ task[t].pc = "kill" /\ p \in {"give", "let-go", "brief"},
         task' = [task EXCEPT ![t].pc = p], UNCHANGED <<store, req, op, crashes>>
  PROVE  IInv' /\ KeyStep
<1>1. p \in TaskPcs
  BY DEF TaskPcs
<1>2. Works(t, task[t].kind, p, task[t].at, task[t].of, task[t].token, task[t].keep,
            task[t].waiter)
  BY <1>1, TaskFacts, WorkPc
<1>3. TaskOK(task[t].kind, p, task[t].at, task[t].of, task[t].token, task[t].keep,
             task[t].waiter)
  BY TaskFacts DEF TaskOK
<1>4. KeyStep /\ DrainsKept
  BY NothingWritten
<1> QED BY <1>2, <1>3, <1>4, PlainTask

\* Quiesce (quiesce_container) keeps the invariant.
LEMMA QuiesceInv ==
  ASSUME IInv, NEW t \in Tasks, Quiesce(t)
  PROVE  IInv' /\ KeyStep
<1>1. task[t].pc = "quiesce" /\ task' = [task EXCEPT ![t].pc = "collect"]
  BY DEF Quiesce
<1> QED BY <1>1, ProceedInv DEF Quiesce

\* Collect (collect_exit_state) keeps the invariant.
LEMMA CollectInv ==
  ASSUME IInv, NEW t \in Tasks, Collect(t)
  PROVE  IInv' /\ KeyStep
<1>1. task[t].pc = "collect" /\ task' = [task EXCEPT ![t].pc = "drop"]
  BY DEF Collect
<1> QED BY <1>1, ProceedInv DEF Collect

\* Kill (save_and_exit) keeps the invariant.
LEMMA KillInv ==
  ASSUME IInv, NEW t \in Tasks, NEW saved \in BOOLEAN, NEW wait \in BOOLEAN,
         Kill(t, saved, wait)
  PROVE  IInv' /\ KeyStep
<1> DEFINE p == IF task[t].of \notin Desktops /\ (saved \/ ~wait) THEN "give"
                ELSE IF wait THEN "let-go" ELSE "brief"
<1>1. p \in {"give", "let-go", "brief"} /\ task[t].kind = "exit" /\ task[t].pc = "kill"
  BY DEF Kill
<1>2. task' = [task EXCEPT ![t].pc = p] /\ UNCHANGED <<store, req, op, crashes>>
  BY DEF Kill
<1> HIDE DEF p
<1> QED BY <1>1, <1>2, ProceedInv

\* A keepalive that stops ticking, or a claim that stops waiting.
LEMMA KeepOverrunsInv ==
  ASSUME IInv, NEW t \in Tasks, KeepOverruns(t)
  PROVE  IInv' /\ KeyStep
<1>1. Works(t, task[t].kind, task[t].pc, task[t].at, task[t].of, task[t].token, "off",
            task[t].waiter)
  BY TaskFacts, WorkKeep DEF KeepOverruns, Holds
<1>2. TaskOK(task[t].kind, task[t].pc, task[t].at, task[t].of, task[t].token, "off",
             task[t].waiter)
  BY TaskFacts DEF TaskOK, Guarded, KeepOverruns
<1>3. KeyStep /\ DrainsKept
  BY NothingWritten DEF KeepOverruns
<1> QED BY <1>1, <1>2, <1>3, PlainTask DEF KeepOverruns

\* The end of a teardown: its record is cleared and its waiter, if any, walks on.
LEMMA FinishInv ==
  ASSUME IInv, NEW t \in Tasks, NEW freed \in BOOLEAN, Finish(t, freed)
  PROVE  /\ req' \in [Claims -> ReqState] /\ ReqInv' /\ AtsKept
         /\ task' \in [Tasks -> TaskState] /\ TaskInv'
         /\ OfsKept /\ TokensKept /\ TicksKept /\ WaitInv'
         /\ task'[t].token = FALSE
<1> DEFINE w == task[t].waiter
<1>1. Works(t, "none", "idle", None, None, FALSE, "off", None)
  BY TaskFacts, WorkDone DEF Finish
<1>2. task' \in [Tasks -> TaskState] /\ TaskInv'
  <2>1. TaskOK("none", "idle", None, None, FALSE, "off", None)
    BY DEF TaskOK
  <2> QED BY <1>1, <2>1, WorksInv DEF IInv
<1>3. OfsKept /\ TokensKept /\ TicksKept /\ task'[t].token = FALSE
  BY <1>1 DEF OfsKept, TokensKept, TicksKept, Works
<1>4. CASE w = None
  <2>1. req' = req
    BY <1>4 DEF Finish
  <2>2. req' \in [Claims -> ReqState] /\ ReqInv' /\ AtsKept
    BY <2>1 DEF IInv, TypeOK, ReqInv, AtsKept
  <2>3. WaitInv'
    BY <2>1, <1>1 DEF IInv, WaitInv, Works
  <2> QED BY <1>2, <1>3, <2>2, <2>3
<1>5. CASE w # None
  <2>1. w \in Claims /\ req[w].pc = "wait"
    BY <1>5, TaskFacts DEF IInv, WaitInv
  <2>2. PICK p \in {"retry", "scan"}, i \in {req[w].idx, req[w].idx + 1} :
          Moved(w, p, req[w].at, i, req[w].hold) /\ ReqOK(p, req[w].at, i, req[w].hold)
    <3>1. CASE freed
      <4>1. req' = [req EXCEPT ![w].pc = "retry"]
        BY <1>5, <3>1, Zenon DEF Finish
      <4>2. Moved(w, "retry", req[w].at, req[w].idx, req[w].hold)
        BY <2>1, <4>1, ReqFacts, MovePc DEF ReqPcs
      <4>3. ReqOK("retry", req[w].at, req[w].idx, req[w].hold)
        BY <2>1, ReqFacts DEF ReqOK
      <4> QED BY <4>2, <4>3
    <3>2. CASE ~freed
      <4>1. req' = NextCandidate(w)
        BY <1>5, <3>2, Zenon DEF Finish
      <4>2. Moved(w, "scan", req[w].at, req[w].idx + 1, req[w].hold)
        BY <2>1, <4>1, NextCandidateMoves
      <4>3. ReqOK("scan", req[w].at, req[w].idx + 1, req[w].hold)
        BY <2>1, ReqFacts DEF ReqOK
      <4> QED BY <4>2, <4>3
    <3> QED BY <3>1, <3>2
  <2>3. req' \in [Claims -> ReqState] /\ ReqInv' /\ AtsKept
    BY <2>1, <2>2, MovedInv, MovedAts DEF IInv
  <2>4. WaitInv'
    <3>1. \A u \in Tasks : u # t => task'[u].waiter = task[u].waiter /\ task[u].waiter # w
      BY <1>1, <1>5 DEF IInv, WaitInv, Works
    <3>2. \A u \in Tasks : task[u].waiter \in Claims \cup {None}
      BY TaskFacts
    <3>3. \A k \in Claims : k # w => req'[k] = req[k]
      BY <2>2 DEF Moved
    <3>4. task'[t].waiter = None
      BY <1>1 DEF Works
    <3>5. \A u \in Tasks : task'[u].waiter # None => u # t /\ req[task[u].waiter].pc = "wait"
      BY <3>1, <3>4 DEF IInv, WaitInv
    <3> QED BY <3>1, <3>2, <3>3, <3>5 DEF IInv, WaitInv
  <2> QED BY <1>2, <1>3, <2>3, <2>4
<1> QED BY <1>4, <1>5

\* A teardown that ends without clearing a marker.
LEMMA QuietEnd ==
  ASSUME IInv, NEW t \in Tasks, NEW freed \in BOOLEAN, Finish(t, freed),
         UNCHANGED <<op, crashes>>, AtsKept => KeyStep /\ DrainsKept
  PROVE  IInv' /\ KeyStep
<1>1. op' \in [Ops -> OpState] /\ OpInv' /\ crashes' \in 0..MaxCrashes
  BY DEF IInv, TypeOK, OpInv
<1>2. /\ req' \in [Claims -> ReqState] /\ ReqInv' /\ AtsKept
      /\ task' \in [Tasks -> TaskState] /\ TaskInv'
      /\ OfsKept /\ TokensKept /\ TicksKept /\ WaitInv'
  BY FinishInv
<1>3. TokenInv' /\ HeldInv'
  BY <1>2, TokenKept, HeldKept DEF IInv
<1> QED BY <1>1, <1>2, <1>3, Combine

\* A claim taken into a marker by the teardown t.
LEMMA ReserveInv ==
  ASSUME IInv, NEW t \in Tasks, NEW p \in {"quiesce", "collect"}, task[t].pc # "idle",
         task[t].kind # "sweep", SameClaim(store[task[t].at], task[t].of),
         Put(task[t].at, Marker(task[t].of)), task' = Reserved(t, p),
         UNCHANGED <<req, op, crashes>>
  PROVE  IInv' /\ KeyStep
<1> DEFINE c == task[t].at
           k == task[t].of
<1>1. c \in Containers /\ k \in Claims
  BY TaskFacts DEF TaskOK
<1>2. Works(t, task[t].kind, p, c, k, TRUE, "ticking", task[t].waiter)
  BY TaskFacts, WorkReserved DEF TaskPcs
<1>3. task' \in [Tasks -> TaskState] /\ TaskInv'
  <2>1. TaskOK(task[t].kind, p, c, k, TRUE, "ticking", task[t].waiter)
    BY TaskFacts DEF TaskOK
  <2> QED BY <1>2, <2>1, WorksInv DEF IInv
<1>4. Wrote(c, Marker(k))
  BY <1>1, TaskFacts, EntryFacts, PutWrote
<1>5. AtsKept
  BY DEF AtsKept
<1>6. KeyStep /\ DrainsKept /\ Drained(c)
  BY <1>1, <1>4, <1>5, TaskFacts, Marked
<1>7. OfsKept /\ WaitersKept /\ WaitsKept
  BY <1>2 DEF OfsKept, WaitersKept, WaitsKept, Works
<1>8. TokenInv'
  <2>1. store[c].st = "claim" /\ store[c].by = k /\ req[k].at = c
    BY <1>1 DEF SameClaim, IInv, StoreInv
  <2>2. \A u \in Tasks : task[u].token => task[u].of # k
    BY <1>1 DEF IInv, TokenInv
  <2>3. \A d \in Containers : ~SameClaim(store'[d], k)
    BY <1>1, <1>6, <2>1 DEF Drained, Elsewhere, SameClaim, IInv, StoreInv
  <2>4. \A j \in Claims : (\A d \in Containers : ~SameClaim(store[d], j)) =>
                          \A d \in Containers : ~SameClaim(store'[d], j)
    BY <1>6 DEF Drained, Elsewhere, SameClaim
  <2>5. SUFFICES ASSUME NEW u \in Tasks, task'[u].token
                 PROVE  /\ task'[u].of \in Claims /\ req'[task'[u].of].at # None
                        /\ \A d \in Containers : ~SameClaim(store'[d], task'[u].of)
                        /\ \A v \in Tasks : task'[v].token /\ task'[v].of = task'[u].of => v = u
    BY DEF TokenInv
  <2>6. CASE u = t
    BY <1>1, <1>2, <2>1, <2>2, <2>3, <2>6, NoneIsNoValue DEF Works
  <2>7. CASE u # t
    <3>1. task'[u] = task[u] /\ task[u].token /\ task[u].of # k
      BY <1>2, <2>2, <2>5, <2>7 DEF Works
    <3>2. /\ task[u].of \in Claims /\ req[task[u].of].at # None
          /\ \A d \in Containers : ~SameClaim(store[d], task[u].of)
      BY <3>1 DEF IInv, TokenInv
    <3>3. ASSUME NEW v \in Tasks, task'[v].token, task'[v].of = task[u].of
          PROVE  v = u
      <4>1. v # t /\ task'[v] = task[v]
        BY <1>2, <3>1, <3>3 DEF Works
      <4> QED BY <3>1, <3>3, <4>1 DEF IInv, TokenInv
    <3> QED BY <2>4, <3>1, <3>2, <3>3
  <2> QED BY <2>6, <2>7
<1>9. HeldInv'
  <2>1. HoldsToken(store'[c], k)
    BY <1>1, <1>4, EntryFacts DEF Wrote, HoldsToken
  <2>2. \A u \in Tasks : task[u].keep = "ticking" => task[u].at \in Containers
    BY DEF IInv, TaskInv, TaskOK
  <2> QED BY <1>2, <1>6, <2>1, <2>2
      DEF IInv, HeldInv, ReservationHeld, HoldsToken, DrainsKept, Works
<1>10. /\ req' \in [Claims -> ReqState] /\ ReqInv'
       /\ op' \in [Ops -> OpState] /\ OpInv' /\ crashes' \in 0..MaxCrashes
  BY DEF IInv, TypeOK, ReqInv, OpInv
<1> QED BY <1>3, <1>6, <1>7, <1>8, <1>9, <1>10, WaitKept, Combine DEF IInv

\* A contended mark keeps the invariant.
LEMMA UnmarkedInv ==
  ASSUME IInv, NEW t \in Tasks, NEW p \in {"quiesce", "collect"},
         task[t].kind \in {"release", "exit"}, task[t].pc \in {"mark", "give"},
         Contended, task' = Unmarked(t, p), UNCHANGED <<req, op, crashes>>
  PROVE  IInv' /\ KeyStep
<1>1. p \in TaskPcs /\ p \notin {"idle", "give", "let-go", "brief"}
  BY DEF TaskPcs
<1>2. Works(t, task[t].kind, p, task[t].at, task[t].of, task[t].token, "armed",
            task[t].waiter)
  BY <1>1, TaskFacts, WorkUnmarked
<1>3. TaskOK(task[t].kind, p, task[t].at, task[t].of, task[t].token, "armed",
             task[t].waiter)
  BY <1>1, TaskFacts DEF TaskOK, Guarded, Contended
<1>4. KeyStep /\ DrainsKept
  BY NothingWritten DEF Contended
<1> QED BY <1>2, <1>3, <1>4, PlainTask

\* MarkOrSkip (claim_drain_marker) keeps the invariant.
LEMMA MarkOrSkipInv ==
  ASSUME IInv, NEW t \in Tasks, NEW p \in {"quiesce", "collect"},
         task[t].kind \in {"release", "exit"}, task[t].pc \in {"mark", "give"},
         MarkOrSkip(t, p), UNCHANGED <<op, crashes>>
  PROVE  IInv' /\ KeyStep
<1>1. CASE /\ SameClaim(store[task[t].at], task[t].of)
           /\ Put(task[t].at, Marker(task[t].of)) /\ task' = Reserved(t, p)
           /\ UNCHANGED req
  BY <1>1, ReserveInv
<1>2. CASE Finish(t, FALSE) /\ UNCHANGED store
  BY <1>2, QuietEnd, Unwritten, TaskFacts
<1>3. CASE Contended /\ task' = Unmarked(t, p) /\ UNCHANGED req
  BY <1>3, UnmarkedInv
<1> QED BY <1>1, <1>2, <1>3 DEF MarkOrSkip

\* MarkReleased (teardown_released_session) keeps the invariant.
LEMMA MarkReleasedInv ==
  ASSUME IInv, NEW t \in Tasks, MarkReleased(t)
  PROVE  IInv' /\ KeyStep
  BY MarkOrSkipInv DEF MarkReleased

\* Give (save_and_exit_session) keeps the invariant.
LEMMA GiveInv ==
  ASSUME IInv, NEW t \in Tasks, Give(t)
  PROVE  IInv' /\ KeyStep
<1>1. task[t].kind = "exit" /\ task[t].pc = "give"
  BY TaskFacts DEF Give, TaskOK
<1> QED BY <1>1, MarkOrSkipInv DEF Give

\* MarkAbandoned (_teardown_abandoned_session) keeps the invariant.
LEMMA MarkAbandonedInv ==
  ASSUME IInv, NEW t \in Tasks, MarkAbandoned(t)
  PROVE  IInv' /\ KeyStep
<1>1. CASE /\ SameClaim(store[task[t].at], task[t].of)
           /\ Put(task[t].at, Marker(task[t].of)) /\ task' = Reserved(t, "quiesce")
           /\ UNCHANGED req
  BY <1>1, ReserveInv DEF MarkAbandoned
<1>2. CASE Finish(t, FALSE) /\ UNCHANGED store
  BY <1>2, QuietEnd, Unwritten, TaskFacts DEF MarkAbandoned
<1> QED BY <1>1, <1>2 DEF MarkAbandoned, Contended

\* LetGo (release_own_session) keeps the invariant.
LEMMA LetGoInv ==
  ASSUME IInv, NEW t \in Tasks, LetGo(t)
  PROVE  IInv' /\ KeyStep
<1> DEFINE c == task[t].at
<1>1. c \in Containers /\ task[t].of \in Claims
  BY TaskFacts DEF LetGo, TaskOK
<1>2. store' = store \/ (store[c].st = "claim" /\ Wrote(c, Free))
  BY <1>1, TaskFacts, EntryFacts, CasWrote DEF LetGo, Contended, SameClaim
<1>3. AtsKept => KeyStep /\ DrainsKept
  BY <1>1, <1>2, TaskFacts, Unwritten, Given
<1> QED BY <1>3, QuietEnd DEF LetGo

\* Brief (the drain window) keeps the invariant.
LEMMA BriefInv ==
  ASSUME IInv, NEW t \in Tasks, Brief(t)
  PROVE  IInv' /\ KeyStep
<1> DEFINE c == task[t].at
           k == task[t].of
<1>1. c \in Containers /\ k \in Claims
  BY TaskFacts DEF Brief, TaskOK
<1>2. store' = store \/ (SameClaim(store[c], k) /\ Wrote(c, Marker(k)))
  BY <1>1, TaskFacts, EntryFacts, CasWrote DEF Brief, Contended, SameClaim
<1>3. AtsKept => KeyStep /\ DrainsKept
  BY <1>1, <1>2, TaskFacts, Unwritten, Marked
<1> QED BY <1>3, QuietEnd DEF Brief

\* A teardown clears its own marker, or the key it still holds.
LEMMA DropInv ==
  ASSUME IInv, NEW t \in Tasks, Drop(t)
  PROVE  IInv' /\ KeyStep
<1> DEFINE c == task[t].at
           k == task[t].of
           mine == IF task[t].token THEN HoldsToken(store[c], k) ELSE SameClaim(store[c], k)
<1>1. c \in Containers
  BY TaskFacts DEF Drop, TaskOK
<1>2. /\ req' \in [Claims -> ReqState] /\ ReqInv' /\ AtsKept
      /\ task' \in [Tasks -> TaskState] /\ TaskInv'
      /\ OfsKept /\ TokensKept /\ TicksKept /\ WaitInv' /\ task'[t].token = FALSE
  BY FinishInv DEF Drop
<1>3. \/ store' = store
      \/ Wrote(c, Free) /\ (task[t].kind = "sweep" \/ HoldsToken(store[c], k) \/ SameClaim(store[c], k))
  <2>1. CASE task[t].kind = "sweep" /\ Put(c, Free)
    BY <1>1, <2>1, TaskFacts, EntryFacts, PutWrote
  <2>2. CASE Cas(c, mine, Free)
    <3>1. mine \in BOOLEAN
      BY DEF HoldsToken, SameClaim
    <3>2. (mine /\ Wrote(c, Free)) \/ (~mine /\ store' = store)
      <4> HIDE DEF mine
      <4> QED BY <1>1, <2>2, <3>1, TaskFacts, EntryFacts, CasWrote
    <3> QED BY <3>2
  <2>3. CASE Contended
    BY <2>3 DEF Contended
  <2> QED BY <2>1, <2>2, <2>3 DEF Drop
<1>4. KeyStep
  <2>1. CASE store' = store
    BY <1>2, <2>1, TaskFacts, Unwritten
  <2>2. CASE Wrote(c, Free) /\ store[c].st = "free"
    BY <1>1, <1>2, <2>2, EntryFacts, TaskFacts, Rewritten DEF IInv, StoreInv
  <2>3. CASE Wrote(c, Free) /\ store[c].st # "free"
    <3>1. Vacated(c)
      BY <1>1, <2>3, EntryFacts DEF Vacated, Wrote, Elsewhere
    <3> QED BY <1>1, <1>2, <2>3, <3>1 DEF KeyStep, Wrote
  <2> QED BY <1>3, <2>1, <2>2, <2>3
<1>5. TokenInv'
  BY <1>2, <1>4, TokenKept DEF IInv
<1>6. HeldInv'
  <2>1. CASE store' = store
    BY <1>2, <2>1, TaskFacts, Unwritten, HeldKept DEF IInv
  <2>2. CASE Wrote(c, Free) /\ task[t].kind = "sweep"
    BY <2>2, TaskFacts DEF TaskOK, HeldInv
  <2>3. CASE Wrote(c, Free) /\ task[t].kind # "sweep"
    <3>1. SUFFICES ASSUME "sweep" \notin Env, NEW u \in Tasks, task'[u].token,
                          task'[u].keep = "ticking"
                   PROVE  HoldsToken(store'[task'[u].at], task'[u].of)
      BY DEF HeldInv, ReservationHeld
    <3>2. /\ task[u].token /\ task[u].keep = "ticking" /\ u # t
          /\ task'[u].at = task[u].at /\ task'[u].of = task[u].of
      BY <1>2, <3>1 DEF TicksKept
    <3>3. HoldsToken(store[task[u].at], task[u].of) /\ task[u].at \in Containers
      BY <3>1, <3>2, TaskFacts DEF IInv, HeldInv, ReservationHeld, TaskOK
    <3>4. CASE task[u].at = c
      <4>1. task[t].token /\ HoldsToken(store[c], k)
        <5>1. store[c].st = "drain"
          BY <3>3, <3>4 DEF HoldsToken
        <5>2. mine
          <6>1. Cas(c, mine, Free) \/ Contended
            BY <2>3 DEF Drop
          <6>2. store' # store
            BY <1>1, <2>3, <5>1, EntryFacts DEF Wrote
          <6> QED BY <6>1, <6>2 DEF Cas, Contended
        <5> QED BY <5>1, <5>2 DEF SameClaim
      <4>2. task[u].of = task[t].of
        BY <3>3, <3>4, <4>1 DEF HoldsToken
      <4> QED BY <3>2, <4>1, <4>2 DEF IInv, TokenInv
    <3>5. CASE task[u].at # c
      BY <2>3, <3>2, <3>3, <3>5 DEF Wrote, HoldsToken
    <3> QED BY <3>4, <3>5
  <2> QED BY <1>3, <2>1, <2>2, <2>3
<1>7. op' \in [Ops -> OpState] /\ OpInv' /\ crashes' \in 0..MaxCrashes
  BY DEF IInv, TypeOK, OpInv, Drop
<1> QED BY <1>2, <1>4, <1>5, <1>6, <1>7, Combine

\* KeepAlive (hold_drain_marker, hold_session_claim) keeps the invariant.
LEMMA KeepAliveInv ==
  ASSUME IInv, NEW t \in Tasks, KeepAlive(t)
  PROVE  IInv' /\ KeyStep
<1> DEFINE c == task[t].at
           k == task[t].of
           held == IF task[t].token THEN HoldsToken(store[c], k) ELSE SameClaim(store[c], k)
           e == IF task[t].token THEN Marker(k) ELSE Restamped(store[c])
           h == IF held THEN "ticking" ELSE "off"
<1>1. c \in Containers /\ task[t].keep # "off" /\ task[t].pc # "idle"
  BY TaskFacts DEF KeepAlive, TaskOK
<1>2. held \in BOOLEAN /\ h \in {"ticking", "off"} /\ (h = "ticking" => held)
  BY DEF HoldsToken, SameClaim
<1>3. held => k \in Claims /\ e \in Entry /\ e.st = store[c].st /\ e.by = store[c].by
  <2>1. held => store[c].st # "free" /\ store[c].by = k
    BY DEF HoldsToken, SameClaim
  <2>2. held => k \in Claims
    BY <1>1, <2>1 DEF IInv, StoreInv
  <2>3. CASE task[t].token
    BY <2>2, <2>3, EntryFacts DEF HoldsToken
  <2>4. CASE ~task[t].token
    BY <1>1, <2>2, <2>4, TaskFacts, EntryUpdates
  <2> QED BY <2>2, <2>3, <2>4
<1>4. Cas(c, held, e) /\ task' = [task EXCEPT ![t].keep = h]
  BY DEF KeepAlive
<1>5. Works(t, task[t].kind, task[t].pc, c, k, task[t].token, h, task[t].waiter)
  <2> HIDE DEF held, h
  <2> QED BY <1>2, <1>4, TaskFacts, WorkKeep DEF Holds
<1>6. store' = store \/ (held /\ Wrote(c, e))
  <2>1. CASE held
    <3>1. Put(c, e)
      BY <1>4, <2>1 DEF Cas, Put
    <3>2. e \in Entry
      BY <1>3, <2>1
    <3> HIDE DEF e
    <3> QED BY <1>1, <2>1, <3>1, <3>2, TaskFacts, PutWrote
  <2>2. CASE ~held
    BY <1>4, <2>2 DEF Cas
  <2> QED BY <2>1, <2>2
<1>7. AtsKept
  BY DEF AtsKept, KeepAlive
<1>8. KeyStep /\ DrainsKept
  <2>1. held => e.st = store[c].st /\ e.by = store[c].by
    BY <1>3
  <2> HIDE DEF held, e
  <2> QED BY <1>1, <1>6, <1>7, <2>1, TaskFacts, Unwritten, Rewritten
<1>9. task' \in [Tasks -> TaskState] /\ TaskInv'
  <2>1. TaskOK(task[t].kind, task[t].pc, c, k, task[t].token, h, task[t].waiter)
    <3>1. CASE Guarded /\ task[t].pc \in {"quiesce", "collect", "drop"}
      <4>1. task[t].token /\ HoldsToken(store[c], k)
        BY <3>1, TaskFacts DEF TaskOK, Guarded, IInv, HeldInv, ReservationHeld
      <4>2. h = "ticking"
        BY <4>1
      <4> QED BY <1>1, <4>1, <4>2, TaskFacts DEF TaskOK
    <3>2. CASE ~(Guarded /\ task[t].pc \in {"quiesce", "collect", "drop"})
      BY <1>1, <3>2, TaskFacts DEF TaskOK
    <3> QED BY <3>1, <3>2
  <2> HIDE DEF h
  <2> QED BY <1>5, <2>1, WorksInv DEF IInv
<1>10. OfsKept /\ TokensKept /\ WaitersKept /\ WaitsKept
  BY <1>5 DEF OfsKept, TokensKept, WaitersKept, WaitsKept, Works, KeepAlive
<1>11. TokenInv' /\ WaitInv'
  BY <1>8, <1>10, TokenKept, WaitKept DEF IInv
<1>12. HeldInv'
  <2>1. SUFFICES ASSUME "sweep" \notin Env, NEW u \in Tasks, task'[u].token,
                        task'[u].keep = "ticking"
                 PROVE  HoldsToken(store'[task'[u].at], task'[u].of)
    BY DEF HeldInv, ReservationHeld
  <2>2. HoldsToken(store[task'[u].at], task'[u].of) /\ task'[u].at \in Containers
    <3>1. CASE u = t
      <4>1. task'[t].at = c /\ task'[t].of = k /\ task'[t].token = task[t].token /\ task'[t].keep = h
        BY <1>5 DEF Works
      <4>2. held
        BY <1>2, <2>1, <3>1, <4>1
      <4> QED BY <1>1, <2>1, <3>1, <4>1, <4>2
    <3>2. CASE u # t
      <4>1. task'[u] = task[u]
        BY <1>5, <3>2 DEF Works
      <4> QED BY <2>1, <4>1, TaskFacts DEF IInv, HeldInv, ReservationHeld, TaskOK
    <3> QED BY <3>1, <3>2
  <2> QED BY <1>8, <2>2 DEF DrainsKept, HoldsToken
<1>13. /\ req' \in [Claims -> ReqState] /\ ReqInv'
       /\ op' \in [Ops -> OpState] /\ OpInv' /\ crashes' \in 0..MaxCrashes
  BY DEF IInv, TypeOK, ReqInv, OpInv, KeepAlive
<1> QED BY <1>8, <1>9, <1>10, <1>11, <1>12, <1>13, Combine

\* A claim begins to wait for the teardown it starts.
LEMMA ScanInv ==
  ASSUME IInv, NEW k \in Claims, ScanStale(k)
  PROVE  IInv' /\ KeyStep
<1> DEFINE c == Pool[req[k].idx]
<1>1. req[k].pc = "scan" /\ req[k].at = None /\ req[k].idx > 0 /\ req[k].idx <= Len(Pool)
  BY ReqFacts DEF ScanStale, ReqOK
<1>2. c \in Containers
  BY <1>1, ReqFacts, PoolFact
<1>3. CASE ~Stale(store[c])
  <2>1. Moved(k, "scan", req[k].at, req[k].idx + 1, req[k].hold)
    BY <1>3, NextCandidateMoves DEF ScanStale
  <2>2. ReqOK("scan", req[k].at, req[k].idx + 1, req[k].hold)
    BY <1>1, ReqFacts DEF ReqOK
  <2> QED BY <1>1, <1>3, <2>1, <2>2, WalkInv DEF ScanStale
<1>4. CASE Stale(store[c])
  <2>1. PICK t \in Tasks : /\ task[t] = IdleTask
                           /\ task' = [task EXCEPT ![t] =
                                         Teardown("abandoned", "mark", c, store[c].by, k)]
    BY <1>4 DEF ScanStale
  <2>2. store[c].st = "claim" /\ store[c].by \in Claims
    BY <1>2, <1>4 DEF Stale, IInv, StoreInv
  <2>3. Works(t, "abandoned", "mark", c, store[c].by, FALSE, "off", k)
    BY <1>2, <2>1, <2>2, TaskFacts, WorkBegin DEF Kinds, TaskPcs
  <2>4. task' \in [Tasks -> TaskState] /\ TaskInv'
    <3>1. TaskOK("abandoned", "mark", c, store[c].by, FALSE, "off", k)
      BY <1>2, <2>2 DEF TaskOK
    <3> QED BY <2>3, <3>1, WorksInv DEF IInv
  <2>5. Moved(k, "wait", req[k].at, req[k].idx, req[k].hold)
    BY <1>4, ReqFacts, MovePc DEF ScanStale, ReqGoto, ReqPcs
  <2>6. req' \in [Claims -> ReqState] /\ ReqInv' /\ AtsKept
    <3>1. ReqOK("wait", req[k].at, req[k].idx, req[k].hold)
      BY <1>1, ReqFacts DEF ReqOK
    <3> QED BY <2>5, <3>1, MovedInv, MovedAts DEF IInv
  <2>7. OfsKept /\ TokensKept /\ TicksKept
    BY <1>2, <2>2, <2>3 DEF OfsKept, TokensKept, TicksKept, Works
  <2>8. KeyStep /\ DrainsKept
    BY <2>6, TaskFacts, Unwritten DEF ScanStale
  <2>9. WaitInv'
    <3>1. \A u \in Tasks : task[u].waiter # k
      BY <1>1, NoneIsNoValue DEF IInv, WaitInv
    <3>2. \A u \in Tasks : task[u].waiter \in Claims \cup {None}
      BY TaskFacts
    <3> QED BY <2>3, <2>5, <3>1, <3>2 DEF IInv, WaitInv, Works, Moved
  <2>10. TokenInv' /\ HeldInv'
    BY <2>7, <2>8, TokenKept, HeldKept DEF IInv
  <2>11. op' \in [Ops -> OpState] /\ OpInv' /\ crashes' \in 0..MaxCrashes
    BY DEF IInv, TypeOK, OpInv, ScanStale
  <2> QED BY <2>4, <2>6, <2>7, <2>8, <2>9, <2>10, <2>11, Combine
<1> QED BY <1>3, <1>4

\* A claim gives up waiting: no teardown reports to it any more.
LEMMA TimeoutInv ==
  ASSUME IInv, NEW k \in Claims, WaitTimesOut(k)
  PROVE  IInv' /\ KeyStep
<1>1. req[k].pc = "wait"
  BY DEF WaitTimesOut
<1>2. \A t \in Tasks :
        /\ task'[t] \in TaskState
        /\ task'[t].waiter = IF task[t].waiter = k THEN None ELSE task[t].waiter
        /\ task'[t].kind = task[t].kind /\ task'[t].pc = task[t].pc
        /\ task'[t].at = task[t].at /\ task'[t].of = task[t].of
        /\ task'[t].token = task[t].token /\ task'[t].keep = task[t].keep
  <2> TAKE t \in Tasks
  <2>1. task[t] \in TaskState
    BY TaskFacts
  <2>2. CASE task[t].waiter = k
    <3>1. task'[t] = [task[t] EXCEPT !.waiter = None]
      BY <2>2 DEF WaitTimesOut
    <3> QED BY <2>1, <2>2, <3>1 DEF TaskState
  <2>3. CASE task[t].waiter # k
    <3>1. task'[t] = task[t]
      BY <2>3 DEF WaitTimesOut
    <3> QED BY <2>1, <2>3, <3>1
  <2> QED BY <2>2, <2>3
<1>3. task' \in [Tasks -> TaskState]
  <2>1. task' = [t \in Tasks |-> task'[t]]
    BY DEF WaitTimesOut
  <2> QED BY <1>2, <2>1
<1>4. TaskInv'
  BY <1>2 DEF IInv, TaskInv, TaskOK
<1>5. OfsKept /\ TokensKept /\ TicksKept
  BY <1>2 DEF OfsKept, TokensKept, TicksKept
<1>6. Moved(k, "scan", req[k].at, req[k].idx + 1, req[k].hold)
  BY NextCandidateMoves DEF WaitTimesOut
<1>7. req' \in [Claims -> ReqState] /\ ReqInv' /\ AtsKept
  <2>1. ReqOK("scan", req[k].at, req[k].idx + 1, req[k].hold)
    BY <1>1, ReqFacts DEF ReqOK
  <2> QED BY <1>6, <2>1, MovedInv, MovedAts DEF IInv
<1>8. KeyStep /\ DrainsKept
  BY <1>7, Unwritten DEF WaitTimesOut, IInv, TypeOK
<1>9. WaitInv'
  <2>1. \A t \in Tasks : task[t].waiter \in Claims \cup {None}
    BY TaskFacts
  <2> QED BY <1>2, <1>6, <2>1 DEF IInv, WaitInv, Moved
<1>10. TokenInv' /\ HeldInv'
  BY <1>5, <1>8, TokenKept, HeldKept DEF IInv
<1>11. op' \in [Ops -> OpState] /\ OpInv' /\ crashes' \in 0..MaxCrashes
  BY DEF IInv, TypeOK, OpInv, WaitTimesOut
<1> QED BY <1>3, <1>4, <1>5, <1>7, <1>8, <1>9, <1>10, <1>11, Combine

-----------------------------------------------------------------------------
(* Time and restarts. *)

\* Age (the stale window) keeps the invariant.
LEMMA AgeInv ==
  ASSUME IInv, NEW c \in Containers, Age(c)
  PROVE  IInv' /\ KeyStep
<1> DEFINE e == [store[c] EXCEPT !.fresh = FALSE]
<1>1. e \in Entry /\ e.st = store[c].st /\ e.by = store[c].by
  BY DEF IInv, TypeOK, Entry
<1>2. Put(c, e)
  BY DEF Age
<1> HIDE DEF e
<1>3. Wrote(c, e)
  BY <1>1, <1>2, PutWrote DEF IInv, TypeOK
<1>4. op' \in [Ops -> OpState] /\ OpInv'
  BY DEF IInv, TypeOK, OpInv, Age
<1> QED BY <1>1, <1>3, <1>4, PlainOp DEF Age

\* A marker only expires once no keepalive refreshes it.
LEMMA ExpireInv ==
  ASSUME IInv, NEW c \in Containers, Expire(c)
  PROVE  IInv' /\ KeyStep
<1>1. store[c].st # "free"
  BY DEF Expire, Stale
<1>2. Wrote(c, Free)
  BY EntryFacts, PutWrote DEF Expire, IInv, TypeOK
<1>3. /\ req' \in [Claims -> ReqState] /\ ReqInv' /\ AtsKept
      /\ task' \in [Tasks -> TaskState] /\ TaskInv' /\ WaitInv' /\ OfsKept /\ TokensKept
      /\ op' \in [Ops -> OpState] /\ OpInv' /\ crashes' \in 0..MaxCrashes
  BY DEF IInv, TypeOK, ReqInv, AtsKept, TaskInv, WaitInv, OfsKept, TokensKept, OpInv, Expire
<1>4. KeyStep
  <2>1. Vacated(c)
    BY <1>1, <1>2, EntryFacts DEF Vacated, Wrote, Elsewhere
  <2> QED BY <1>2, <1>3, <2>1 DEF KeyStep, Wrote
<1>5. TokenInv'
  BY <1>3, <1>4, TokenKept DEF IInv
<1>6. HeldInv'
  <2>1. SUFFICES ASSUME "sweep" \notin Env, NEW t \in Tasks, task[t].token,
                        task[t].keep = "ticking"
                 PROVE  HoldsToken(store'[task[t].at], task[t].of)
    BY DEF HeldInv, ReservationHeld, Expire
  <2>2. HoldsToken(store[task[t].at], task[t].of) /\ task[t].at \in Containers
    BY <2>1, TaskFacts DEF IInv, HeldInv, ReservationHeld, TaskOK
  <2>3. task[t].at # c
    BY <2>1, <2>2 DEF Expire, Stale, MarkerIsKept, HoldsToken
  <2> QED BY <1>2, <2>2, <2>3 DEF Wrote, HoldsToken
<1> QED BY <1>3, <1>4, <1>5, <1>6, Combine

\* Crash (a restart of the backend) keeps the invariant.
LEMMA CrashInv ==
  ASSUME IInv, Crash
  PROVE  IInv' /\ KeyStep
<1>1. \A k \in Claims :
        /\ req'[k] \in ReqState
        /\ req'[k].at = req[k].at
        /\ ReqOK(req'[k].pc, req'[k].at, req'[k].idx, req'[k].hold)
  <2> SUFFICES ASSUME NEW k \in Claims
               PROVE  /\ req'[k] \in ReqState
                      /\ req'[k].at = req[k].at
                      /\ ReqOK(req'[k].pc, req'[k].at, req'[k].idx, req'[k].hold)
    OBVIOUS
  <2>1. req[k] \in ReqState
    BY DEF IInv, TypeOK
  <2>2. CASE req[k].pc \in {"idle", "up", "over"}
    BY <2>1, <2>2, ReqFacts DEF Crash
  <2>3. CASE req[k].pc \notin {"idle", "up", "over"}
    <3>1. req'[k] = [req[k] EXCEPT !.pc = "over", !.hold = "off"]
      BY <2>3 DEF Crash
    <3>2. /\ req'[k] \in ReqState /\ req'[k].pc = "over" /\ req'[k].hold = "off"
          /\ req'[k].at = req[k].at /\ req'[k].idx = req[k].idx
      BY <2>1, <3>1 DEF ReqState
    <3> QED BY <3>2, ReqFacts DEF ReqOK
  <2> QED BY <2>2, <2>3
<1>2. req' \in [Claims -> ReqState] /\ ReqInv' /\ AtsKept
  <2>1. req' = [k \in Claims |-> req'[k]]
    BY DEF Crash
  <2> QED BY <1>1, <2>1 DEF ReqInv, AtsKept
<1>3. task' \in [Tasks -> TaskState] /\ \A t \in Tasks : task'[t] = IdleTask
  BY DEF Crash, IdleTask, Teardown, TaskState
<1>4. TaskInv' /\ WaitInv' /\ OfsKept /\ TokensKept /\ TicksKept
  BY <1>3 DEF TaskInv, TaskOK, WaitInv, OfsKept, TokensKept, TicksKept, IdleTask, Teardown
<1>5. op' \in [Ops -> OpState] /\ OpInv'
  <2>1. op' = [o \in Ops |-> IdleOp]
    BY DEF Crash
  <2>2. IdleOp \in OpState /\ IdleOp.kind = "none"
    BY DEF IdleOp, OpState
  <2> QED BY <2>1, <2>2 DEF OpInv
<1>6. crashes' \in 0..MaxCrashes
  <2>1. crashes < MaxCrashes /\ crashes' = crashes + 1
    BY DEF Crash
  <2>2. crashes \in 0..MaxCrashes
    BY DEF IInv, TypeOK
  <2> QED BY <2>1, <2>2, SwitchAssumption
<1>7. KeyStep /\ DrainsKept
  BY <1>2, Unwritten DEF Crash, IInv, TypeOK
<1>8. TokenInv' /\ HeldInv'
  BY <1>4, <1>7, TokenKept, HeldKept DEF IInv
<1> QED BY <1>2, <1>3, <1>4, <1>5, <1>6, <1>7, <1>8, Combine

\* A step that changes nothing keeps the invariant.
LEMMA StutterInv ==
  ASSUME IInv, UNCHANGED vars
  PROVE  IInv' /\ KeyStep
<1>1. IInv'
  BY DEF vars, IInv, TypeOK, ReqInv, TaskInv, OfInv, WaitInv, OpInv, StoreInv, TokenInv,
         HeldInv, ReservationHeld, HoldsToken, SameClaim
<1> QED BY <1>1, NothingWritten DEF vars

-----------------------------------------------------------------------------
(* Which writes change a key, and on whose behalf. *)

Preparing(k) == req[k].pc \in {"probe", "hydrate", "activate"}

\* A teardown of c's session gets on from one of these steps.
GoesOn(c, kinds, pcs) == \E t \in Tasks :
  /\ task[t].of = store[c].by /\ task[t].kind \in kinds
  /\ task[t].pc \in pcs /\ task'[t].pc # task[t].pc

\* A marker is dropped or expires, nobody beats any more, the administrator sweeps,
\* the launch aborts, or the session's own release or exit gives it back.
Freeing(c) ==
  \/ store[c].st = "drain" \/ (Stale(store[c]) /\ "forgotten" \in Env) \/ "sweep" \in Env
  \/ AbortClaim(store[c].by)
  \/ GoesOn(c, {"release", "exit", "sweep"}, {"let-go", "drop"})

\* A marker is refreshed, or a release, an exit or, if nobody beats any more, a
\* takeover reserves the container: an exit only with its save behind it.
Draining(c) ==
  \/ store[c].st = "drain"
  \/ GoesOn(c, {"exit"}, {"give", "brief"})
  \/ \E t \in Tasks : /\ task[t].of = store[c].by
                      /\ task[t].kind = "release" \/ (task[t].kind = "abandoned" /\ Stale(store[c]))
                      /\ task[t].pc = "mark" /\ task'[t].pc = "quiesce"

\* The writes of this program: an end, a win, a restamp, an aging, the data of
\* the holder, of a card just settled, or the TTL of a control.
Write(c, e) ==
  \/ e = Free /\ (store[c].st = "free" \/ Freeing(c))
  \/ e = Marker(store[c].by) /\ Draining(c)
  \/ store[c].st = "free" /\ \E k \in Claims : e = Session(k) /\ Preparing(k)'
  \/ store[c].st = "claim" /\ e = Restamped(store[c])
  \/ store[c].st = "claim" /\ MayEnd(store[c].by) /\ e = [store[c] EXCEPT !.fresh = FALSE]
  \/ \E k \in Claims : /\ SameClaim(store[c], k) \/ (CardSync /\ Launching(k) /\ req[k].at = c)
                       /\ e = Merged(store[c], k)
  \/ "control" \in Env /\ e = [store[c] EXCEPT !.ttl = "full"]

KeyWrites == \A c \in Containers : store'[c] = store[c] \/ Write(c, store'[c])

\* A step that writes no key.
LEMMA KeysUnwritten ==
  ASSUME UNCHANGED store
  PROVE  KeyWrites
  BY DEF KeyWrites

\* A plain write of this program.
LEMMA PutWrites ==
  ASSUME store \in [Containers -> Entry], NEW c \in Containers, NEW e, Put(c, e), Write(c, e)
  PROVE  KeyWrites
<1>1. store'[c] = e /\ \A d \in Containers : d # c => store'[d] = store[d]
  BY DEF Put
<1> QED BY <1>1 DEF KeyWrites

\* A compare-and-set of this program.
LEMMA CasWrites ==
  ASSUME store \in [Containers -> Entry], NEW c \in Containers, NEW e, NEW condition,
         Cas(c, condition, e), condition => Write(c, e)
  PROVE  KeyWrites
<1>1. CASE condition
  <2>1. Put(c, e)
    BY <1>1, Zenon DEF Cas, Put
  <2> QED BY <1>1, <2>1, PutWrites
<1>2. CASE ~condition
  <2>1. UNCHANGED store
    BY <1>2, Zenon DEF Cas
  <2> QED BY <2>1, KeysUnwritten
<1> QED BY <1>1, <1>2

-----------------------------------------------------------------------------
(* Where launches and teardowns come from. *)

\* k wins a free container in this step.
Wins(k) == \E c \in Containers :
  /\ store[c].st = "free" /\ store'[c] = Session(k)
  /\ req[k].at = None /\ req'[k].at = c /\ Preparing(k)'

\* A launch began with a win.
LaunchesFrom == \A k \in Claims :
  Launching(k)' => (Launching(k) /\ req'[k].at = req[k].at) \/ Wins(k)

\* Short of an activate, a preparation ends with an abort or a restart.
PrepsFrom == \A k \in Claims :
  Preparing(k) => Preparing(k)' \/ AbortClaim(k) \/ Crash

\* A teardown keeps its session and container, and begins from a session that may
\* end, or that nobody beats on.
OfsFrom == \A t \in Tasks : task'[t].of # None =>
  \/ task'[t].of = task[t].of /\ task'[t].at = task[t].at
  \/ "sweep" \in Env
  \/ /\ task'[t].at \in Containers /\ SameClaim(store[task'[t].at], task'[t].of)
     /\ MayEnd(task'[t].of) \/ Stale(store[task'[t].at])

StepFrom  == KeyWrites /\ LaunchesFrom /\ OfsFrom
StoreFrom == StepFrom /\ PrepsFrom

\* A step that moves no request.
LEMMA NobodyMoves ==
  ASSUME UNCHANGED req
  PROVE  LaunchesFrom /\ PrepsFrom
  BY DEF LaunchesFrom, PrepsFrom, Launching, Preparing

\* A step of one request.
LEMMA OneMoves ==
  ASSUME NEW k \in Claims, NEW p, NEW a, NEW i, NEW h, Moved(k, p, a, i, h),
         p \in {"probe", "hydrate", "activate", "stamp"} =>
           (Launching(k) /\ a = req[k].at) \/ Wins(k),
         Preparing(k) => p \in {"probe", "hydrate", "activate"} \/ AbortClaim(k) \/ Crash
  PROVE  LaunchesFrom /\ PrepsFrom
<1>1. \A j \in Claims : j # k => req'[j] = req[j]
  BY DEF Moved
<1>2. req'[k].pc = p /\ req'[k].at = a
  BY DEF Moved
<1> QED BY <1>1, <1>2 DEF LaunchesFrom, PrepsFrom, Launching, Preparing

\* A step that leaves every teardown its session, or ends it.
LEMMA NobodyBegins ==
  ASSUME \A t \in Tasks : \/ task'[t].of = None
                          \/ task'[t].of = task[t].of /\ task'[t].at = task[t].at
  PROVE  OfsFrom
  BY DEF OfsFrom

\* A request that walks on without a container.
LEMMA WalkFrom ==
  ASSUME NEW k \in Claims, NEW p \in {"try", "scan", "over", "wait"}, NEW i, NEW h,
         Moved(k, p, req[k].at, i, h), ~Preparing(k), UNCHANGED store
  PROVE  KeyWrites /\ LaunchesFrom /\ PrepsFrom
  BY OneMoves, KeysUnwritten

\* ArriveClaim and RefuseClaim win nothing.
LEMMA ArriveFrom ==
  ASSUME IInv, NEW k \in Claims, ArriveClaim(k) \/ RefuseClaim(k)
  PROVE  StoreFrom
<1>1. PICK p \in {"try", "over"} : Moved(k, p, req[k].at, req[k].idx, req[k].hold)
  BY ReqFacts, MovePc DEF ArriveClaim, RefuseClaim, ReqGoto, ReqPcs
<1>2. ~Preparing(k) /\ UNCHANGED <<store, task>>
  BY DEF ArriveClaim, RefuseClaim, Preparing
<1> QED BY <1>1, <1>2, WalkFrom, NobodyBegins DEF StepFrom, StoreFrom

\* A claim that wins a free container writes its own session there.
LEMMA WinFrom ==
  ASSUME IInv, NEW k \in Claims, NEW c \in Containers, NEW p \in {"probe", "activate"},
         store[c].st = "free", Put(c, Session(k)), req[k].at = None, ~Preparing(k),
         req' = [req EXCEPT ![k].pc = p, ![k].at = c], UNCHANGED task
  PROVE  StoreFrom
<1>1. Moved(k, p, c, req[k].idx, req[k].hold)
  BY ReqFacts, MoveAt DEF ReqPcs
<1>2. store'[c] = Session(k)
  BY DEF Put, IInv, TypeOK
<1>3. Wins(k)
  BY <1>1, <1>2 DEF Wins, Moved, Preparing
<1>4. Write(c, Session(k))
  BY <1>1 DEF Write, Moved, Preparing
<1>5. KeyWrites
  BY <1>4, ReqFacts, PutWrites
<1> QED BY <1>1, <1>3, <1>5, OneMoves, NobodyBegins DEF StepFrom, StoreFrom

\* TryClaim wins a free container or walks on.
LEMMA TryFrom ==
  ASSUME IInv, NEW k \in Claims, TryClaim(k)
  PROVE  StoreFrom
<1> DEFINE c == Pool[req[k].idx]
<1>1. req[k].pc = "try" /\ req[k].at = None /\ req[k].idx > 0 /\ req[k].idx <= Len(Pool)
  BY ReqFacts DEF TryClaim, ReqOK
<1>2. c \in Containers /\ ~Preparing(k) /\ UNCHANGED task
  BY <1>1, ReqFacts, PoolFact DEF TryClaim, Preparing
<1>3. CASE store[c].st = "free"
  BY <1>1, <1>2, <1>3, WinFrom DEF TryClaim
<1>4. CASE store[c].st # "free" /\ req[k].idx < Len(Pool)
  <2>1. req' = [req EXCEPT ![k].idx = req[k].idx + 1] /\ UNCHANGED store
    BY <1>4 DEF TryClaim
  <2>2. req[k].idx + 1 \in Nat
    BY ReqFacts
  <2>3. Moved(k, "try", req[k].at, req[k].idx + 1, req[k].hold)
    BY <1>1, <2>1, <2>2, ReqFacts, MoveIdx
  <2> QED BY <1>2, <2>1, <2>3, WalkFrom, NobodyBegins DEF StepFrom, StoreFrom
<1>5. CASE store[c].st # "free" /\ ~(req[k].idx < Len(Pool))
  <2>1. req' = [req EXCEPT ![k].pc = "scan", ![k].idx = 1] /\ UNCHANGED store
    BY <1>5 DEF TryClaim
  <2>2. Moved(k, "scan", req[k].at, 1, req[k].hold)
    BY <2>1, ReqFacts, MovePcIdx DEF ReqPcs
  <2> QED BY <1>2, <2>1, <2>2, WalkFrom, NobodyBegins DEF StepFrom, StoreFrom
<1> QED BY <1>3, <1>4, <1>5

\* RetryClaim wins a free container or walks on.
LEMMA RetryFrom ==
  ASSUME IInv, NEW k \in Claims, RetryClaim(k)
  PROVE  StoreFrom
<1> DEFINE c == Pool[req[k].idx]
<1>1. req[k].pc = "retry" /\ req[k].at = None /\ req[k].idx > 0 /\ req[k].idx <= Len(Pool)
  BY ReqFacts DEF RetryClaim, ReqOK
<1>2. c \in Containers /\ ~Preparing(k) /\ UNCHANGED task
  BY <1>1, ReqFacts, PoolFact DEF RetryClaim, Preparing
<1>3. CASE store[c].st = "free"
  BY <1>1, <1>2, <1>3, WinFrom DEF RetryClaim
<1>4. CASE store[c].st # "free"
  <2>1. Moved(k, "scan", req[k].at, req[k].idx + 1, req[k].hold) /\ UNCHANGED store
    BY <1>4, NextCandidateMoves DEF RetryClaim
  <2> QED BY <1>2, <2>1, WalkFrom, NobodyBegins DEF StepFrom, StoreFrom
<1> QED BY <1>3, <1>4

\* ClaimDesktop wins the free container it names or is refused.
LEMMA DesktopFrom ==
  ASSUME IInv, NEW k \in Claims, NEW c \in Containers, ClaimDesktop(k, c)
  PROVE  StoreFrom
<1>1. req[k].pc = "idle" /\ req[k].at = None /\ ~Preparing(k) /\ UNCHANGED task
  BY ReqFacts DEF ClaimDesktop, ReqOK, Preparing
<1>2. CASE store[c].st = "free"
  BY <1>1, <1>2, WinFrom DEF ClaimDesktop
<1>3. CASE store[c].st # "free"
  <2>1. Moved(k, "over", req[k].at, req[k].idx, req[k].hold) /\ UNCHANGED store
    BY <1>3, ReqFacts, MovePc DEF ClaimDesktop, ReqGoto, ReqPcs
  <2> QED BY <1>1, <2>1, WalkFrom, NobodyBegins DEF StepFrom, StoreFrom
<1> QED BY <1>2, <1>3

\* ScanStale begins a teardown of a stale session only.
LEMMA ScanFrom ==
  ASSUME IInv, NEW k \in Claims, ScanStale(k)
  PROVE  StoreFrom
<1> DEFINE c == Pool[req[k].idx]
<1>1. /\ req[k].pc = "scan" /\ req[k].idx > 0 /\ req[k].idx <= Len(Pool)
      /\ ~Preparing(k) /\ UNCHANGED store
  BY ReqFacts DEF ScanStale, ReqOK, Preparing
<1>2. c \in Containers
  BY <1>1, ReqFacts, PoolFact
<1>3. CASE ~Stale(store[c])
  <2>1. Moved(k, "scan", req[k].at, req[k].idx + 1, req[k].hold) /\ UNCHANGED task
    BY <1>3, NextCandidateMoves DEF ScanStale
  <2> QED BY <1>1, <2>1, WalkFrom, NobodyBegins DEF StepFrom, StoreFrom
<1>4. CASE Stale(store[c])
  <2>1. PICK t \in Tasks :
          task' = [task EXCEPT ![t] = Teardown("abandoned", "mark", c, store[c].by, k)]
    BY <1>4 DEF ScanStale
  <2>2. /\ task'[t].of = store[c].by /\ task'[t].at = c
        /\ \A u \in Tasks : u # t => task'[u] = task[u]
    BY <2>1, TaskFacts DEF Teardown
  <2>3. OfsFrom
    BY <1>2, <1>4, <2>2 DEF OfsFrom, Stale, SameClaim
  <2>4. Moved(k, "wait", req[k].at, req[k].idx, req[k].hold)
    BY <1>4, ReqFacts, MovePc DEF ScanStale, ReqGoto, ReqPcs
  <2> QED BY <1>1, <2>3, <2>4, WalkFrom DEF StepFrom, StoreFrom
<1> QED BY <1>3, <1>4

\* WaitTimesOut walks on.
LEMMA TimeoutFrom ==
  ASSUME IInv, NEW k \in Claims, WaitTimesOut(k)
  PROVE  StoreFrom
<1>1. Moved(k, "scan", req[k].at, req[k].idx + 1, req[k].hold)
  BY NextCandidateMoves DEF WaitTimesOut
<1>2. \A t \in Tasks : task'[t].of = task[t].of /\ task'[t].at = task[t].at
  <2> TAKE t \in Tasks
  <2>1. task[t] \in TaskState
    BY TaskFacts
  <2>2. task'[t] = task[t] \/ task'[t] = [task[t] EXCEPT !.waiter = None]
    BY DEF WaitTimesOut
  <2> QED BY <2>1, <2>2 DEF TaskState
<1>3. ~Preparing(k) /\ UNCHANGED store
  BY DEF WaitTimesOut, Preparing
<1> QED BY <1>1, <1>2, <1>3, WalkFrom, NobodyBegins DEF StepFrom, StoreFrom

\* A launching claim writes only what its guards allow.
LEMMA PrepareFrom ==
  ASSUME IInv, NEW k \in Claims,
         SettleCard(k) \/ Hydrated(k) \/ StampLaunched(k) \/ AbortClaim(k)
  PROVE  StoreFrom
<1> DEFINE c == req[k].at
<1>1. Launching(k) /\ c \in Containers /\ UNCHANGED task
  BY ReqFacts DEF Launching, SettleCard, Hydrated, StampLaunched, AbortClaim, ReqOK
<1>2. LaunchesFrom /\ PrepsFrom
  <2>1. CASE SettleCard(k)
    <3>1. Moved(k, "hydrate", c, req[k].idx, req[k].hold)
      BY <2>1, ReqFacts, MovePc DEF SettleCard, ReqGoto, ReqPcs
    <3> QED BY <1>1, <3>1, OneMoves
  <2>2. CASE Hydrated(k)
    <3>1. Moved(k, "activate", c, req[k].idx, "armed")
      BY <2>2, ReqFacts, MovePcHold DEF Hydrated, ReqPcs, Holds
    <3> QED BY <1>1, <3>1, OneMoves
  <2>3. CASE StampLaunched(k)
    <3>1. Moved(k, "up", c, req[k].idx, req[k].hold)
      BY <2>3, ReqFacts, MovePc DEF StampLaunched, ReqGoto, ReqPcs
    <3>2. ~Preparing(k)
      BY <2>3 DEF StampLaunched, Preparing
    <3> QED BY <3>1, <3>2, OneMoves
  <2>4. CASE AbortClaim(k)
    <3>1. Moved(k, "over", c, req[k].idx, "off")
      BY <2>4, ReqFacts, MovePcHold DEF AbortClaim, ReqPcs, Holds
    <3> QED BY <2>4, <3>1, OneMoves
  <2> QED BY <2>1, <2>2, <2>3, <2>4
<1>3. KeyWrites
  <2>1. CASE UNCHANGED store
    BY <2>1, KeysUnwritten
  <2>2. CASE SettleCard(k) /\ CardSync /\ Cas(c, store[c].st # "free", Merged(store[c], k))
    <3>1. Write(c, Merged(store[c], k))
      BY <1>1, <2>2 DEF Write
    <3> QED BY <1>1, <2>2, <3>1, ReqFacts, CasWrites
  <2>3. CASE Cas(c, SameClaim(store[c], k), Merged(store[c], k))
    <3>1. SameClaim(store[c], k) => Write(c, Merged(store[c], k))
      BY DEF Write
    <3> QED BY <1>1, <2>3, <3>1, ReqFacts, CasWrites
  <2>4. CASE AbortClaim(k) /\ Cas(c, SameClaim(store[c], k), Free)
    <3>1. SameClaim(store[c], k) => Write(c, Free)
      BY <2>4 DEF Write, Freeing, SameClaim
    <3> QED BY <1>1, <2>4, <3>1, ReqFacts, CasWrites
  <2> QED BY <2>1, <2>2, <2>3, <2>4
      DEF SettleCard, Hydrated, StampLaunched, AbortClaim, Contended
<1> QED BY <1>1, <1>2, <1>3, NobodyBegins DEF StepFrom, StoreFrom

\* Activate launches a claim that was launching.
LEMMA ActivateFrom ==
  ASSUME IInv, NEW k \in Claims, Activate(k)
  PROVE  StepFrom
<1>1. Moved(k, "stamp", req[k].at, req[k].idx, "off")
  BY ReqFacts, MovePcHold DEF Activate, ReqPcs, Holds
<1>2. Launching(k) /\ UNCHANGED <<store, task>>
  BY DEF Activate, Launching
<1>3. LaunchesFrom
  BY <1>1, <1>2 DEF LaunchesFrom, Moved, Launching
<1> QED BY <1>2, <1>3, KeysUnwritten, NobodyBegins DEF StepFrom

\* HoldClaim restamps its own session, HoldOverruns writes nothing.
LEMMA HoldFrom ==
  ASSUME IInv, NEW k \in Claims, HoldClaim(k) \/ HoldOverruns(k)
  PROVE  StoreFrom
<1> DEFINE c == req[k].at
<1>1. c \in Containers /\ UNCHANGED task
  BY ReqFacts DEF HoldClaim, HoldOverruns, ReqOK
<1>2. PICK h \in {"ticking", "off"} : req' = [req EXCEPT ![k].hold = h]
  BY DEF HoldClaim, HoldOverruns
<1>3. Moved(k, req[k].pc, c, req[k].idx, h)
  BY <1>2, ReqFacts, MoveHold DEF Holds
<1>4. LaunchesFrom /\ PrepsFrom
  BY <1>3, OneMoves DEF Launching, Preparing
<1>5. SameClaim(store[c], k) => Write(c, Restamped(store[c]))
  BY DEF Write, SameClaim
<1>6. KeyWrites
  BY <1>1, <1>5, ReqFacts, CasWrites, KeysUnwritten DEF HoldClaim, HoldOverruns
<1> QED BY <1>1, <1>4, <1>6, NobodyBegins DEF StepFrom, StoreFrom

\* The requests on a live session: a beat restamps, a swap writes to its own
\* session, a control extends the TTL.
LEMMA OpFrom ==
  ASSUME IInv, NEW o \in Ops, OpStep(o) \/ \E c \in Containers : BeginOp(o, c)
  PROVE  StoreFrom
<1> DEFINE c == op[o].at
           k == op[o].of
<1>1. UNCHANGED <<req, task>>
  BY DEF OpStep, BeginOp, Heartbeat, Refresh, SwapDisc, FailOp
<1>2. KeyWrites
  <2>1. CASE UNCHANGED store
    BY <2>1, KeysUnwritten
  <2>2. CASE op[o].kind = "heartbeat" /\ Cas(c, store[c].st = "claim", Restamped(store[c]))
    <3>1. store[c].st = "claim" => Write(c, Restamped(store[c]))
      BY DEF Write
    <3> QED BY <2>2, <3>1, OpFacts, CasWrites
  <2>3. CASE Refresh(o)
    <3>1. op[o].kind = "control" /\ "control" \in Env
      BY <2>3 DEF Refresh, IInv, OpInv
    <3>2. Write(c, [store[c] EXCEPT !.ttl = "full"])
      BY <3>1 DEF Write
    <3> QED BY <2>3, <3>1, <3>2, OpFacts, CasWrites DEF Refresh
  <2>4. CASE op[o].kind = "swap" /\ Cas(c, SameClaim(store[c], k), Merged(store[c], k))
    <3>1. SameClaim(store[c], k) => Write(c, Merged(store[c], k))
      BY <2>4, OpFacts DEF Write
    <3> QED BY <2>4, <3>1, OpFacts, CasWrites
  <2> QED BY <2>1, <2>2, <2>3, <2>4
      DEF OpStep, BeginOp, Heartbeat, Refresh, SwapDisc, FailOp, Contended
<1> QED BY <1>1, <1>2, NobodyMoves, NobodyBegins DEF StepFrom, StoreFrom

\* BeginTask begins a teardown of a session that may end.
LEMMA BeginFrom ==
  ASSUME IInv, NEW t \in Tasks, NEW c \in Containers, NEW kd, NEW p, BeginTask(t, c, kd, p)
  PROVE  StoreFrom
<1>1. /\ task' = [task EXCEPT ![t] = Teardown(kd, p, c, store[c].by, None)]
      /\ SameClaim(store[c], store[c].by) /\ MayEnd(store[c].by) /\ UNCHANGED <<store, req>>
  BY DEF BeginTask, SameClaim
<1>2. /\ task'[t].of = store[c].by /\ task'[t].at = c
      /\ \A u \in Tasks : u # t => task'[u] = task[u]
  BY <1>1, TaskFacts DEF Teardown
<1>3. OfsFrom
  BY <1>1, <1>2 DEF OfsFrom
<1> QED BY <1>1, <1>3, NobodyMoves, KeysUnwritten DEF StepFrom, StoreFrom

\* Reread is the sweep's.
LEMMA RereadFrom ==
  ASSUME IInv, NEW t \in Tasks, Reread(t)
  PROVE  StoreFrom
<1>1. "sweep" \in Env /\ UNCHANGED <<store, req>>
  BY TaskFacts DEF Reread, TaskOK
<1> QED BY <1>1, NobodyMoves, KeysUnwritten DEF StepFrom, StoreFrom, OfsFrom

\* Quiesce, Kill and Collect write no key.
LEMMA ProceedFrom ==
  ASSUME IInv, NEW t \in Tasks, NEW p, task' = [task EXCEPT ![t].pc = p],
         UNCHANGED <<store, req>>
  PROVE  StoreFrom
<1>1. \A u \in Tasks : task'[u].of = task[u].of /\ task'[u].at = task[u].at
  <2>1. task \in [Tasks -> TaskState]
    BY TaskFacts
  <2> QED BY <2>1 DEF TaskState
<1> QED BY <1>1, NobodyMoves, NobodyBegins, KeysUnwritten DEF StepFrom, StoreFrom

\* A teardown that ends: the claim that waited for it walks on.
LEMMA FinishFrom ==
  ASSUME IInv, NEW t \in Tasks, NEW freed \in BOOLEAN, Finish(t, freed)
  PROVE  /\ LaunchesFrom /\ PrepsFrom /\ OfsFrom
         /\ task[t].pc # "idle" => task'[t].pc # task[t].pc
<1> DEFINE w == task[t].waiter
<1>1. Works(t, "none", "idle", None, None, FALSE, "off", None)
  BY TaskFacts, WorkDone DEF Finish
<1>2. OfsFrom /\ (task[t].pc # "idle" => task'[t].pc # task[t].pc)
  BY <1>1, NobodyBegins DEF Works
<1>3. CASE w = None
  BY <1>2, <1>3, NobodyMoves DEF Finish
<1>4. CASE w # None
  <2>1. w \in Claims /\ req[w].pc = "wait"
    BY <1>4, TaskFacts DEF IInv, WaitInv
  <2>2. ~Preparing(w)
    BY <2>1 DEF Preparing
  <2>3. CASE freed
    <3>1. req' = [req EXCEPT ![w].pc = "retry"]
      BY <1>4, <2>3, Zenon DEF Finish
    <3>2. Moved(w, "retry", req[w].at, req[w].idx, req[w].hold)
      BY <2>1, <3>1, ReqFacts, MovePc DEF ReqPcs
    <3> QED BY <1>2, <2>1, <2>2, <3>2, OneMoves
  <2>4. CASE ~freed
    <3>1. req' = NextCandidate(w)
      BY <1>4, <2>4, Zenon DEF Finish
    <3>2. Moved(w, "scan", req[w].at, req[w].idx + 1, req[w].hold)
      BY <2>1, <3>1, NextCandidateMoves
    <3> QED BY <1>2, <2>1, <2>2, <3>2, OneMoves
  <2> QED BY <2>3, <2>4
<1> QED BY <1>2, <1>3, <1>4

\* A teardown that takes the claim into its marker.
LEMMA ReserveFrom ==
  ASSUME IInv, NEW t \in Tasks, NEW p \in {"quiesce", "collect"}, p # task[t].pc,
         \/ task[t].kind = "exit" /\ task[t].pc = "give" /\ p = "collect"
         \/ /\ task[t].pc = "mark" /\ p = "quiesce"
            /\ task[t].kind = "release" \/ (task[t].kind = "abandoned" /\ Stale(store[task[t].at])),
         SameClaim(store[task[t].at], task[t].of), Put(task[t].at, Marker(task[t].of)),
         task' = Reserved(t, p), UNCHANGED req
  PROVE  StoreFrom
<1> DEFINE c == task[t].at
           k == task[t].of
<1>1. c \in Containers
  BY TaskFacts DEF TaskOK
<1>2. Works(t, task[t].kind, p, c, k, TRUE, "ticking", task[t].waiter)
  BY TaskFacts, WorkReserved DEF TaskPcs
<1>3. Draining(c) /\ store[c].by = k
  BY <1>2 DEF Draining, GoesOn, SameClaim, Works
<1>4. Write(c, Marker(k))
  BY <1>3 DEF Write
<1>5. KeyWrites
  BY <1>1, <1>4, TaskFacts, PutWrites
<1>6. OfsFrom
  BY <1>2, NobodyBegins DEF Works
<1> QED BY <1>5, <1>6, NobodyMoves DEF StepFrom, StoreFrom

\* MarkOrSkip, of a release or an exit.
LEMMA MarkOrSkipFrom ==
  ASSUME IInv, NEW t \in Tasks, NEW p \in {"quiesce", "collect"},
         \/ task[t].kind = "exit" /\ task[t].pc = "give" /\ p = "collect"
         \/ task[t].kind = "release" /\ task[t].pc = "mark" /\ p = "quiesce",
         MarkOrSkip(t, p)
  PROVE  StoreFrom
<1>1. CASE /\ SameClaim(store[task[t].at], task[t].of)
           /\ Put(task[t].at, Marker(task[t].of)) /\ task' = Reserved(t, p)
           /\ UNCHANGED req
  BY <1>1, ReserveFrom
<1>2. CASE Finish(t, FALSE) /\ UNCHANGED store
  BY <1>2, FinishFrom, KeysUnwritten DEF StepFrom, StoreFrom
<1>3. CASE Contended /\ task' = Unmarked(t, p) /\ UNCHANGED req
  <2>1. Works(t, task[t].kind, p, task[t].at, task[t].of, task[t].token, "armed",
              task[t].waiter)
    BY <1>3, TaskFacts, WorkUnmarked DEF TaskPcs
  <2>2. OfsFrom
    BY <2>1, NobodyBegins DEF Works
  <2> QED BY <1>3, <2>2, NobodyMoves, KeysUnwritten DEF StepFrom, StoreFrom, Contended
<1> QED BY <1>1, <1>2, <1>3 DEF MarkOrSkip

\* MarkAbandoned takes only a stale session.
LEMMA MarkAbandonedFrom ==
  ASSUME IInv, NEW t \in Tasks, MarkAbandoned(t)
  PROVE  StoreFrom
<1>1. CASE /\ SameClaim(store[task[t].at], task[t].of) /\ Stale(store[task[t].at])
           /\ Put(task[t].at, Marker(task[t].of)) /\ task' = Reserved(t, "quiesce")
           /\ UNCHANGED req
  BY <1>1, ReserveFrom DEF MarkAbandoned
<1>2. CASE Finish(t, FALSE) /\ UNCHANGED store
  BY <1>2, FinishFrom, KeysUnwritten DEF StepFrom, StoreFrom
<1> QED BY <1>1, <1>2 DEF MarkAbandoned, Contended

\* LetGo and Brief end their own session, as its exit.
LEMMA ExitEndFrom ==
  ASSUME IInv, NEW t \in Tasks, LetGo(t) \/ Brief(t)
  PROVE  StoreFrom
<1> DEFINE c == task[t].at
           k == task[t].of
<1>1. /\ c \in Containers /\ task[t].kind = "exit" /\ task[t].pc # "idle" /\ Finish(t, FALSE)
      /\ LetGo(t) => task[t].pc = "let-go"
      /\ Brief(t) => task[t].pc = "brief"
  BY TaskFacts DEF LetGo, Brief, TaskOK
<1>2. LaunchesFrom /\ PrepsFrom /\ OfsFrom /\ task'[t].pc # task[t].pc
  BY <1>1, FinishFrom
<1>3. SameClaim(store[c], k) => /\ LetGo(t) => Write(c, Free)
                                /\ Brief(t) => Write(c, Marker(k))
  BY <1>1, <1>2 DEF Write, Freeing, Draining, GoesOn, SameClaim
<1>4. KeyWrites
  BY <1>1, <1>3, TaskFacts, CasWrites, KeysUnwritten DEF LetGo, Brief, Contended
<1> QED BY <1>2, <1>4 DEF StepFrom, StoreFrom

\* Drop clears its own marker, its own claim, or, in a sweep, anything.
LEMMA DropFrom ==
  ASSUME IInv, NEW t \in Tasks, Drop(t)
  PROVE  StoreFrom
<1> DEFINE c == task[t].at
           k == task[t].of
           mine == IF task[t].token THEN HoldsToken(store[c], k) ELSE SameClaim(store[c], k)
<1>1. /\ c \in Containers /\ task[t].pc = "drop" /\ Finish(t, TRUE)
      /\ task[t].kind \in Env \cup {"none", "abandoned"} /\ task[t].kind # "none"
      /\ task[t].kind = "abandoned" => task[t].token
  BY TaskFacts DEF Drop, TaskOK
<1>2. LaunchesFrom /\ PrepsFrom /\ OfsFrom /\ task'[t].pc # task[t].pc
  BY <1>1, FinishFrom
<1>3. CASE task[t].kind = "sweep" /\ Put(c, Free)
  <2>1. Write(c, Free)
    BY <1>1, <1>3 DEF Write, Freeing
  <2> QED BY <1>1, <1>2, <1>3, <2>1, TaskFacts, PutWrites DEF StepFrom, StoreFrom
<1>4. CASE Cas(c, mine, Free)
  <2>1. mine => Write(c, Free)
    <3>1. CASE HoldsToken(store[c], k)
      BY <3>1 DEF Write, Freeing, HoldsToken
    <3>2. CASE SameClaim(store[c], k) /\ ~task[t].token
      <4>1. task[t].kind \in {"release", "exit", "sweep"}
        BY <1>1, <3>2, TaskFacts DEF Kinds
      <4> QED BY <1>1, <1>2, <3>2, <4>1 DEF Write, Freeing, GoesOn, SameClaim
    <3> QED BY <3>1, <3>2
  <2>2. KeyWrites
    <3> HIDE DEF mine
    <3> QED BY <1>1, <1>4, <2>1, TaskFacts, CasWrites
  <2> QED BY <1>2, <2>2 DEF StepFrom, StoreFrom
<1>5. CASE Contended
  BY <1>2, <1>5, KeysUnwritten DEF StepFrom, StoreFrom, Contended
<1> QED BY <1>3, <1>4, <1>5 DEF Drop

\* KeepAlive refreshes its own marker or its own claim.
LEMMA KeepFrom ==
  ASSUME IInv, NEW t \in Tasks, KeepAlive(t) \/ KeepOverruns(t)
  PROVE  StoreFrom
<1> DEFINE c == task[t].at
           k == task[t].of
           held == IF task[t].token THEN HoldsToken(store[c], k) ELSE SameClaim(store[c], k)
           e == IF task[t].token THEN Marker(k) ELSE Restamped(store[c])
<1>1. c \in Containers /\ UNCHANGED req
  BY TaskFacts DEF KeepAlive, KeepOverruns, TaskOK
<1>2. OfsFrom
  <2>1. PICK h \in {"ticking", "off"} : task' = [task EXCEPT ![t].keep = h]
    BY DEF KeepAlive, KeepOverruns
  <2>2. Works(t, task[t].kind, task[t].pc, c, k, task[t].token, h, task[t].waiter)
    BY <2>1, TaskFacts, WorkKeep DEF Holds
  <2> QED BY <2>2, NobodyBegins DEF Works
<1>3. held => Write(c, e)
  BY DEF Write, Draining, HoldsToken, SameClaim
<1>4. Cas(c, held, e) \/ UNCHANGED store
  BY DEF KeepAlive, KeepOverruns
<1>5. KeyWrites
  <2> HIDE DEF held, e
  <2> QED BY <1>1, <1>3, <1>4, TaskFacts, CasWrites, KeysUnwritten
<1> QED BY <1>1, <1>2, <1>5, NobodyMoves DEF StepFrom, StoreFrom

\* Age and Expire end nobody who beats.
LEMMA TimeFrom ==
  ASSUME IInv, NEW c \in Containers, Age(c) \/ Expire(c)
  PROVE  StoreFrom
<1>1. store \in [Containers -> Entry] /\ UNCHANGED <<req, task>>
  BY DEF IInv, TypeOK, Age, Expire
<1>2. CASE Age(c)
  <2>1. Write(c, [store[c] EXCEPT !.fresh = FALSE])
    BY <1>2 DEF Age, Write
  <2> QED BY <1>1, <1>2, <2>1, PutWrites, NobodyMoves, NobodyBegins DEF Age, StepFrom, StoreFrom
<1>3. CASE Expire(c)
  <2>1. Write(c, Free)
    BY <1>3 DEF Expire, Write, Freeing
  <2> QED BY <1>1, <1>3, <2>1, PutWrites, NobodyMoves, NobodyBegins DEF Expire, StepFrom, StoreFrom
<1> QED BY <1>2, <1>3

\* A restart launches nobody and begins no teardown.
LEMMA CrashFrom ==
  ASSUME IInv, Crash
  PROVE  StoreFrom
<1>1. \A k \in Claims : Launching(k)' => Launching(k) /\ req'[k].at = req[k].at
  <2> SUFFICES ASSUME NEW k \in Claims, Launching(k)'
               PROVE  Launching(k) /\ req'[k].at = req[k].at
    OBVIOUS
  <2>1. req[k] \in ReqState
    BY DEF IInv, TypeOK
  <2>2. CASE req[k].pc \in {"idle", "up", "over"}
    <3>1. req'[k] = req[k]
      BY <2>2 DEF Crash
    <3> QED BY <2>2, <3>1 DEF Launching
  <2>3. CASE req[k].pc \notin {"idle", "up", "over"}
    <3>1. req'[k] = [req[k] EXCEPT !.pc = "over", !.hold = "off"]
      BY <2>3 DEF Crash
    <3>2. req'[k].pc = "over"
      BY <2>1, <3>1 DEF ReqState
    <3> QED BY <3>2 DEF Launching
  <2> QED BY <2>2, <2>3
<1>2. LaunchesFrom /\ PrepsFrom
  BY <1>1 DEF LaunchesFrom, PrepsFrom
<1>3. \A t \in Tasks : task'[t].of = None
  BY DEF Crash, IdleTask, Teardown
<1> QED BY <1>2, <1>3, NobodyBegins, KeysUnwritten DEF StepFrom, StoreFrom, Crash

\* Every step that leaves the emulator alone.
LEMMA StoreStepFrom ==
  ASSUME IInv, StoreStep
  PROVE  StoreFrom
<1>1. ASSUME NEW k \in Claims, ClaimStep(k) \/ PrepareStep(k)
      PROVE  StoreFrom
  BY <1>1, TryFrom, ScanFrom, TimeoutFrom, RetryFrom, ArriveFrom, PrepareFrom
  DEF ClaimStep, PrepareStep
<1>2. ASSUME NEW t \in Tasks, TaskStep(t)
      PROVE  StoreFrom
  <2>1. CASE MarkReleased(t) \/ Give(t)
    BY <2>1, MarkOrSkipFrom, TaskFacts DEF MarkReleased, Give, TaskOK
  <2> QED BY <1>2, <2>1, MarkAbandonedFrom, RereadFrom, ExitEndFrom, DropFrom DEF TaskStep
<1>3. ASSUME NEW t \in Tasks, NEW c \in Containers,
             BeginRelease(t, c) \/ BeginExit(t, c) \/ BeginSweep(t, c)
      PROVE  StoreFrom
  BY <1>3, BeginFrom DEF BeginRelease, BeginExit, BeginSweep
<1> QED BY <1>1, <1>2, <1>3, ArriveFrom, HoldFrom, DesktopFrom, OpFrom, KeepFrom, TimeFrom,
           CrashFrom DEF StoreStep, SessionStep

\* Every step of the specification.
LEMMA NextFrom ==
  ASSUME IInv, [Next]_vars
  PROVE  StepFrom
<1>1. CASE StoreStep
  BY <1>1, StoreStepFrom DEF StoreFrom
<1>2. CASE BrokerStep
  <2>1. ASSUME NEW t \in Tasks,
               Quiesce(t) \/ Collect(t) \/ \E saved, wait \in BOOLEAN : Kill(t, saved, wait)
        PROVE  StepFrom
    BY <2>1, ProceedFrom DEF Quiesce, Collect, Kill, StoreFrom
  <2> QED BY <1>2, <2>1, ActivateFrom DEF BrokerStep
<1>3. CASE UNCHANGED vars
  BY <1>3, NobodyMoves, NobodyBegins, KeysUnwritten DEF vars, StepFrom
<1> QED BY <1>1, <1>2, <1>3 DEF Next

-----------------------------------------------------------------------------
(* How far a teardown or a request gets in a step. *)

\* The teardown keeps its session, its container and its place.
Stays(t) == task'[t].pc = task[t].pc /\ task'[t].at = task[t].at /\ task'[t].of = task[t].of

\* A teardown begins from the session it reads.
Begins(t) ==
  /\ task[t].pc = "idle" /\ UNCHANGED store
  /\ task'[t].at \in Containers /\ SameClaim(store[task'[t].at], task'[t].of)
  /\ task'[t].pc \in {"mark", "kill", "reread"}

\* Short of a restart, a teardown outside the emulator stays, begins or takes its own
\* step.
LEMMA TaskMoves ==
  ASSUME IInv, StoreStep, ~Crash, NEW t \in Tasks
  PROVE  Stays(t) \/ Begins(t) \/ TaskStep(t)
<1>1. task \in [Tasks -> TaskState]
  BY TaskFacts
<1>2. ASSUME UNCHANGED task
      PROVE  Stays(t)
  BY <1>2 DEF Stays
<1>3. ASSUME NEW u \in Tasks, TaskStep(u)
      PROVE  Stays(t) \/ TaskStep(t)
  <2>1. \A v \in Tasks : v # u => task'[v] = task[v]
    BY <1>1, <1>3 DEF TaskStep, MarkReleased, MarkAbandoned, Reread, Give, LetGo, Brief, Drop,
       MarkOrSkip, Finish, Reserved, Unmarked
  <2> QED BY <1>3, <2>1 DEF Stays
<1>4. ASSUME NEW u \in Tasks, KeepAlive(u) \/ KeepOverruns(u)
      PROVE  Stays(t)
  <2>1. PICK h : task' = [task EXCEPT ![u].keep = h]
    BY <1>4, Zenon DEF KeepAlive, KeepOverruns
  <2> QED BY <1>1, <2>1 DEF Stays, TaskState
<1>5. ASSUME NEW u \in Tasks, NEW c \in Containers, NEW kd, NEW p \in {"mark", "kill", "reread"},
             NEW w, task' = [task EXCEPT ![u] = Teardown(kd, p, c, store[c].by, w)],
             task[u] = IdleTask, store[c].st = "claim", UNCHANGED store
      PROVE  Stays(t) \/ Begins(t)
  <2>1. CASE t = u
    <3>1. task'[t] = Teardown(kd, p, c, store[c].by, w)
      BY <1>1, <1>5, <2>1
    <3> QED BY <1>5, <2>1, <3>1 DEF Begins, Teardown, IdleTask, SameClaim
  <2>2. CASE t # u
    BY <1>1, <1>5, <2>2 DEF Stays
  <2> QED BY <2>1, <2>2
<1>6. ASSUME NEW u \in Tasks, NEW c \in Containers,
             BeginRelease(u, c) \/ BeginExit(u, c) \/ BeginSweep(u, c)
      PROVE  Stays(t) \/ Begins(t)
  BY <1>5, <1>6 DEF BeginRelease, BeginExit, BeginSweep, BeginTask
<1>7. ASSUME NEW k \in Claims, ScanStale(k)
      PROVE  Stays(t) \/ Begins(t)
  <2> DEFINE c == Pool[req[k].idx]
  <2>1. c \in Containers
    BY <1>7, ReqFacts, PoolFact DEF ScanStale, ReqOK
  <2>2. CASE Stale(store[c])
    <3>1. PICK u \in Tasks :
            /\ task[u] = IdleTask
            /\ task' = [task EXCEPT ![u] = Teardown("abandoned", "mark", c, store[c].by, k)]
      BY <1>7, <2>2 DEF ScanStale
    <3>2. UNCHANGED store /\ store[c].st = "claim"
      BY <1>7, <2>2 DEF ScanStale, Stale
    <3> QED BY <1>5, <2>1, <3>1, <3>2
  <2>3. CASE ~Stale(store[c])
    <3>1. UNCHANGED task
      BY <1>7, <2>3 DEF ScanStale
    <3> QED BY <1>2, <3>1
  <2> QED BY <2>2, <2>3
<1>8. ASSUME NEW k \in Claims, WaitTimesOut(k)
      PROVE  Stays(t)
  BY <1>1, <1>8 DEF WaitTimesOut, TaskState, Stays
<1>9. ASSUME NEW k \in Claims, ClaimStep(k) \/ PrepareStep(k) \/ ArriveClaim(k) \/ HoldClaim(k)
                               \/ HoldOverruns(k) \/ \E c \in Containers : ClaimDesktop(k, c)
      PROVE  Stays(t) \/ Begins(t)
  <2>1. CASE \/ TryClaim(k) \/ RetryClaim(k) \/ RefuseClaim(k) \/ StampLaunched(k) \/ SettleCard(k)
             \/ Hydrated(k) \/ AbortClaim(k) \/ ArriveClaim(k) \/ HoldClaim(k) \/ HoldOverruns(k)
             \/ \E c \in Containers : ClaimDesktop(k, c)
    <3>1. UNCHANGED task
      BY <2>1, Zenon DEF ArriveClaim, HoldClaim, HoldOverruns, ClaimDesktop, TryClaim, RetryClaim,
         RefuseClaim, StampLaunched, SettleCard, Hydrated, AbortClaim
    <3> QED BY <1>2, <3>1
  <2> QED BY <1>7, <1>8, <1>9, <2>1 DEF ClaimStep, PrepareStep
<1>10. ASSUME NEW o \in Ops, OpStep(o) \/ \E c \in Containers : BeginOp(o, c)
       PROVE  UNCHANGED task
  BY <1>10 DEF OpStep, BeginOp, Heartbeat, Refresh, SwapDisc, FailOp
<1>11. ASSUME NEW c \in Containers, Age(c) \/ Expire(c)
       PROVE  UNCHANGED task
  BY <1>11 DEF Age, Expire
<1> QED BY <1>2, <1>3, <1>4, <1>6, <1>9, <1>10, <1>11 DEF StoreStep, SessionStep

\* The places a request goes to in a step that neither prepares nor activates it.
Goes(p, q) ==
  \/ q = p
  \/ p = "stamp" /\ q = "up"
  \/ /\ p \in {"try", "scan", "wait", "retry"}
     /\ q \in {"try", "scan", "wait", "retry", "over", "probe"}

\* One request that goes on, and the others where they were.
LEMMA OneGoes ==
  ASSUME NEW j \in Claims, NEW p, NEW a, NEW i, NEW h, Moved(j, p, a, i, h), Goes(req[j].pc, p)
  PROVE  \A k \in Claims : Goes(req[k].pc, req'[k].pc)
  BY DEF Moved, Goes

\* Without desktops, a step that neither prepares nor activates a claim, nor restarts
\* the backend, leaves every request at its place or on its walk, or completes a launch.
LEMMA ReqMoves ==
  ASSUME IInv, SessionStep, ~Crash, Desktops = {}
  PROVE  \A k \in Claims : Goes(req[k].pc, req'[k].pc)
<1>1. CASE UNCHANGED req
  BY <1>1 DEF Goes
<1>2. ASSUME NEW j \in Claims, NEW c \in Containers, req[j].pc \in {"try", "retry"},
             req' = [req EXCEPT ![j].pc = "probe", ![j].at = c]
      PROVE  \A k \in Claims : Goes(req[k].pc, req'[k].pc)
  <2>1. Moved(j, "probe", c, req[j].idx, req[j].hold)
    BY <1>2, ReqFacts, MoveAt DEF ReqPcs
  <2> QED BY <1>2, <2>1, OneGoes DEF Goes
<1>3. ASSUME NEW j \in Claims, req[j].pc \in {"scan", "wait", "retry"}, req' = NextCandidate(j)
      PROVE  \A k \in Claims : Goes(req[k].pc, req'[k].pc)
  <2>1. Moved(j, "scan", req[j].at, req[j].idx + 1, req[j].hold)
    BY <1>3, NextCandidateMoves
  <2> QED BY <1>3, <2>1, OneGoes DEF Goes
<1>4. ASSUME NEW j \in Claims, NEW p \in {"wait", "over", "up", "retry"},
             req' = [req EXCEPT ![j].pc = p], Goes(req[j].pc, p)
      PROVE  \A k \in Claims : Goes(req[k].pc, req'[k].pc)
  <2>1. Moved(j, p, req[j].at, req[j].idx, req[j].hold)
    BY <1>4, ReqFacts, MovePc DEF ReqPcs
  <2> QED BY <1>4, <2>1, OneGoes
<1>5. ASSUME NEW j \in Claims, ClaimStep(j)
      PROVE  \A k \in Claims : Goes(req[k].pc, req'[k].pc)
  <2> DEFINE c == Pool[req[j].idx]
  <2>1. CASE TryClaim(j)
    <3>1. req[j].pc = "try" /\ c \in Containers
      BY <2>1, ReqFacts, PoolFact DEF TryClaim, ReqOK
    <3>2. CASE store[c].st = "free"
      BY <1>2, <2>1, <3>1, <3>2 DEF TryClaim
    <3>3. CASE store[c].st # "free" /\ req[j].idx < Len(Pool)
      <4>1. req' = [req EXCEPT ![j].idx = req[j].idx + 1]
        BY <2>1, <3>3 DEF TryClaim
      <4>2. req[j].idx + 1 \in Nat
        BY ReqFacts
      <4>3. Moved(j, req[j].pc, req[j].at, req[j].idx + 1, req[j].hold)
        BY <4>1, <4>2, ReqFacts, MoveIdx
      <4> QED BY <4>3, OneGoes DEF Goes
    <3>4. CASE store[c].st # "free" /\ ~(req[j].idx < Len(Pool))
      <4>1. req' = [req EXCEPT ![j].pc = "scan", ![j].idx = 1]
        BY <2>1, <3>4 DEF TryClaim
      <4>2. Moved(j, "scan", req[j].at, 1, req[j].hold)
        BY <4>1, ReqFacts, MovePcIdx DEF ReqPcs
      <4> QED BY <3>1, <4>2, OneGoes DEF Goes
    <3> QED BY <3>2, <3>3, <3>4
  <2>2. CASE RetryClaim(j)
    <3>1. req[j].pc = "retry" /\ c \in Containers
      BY <2>2, ReqFacts, PoolFact DEF RetryClaim, ReqOK
    <3> QED BY <1>2, <1>3, <2>2, <3>1 DEF RetryClaim
  <2>3. CASE ScanStale(j)
    BY <1>3, <1>4, <2>3 DEF ScanStale, ReqGoto, Goes
  <2>4. CASE WaitTimesOut(j)
    BY <1>3, <2>4 DEF WaitTimesOut
  <2>5. CASE RefuseClaim(j) \/ StampLaunched(j)
    BY <1>4, <2>5 DEF RefuseClaim, StampLaunched, ReqGoto, Goes
  <2> QED BY <1>5, <2>1, <2>2, <2>3, <2>4, <2>5 DEF ClaimStep
<1>6. ASSUME NEW j \in Claims, HoldClaim(j) \/ HoldOverruns(j)
      PROVE  \A k \in Claims : Goes(req[k].pc, req'[k].pc)
  <2>1. PICK h \in {"ticking", "off"} : req' = [req EXCEPT ![j].hold = h]
    BY <1>6 DEF HoldClaim, HoldOverruns
  <2>2. Moved(j, req[j].pc, req[j].at, req[j].idx, h)
    BY <2>1, ReqFacts, MoveHold DEF Holds
  <2> QED BY <2>2, OneGoes DEF Goes
<1>7. ASSUME NEW t \in Tasks, NEW freed \in BOOLEAN, Finish(t, freed)
      PROVE  \A k \in Claims : Goes(req[k].pc, req'[k].pc)
  <2> DEFINE w == task[t].waiter
  <2>1. CASE w = None
    BY <1>1, <1>7, <2>1 DEF Finish
  <2>2. CASE w # None
    <3>1. w \in Claims /\ req[w].pc = "wait"
      BY <2>2, TaskFacts DEF IInv, WaitInv
    <3>2. req' = [req EXCEPT ![w].pc = "retry"] \/ req' = NextCandidate(w)
      BY <1>7, <2>2, Zenon DEF Finish
    <3> QED BY <1>3, <1>4, <3>1, <3>2 DEF Goes
  <2> QED BY <2>1, <2>2
<1>8. ASSUME NEW t \in Tasks, TaskStep(t)
      PROVE  \A k \in Claims : Goes(req[k].pc, req'[k].pc)
  BY <1>1, <1>7, <1>8 DEF TaskStep, MarkReleased, MarkAbandoned, Reread, Give, LetGo, Brief, Drop,
     MarkOrSkip
<1>9. ASSUME NEW j \in Claims, NEW c \in Containers
      PROVE  ~ClaimDesktop(j, c)
  BY DEF ClaimDesktop
<1>10. ASSUME NEW o \in Ops, OpStep(o) \/ \E c \in Containers : BeginOp(o, c)
       PROVE  UNCHANGED req
  BY <1>10 DEF OpStep, BeginOp, Heartbeat, Refresh, SwapDisc, FailOp
<1>11. ASSUME NEW t \in Tasks, \/ KeepAlive(t) \/ KeepOverruns(t)
                               \/ \E c \in Containers : BeginRelease(t, c) \/ BeginExit(t, c)
                                                        \/ BeginSweep(t, c)
       PROVE  UNCHANGED req
  BY <1>11 DEF KeepAlive, KeepOverruns, BeginRelease, BeginExit, BeginSweep, BeginTask
<1>12. ASSUME NEW c \in Containers, Age(c) \/ Expire(c)
       PROVE  UNCHANGED req
  BY <1>12 DEF Age, Expire
<1> QED BY <1>1, <1>5, <1>6, <1>8, <1>9, <1>10, <1>11, <1>12 DEF SessionStep

-----------------------------------------------------------------------------
(* Launches hold their claim; every claim writes its own data. *)

\* Nothing ends a session before its launch is up, nor whatever a key holds.
Steady == {"early", "sweep"} \cap Env = {}

\* The key of a launching claim is its own and beating, and no teardown has
\* begun from it.
LaunchKept(k) ==
  /\ SameClaim(store[req[k].at], k) /\ store[req[k].at].fresh
  /\ \A t \in Tasks : task[t].of # k

LaunchInv == Steady => \A k \in Claims : Launching(k) => LaunchKept(k)

\* The fields of the entries that are written.
LEMMA WrittenFields ==
  ASSUME NEW e \in Entry, NEW k \in Claims
  PROVE  /\ Free.st = "free" /\ Free.merged = {}
         /\ Session(k).st = "claim" /\ Session(k).by = k /\ Session(k).fresh
         /\ Session(k).merged = {}
         /\ Marker(k).st = "drain" /\ Marker(k).ttl = "short" /\ Marker(k).merged = {}
         /\ Merged(e, k).st = e.st /\ Merged(e, k).by = e.by /\ Merged(e, k).fresh = e.fresh
         /\ Merged(e, k).merged = e.merged \cup {k}
         /\ Restamped(e).st = e.st /\ Restamped(e).by = e.by /\ Restamped(e).fresh
         /\ Restamped(e).merged = e.merged
<1>1. PICK d : d = [e EXCEPT !.ttl = "full"]
  OBVIOUS
<1>2. /\ d \in Entry /\ d.st = e.st /\ d.by = e.by /\ d.fresh = e.fresh
      /\ d.merged = e.merged
  BY <1>1 DEF Entry
<1>3. /\ Merged(e, k).st = e.st /\ Merged(e, k).by = e.by /\ Merged(e, k).fresh = e.fresh
      /\ Merged(e, k).merged = e.merged \cup {k}
  <2>1. Merged(e, k) = [d EXCEPT !.merged = @ \cup {k}]
    BY <1>1 DEF Merged, Entry
  <2> QED BY <1>2, <2>1 DEF Entry
<1>4. /\ Restamped(e).st = e.st /\ Restamped(e).by = e.by /\ Restamped(e).fresh
      /\ Restamped(e).merged = e.merged
  <2>1. Restamped(e) = [d EXCEPT !.fresh = TRUE]
    BY <1>1 DEF Restamped
  <2> QED BY <1>2, <2>1 DEF Entry
<1> QED BY <1>3, <1>4 DEF Free, Session, Marker

\* A session at a key stays there unless it is freed or drained.
LEMMA ClaimKept ==
  ASSUME IInv, KeyWrites, NEW c \in Containers, store[c].st = "claim"
  PROVE  \/ SameClaim(store'[c], store[c].by)
         \/ store'[c] = Free /\ Freeing(c)
         \/ store'[c] = Marker(store[c].by) /\ Draining(c)
<1>1. store[c] \in Entry /\ store[c].by \in Claims
  BY DEF IInv, TypeOK, StoreInv
<1>2. CASE store'[c] = store[c]
  BY <1>2 DEF SameClaim
<1>3. CASE store'[c] = Restamped(store[c])
  BY <1>1, <1>3, WrittenFields DEF SameClaim
<1>4. CASE store'[c] = [store[c] EXCEPT !.fresh = FALSE]
  BY <1>1, <1>4 DEF Entry, SameClaim
<1>5. CASE \E j \in Claims : store'[c] = Merged(store[c], j)
  BY <1>1, <1>5, WrittenFields DEF SameClaim
<1>6. CASE store'[c] = [store[c] EXCEPT !.ttl = "full"]
  BY <1>1, <1>6 DEF Entry, SameClaim
<1> QED BY <1>2, <1>3, <1>4, <1>5, <1>6 DEF KeyWrites, Write

\* A beating session at a key stays there unless its claim aborts, a request that
\* ends it gets on, or the administrator sweeps.
LEMMA BeatingKept ==
  ASSUME IInv, KeyWrites, NEW c \in Containers, store[c].st = "claim", store[c].fresh,
         "sweep" \notin Env
  PROVE  \/ SameClaim(store'[c], store[c].by)
         \/ AbortClaim(store[c].by)
         \/ \E t \in Tasks : /\ task[t].of = store[c].by
                             /\ task[t].kind \in {"release", "exit", "sweep"}
                             /\ task'[t].pc # task[t].pc
  BY ClaimKept DEF Freeing, Draining, GoesOn, Stale

\* Initially nobody launches.
LEMMA InitLaunch == Init => LaunchInv
  BY DEF Init, LaunchInv, Launching, IdleReq

\* Every step keeps the key of every launching claim.
LEMMA StepLaunch ==
  ASSUME IInv, LaunchInv, [Next]_vars
  PROVE  LaunchInv'
<1> SUFFICES ASSUME Steady, NEW k \in Claims, Launching(k)'
             PROVE  LaunchKept(k)'
  BY DEF LaunchInv
<1>1. KeyWrites /\ LaunchesFrom /\ OfsFrom
  BY NextFrom DEF StepFrom
<1>2. CASE Wins(k)
  <2>1. PICK c \in Containers : /\ store'[c] = Session(k) /\ req'[k].at = c
                                /\ req[k].at = None /\ store[c] \in Entry
    BY <1>2 DEF Wins, IInv, TypeOK
  <2>2. SameClaim(store'[c], k) /\ store'[c].fresh
    BY <2>1, WrittenFields DEF SameClaim
  <2>3. ASSUME NEW t \in Tasks, task'[t].of = k
        PROVE  FALSE
    <3>1. task[t].of # k
      BY <2>1, NoneIsNoValue DEF IInv, OfInv
    <3>2. \A d \in Containers : ~SameClaim(store[d], k)
      BY <2>1, NoneIsNoValue DEF IInv, StoreInv, SameClaim
    <3> QED BY <1>1, <2>3, <3>1, <3>2, NoneIsNoValue DEF OfsFrom, Steady
  <2> QED BY <2>1, <2>2, <2>3 DEF LaunchKept
<1>3. CASE Launching(k) /\ req'[k].at = req[k].at
  <2> DEFINE c == req[k].at
  <2>1. /\ SameClaim(store[c], k) /\ store[c].fresh /\ c \in Containers
        /\ \A t \in Tasks : task[t].of # k
    BY <1>3, ReqFacts DEF LaunchInv, LaunchKept, Launching, ReqOK
  <2>2. ~AbortClaim(k)
    <3>1. SUFFICES ASSUME AbortClaim(k) PROVE FALSE
      OBVIOUS
    <3>2. Moved(k, "over", req[k].at, req[k].idx, "off")
      BY <3>1, ReqFacts, MovePcHold DEF AbortClaim, ReqPcs, Holds
    <3> QED BY <3>2 DEF Moved, Launching
  <2>3. SameClaim(store'[c], k)
    BY <1>1, <2>1, <2>2, BeatingKept DEF SameClaim, Steady
  <2>4. store'[c].fresh
    <3>1. store[c] \in Entry
      BY <2>1 DEF IInv, TypeOK
    <3>2. CASE Freeing(c) \/ Draining(c)
      BY <2>1, <2>2, <3>2 DEF Freeing, Draining, GoesOn, SameClaim, Stale, Steady
    <3>3. CASE store'[c] = Restamped(store[c]) \/ \E j \in Claims : store'[c] = Merged(store[c], j)
      BY <2>1, <3>1, <3>3, WrittenFields
    <3>4. CASE MayEnd(store[c].by)
      BY <1>3, <2>1, <3>4 DEF MayEnd, SameClaim, Steady
    <3>5. CASE store'[c] = [store[c] EXCEPT !.ttl = "full"]
      BY <2>1, <3>1, <3>5 DEF Entry
    <3>6. store[c].st # "free"
      BY <2>1 DEF SameClaim
    <3>7. CASE store'[c] = store[c]
      BY <2>1, <3>7
    <3> QED BY <1>1, <2>1, <3>2, <3>3, <3>4, <3>5, <3>6, <3>7 DEF KeyWrites, Write
  <2>5. ASSUME NEW t \in Tasks, task'[t].of = k
        PROVE  FALSE
    <3>1. PICK d \in Containers : SameClaim(store[d], k) /\ (MayEnd(k) \/ Stale(store[d]))
      BY <1>1, <2>1, <2>5, NoneIsNoValue DEF OfsFrom, Steady
    <3>2. d = c
      BY <3>1 DEF IInv, StoreInv, SameClaim
    <3> QED BY <1>3, <2>1, <3>1, <3>2 DEF MayEnd, Stale, Steady
  <2> QED BY <1>3, <2>3, <2>4, <2>5 DEF LaunchKept
<1> QED BY <1>1, <1>2, <1>3 DEF LaunchesFrom

\* Where a card's merge cannot miss the claim it is for, what a session record
\* carries is its own, and without the controls of a running session a marker
\* keeps its short TTL.
MergesHit == CardSync => Steady
DataInv ==
  /\ MergesHit => OwnDataOnly
  /\ MergesHit /\ "control" \notin Env => MarkerStaysShort

\* Initially there is no data on any key.
LEMMA InitData == Init => DataInv
  BY DEF Init, DataInv, OwnDataOnly, MarkerStaysShort, Free

\* Every write keeps the data of a key its holder's.
LEMMA StepData ==
  ASSUME IInv, LaunchInv, DataInv, [Next]_vars
  PROVE  DataInv'
<1> SUFFICES ASSUME MergesHit, NEW c \in Containers
             PROVE  /\ store'[c].merged \subseteq
                         (IF store'[c].st = "claim" THEN {store'[c].by} ELSE {})
                    /\ "control" \notin Env =>
                         (store'[c].st = "drain" => store'[c].ttl = "short")
  BY DEF DataInv, OwnDataOnly, MarkerStaysShort
<1> DEFINE e == store[c]
<1>1. /\ e \in Entry
      /\ e.merged \subseteq (IF e.st = "claim" THEN {e.by} ELSE {})
      /\ "control" \notin Env => (e.st = "drain" => e.ttl = "short")
  BY DEF IInv, TypeOK, DataInv, OwnDataOnly, MarkerStaysShort
<1>2. CASE store'[c] = e
  BY <1>1, <1>2
<1>3. CASE store'[c] = Free
  BY <1>3 DEF Free
<1>4. CASE store'[c] = Marker(e.by)
  BY <1>4 DEF Marker
<1>5. CASE \E k \in Claims : store'[c] = Session(k)
  BY <1>5 DEF Session
<1>6. CASE e.st = "claim" /\ store'[c] = Restamped(e)
  <2>1. e.by \in Claims
    BY <1>6 DEF IInv, StoreInv
  <2> QED BY <1>1, <1>6, <2>1, WrittenFields
<1>7. CASE e.st = "claim" /\ store'[c] = [e EXCEPT !.fresh = FALSE]
  BY <1>1, <1>7 DEF Entry
<1>8. CASE \E k \in Claims : /\ SameClaim(e, k) \/ (CardSync /\ Launching(k) /\ req[k].at = c)
                             /\ store'[c] = Merged(e, k)
  <2>1. PICK k \in Claims : SameClaim(e, k) /\ store'[c] = Merged(e, k)
    BY <1>8 DEF MergesHit, LaunchInv, LaunchKept
  <2> QED BY <1>1, <2>1, WrittenFields DEF SameClaim
<1>9. CASE "control" \in Env /\ store'[c] = [e EXCEPT !.ttl = "full"]
  BY <1>1, <1>9 DEF Entry
<1>10. store'[c] = e \/ Write(c, store'[c])
  BY NextFrom DEF StepFrom, KeyWrites
<1> QED BY <1>2, <1>3, <1>4, <1>5, <1>6, <1>7, <1>8, <1>9, <1>10 DEF Write

-----------------------------------------------------------------------------
(* The theorems. *)

\* Every step preserves the invariant.
LEMMA StepInv ==
  ASSUME IInv, [Next]_vars
  PROVE  IInv' /\ KeyStep
<1>1. ASSUME NEW k \in Claims, ClaimStep(k) \/ PrepareStep(k)
      PROVE  IInv' /\ KeyStep
  BY <1>1, TryInv, ScanInv, TimeoutInv, RetryInv, RefuseInv, SettleInv, HydratedInv,
     StampInv, AbortInv DEF ClaimStep, PrepareStep
<1>2. ASSUME NEW o \in Ops, OpStep(o)
      PROVE  IInv' /\ KeyStep
  BY <1>2, HeartbeatInv, RefreshInv, SwapInv, FailOpInv DEF OpStep
<1>3. ASSUME NEW t \in Tasks, TaskStep(t)
      PROVE  IInv' /\ KeyStep
  BY <1>3, MarkReleasedInv, MarkAbandonedInv, RereadInv, GiveInv, LetGoInv, BriefInv,
     DropInv DEF TaskStep
<1>4. ASSUME NEW t \in Tasks, NEW c \in Containers,
             BeginRelease(t, c) \/ BeginExit(t, c) \/ BeginSweep(t, c)
      PROVE  IInv' /\ KeyStep
  BY <1>4, BeginInv DEF BeginRelease, BeginExit, BeginSweep
<1>5. CASE StoreStep
  BY <1>1, <1>2, <1>3, <1>4, <1>5, ArriveInv, HoldInv, HoldOverrunsInv, DesktopInv,
     BeginOpInv, KeepAliveInv, KeepOverrunsInv, AgeInv, ExpireInv, CrashInv
     DEF StoreStep, SessionStep
<1>6. CASE BrokerStep
  BY <1>6, ActivateInv, QuiesceInv, CollectInv, KillInv DEF BrokerStep
<1>7. CASE UNCHANGED vars
  BY <1>7, StutterInv
<1> QED BY <1>5, <1>6, <1>7 DEF Next

\* Every reachable state satisfies the inductive invariant.
THEOREM Invariance == Spec => []IInv
<1>1. Init => IInv
  BY InitInv
<1>2. IInv /\ [Next]_vars => IInv'
  BY StepInv
<1> QED BY <1>1, <1>2, PTL DEF Spec

\* The types are right in every reachable state.
THEOREM TypeCorrect == Spec => []TypeOK
<1>1. IInv => TypeOK
  BY DEF IInv
<1> QED BY <1>1, Invariance, PTL

\* Where the administrator's sweep is not used, a teardown whose marker landed
\* and whose keepalive runs holds its container by that marker.
THEOREM ReservationIsHeld ==
  ASSUME "sweep" \notin Env
  PROVE  Spec => []ReservationHeld
<1>1. IInv => ReservationHeld
  BY DEF IInv, HeldInv
<1> QED BY <1>1, Invariance, PTL

\* There, no two teardowns work on one container under live markers.
THEOREM TeardownIsSole ==
  ASSUME "sweep" \notin Env
  PROVE  Spec => []SoleTeardown
<1>1. IInv => SoleTeardown
  BY DEF IInv, HeldInv, ReservationHeld, HoldsToken, TokenInv, SoleTeardown
<1> QED BY <1>1, Invariance, PTL

\* The store implements the abstract lease: a container is handed over only
\* while its key is free, to a claim that never held one, and is drained before
\* it is given back or given back at once.
THEOREM ImplementsLease == Spec => LeaseImplemented
<1>1. Init => Lease!LeaseInit
  BY NoneIsNoValue DEF Init, Free, IdleReq, Lease!LeaseInit
<1>2. ASSUME IInv, [Next]_vars
      PROVE  [Lease!LeaseNext]_(Lease!leaseVars)
  <2>1. KeyStep /\ store \in [Containers -> Entry]
    BY <1>2, StepInv DEF IInv, TypeOK
  <2>2. CASE AtsKept /\ Quiet
    <3>1. UNCHANGED Lease!leaseVars
      BY <2>2 DEF AtsKept, Quiet, Lease!leaseVars
    <3> QED BY <3>1
  <2>3. CASE \E c \in Containers, k \in Claims : Took(c, k)
    <3>1. PICK c \in Containers, k \in Claims : Took(c, k)
      BY <2>3
    <3>2. Lease!Acquire(c, k)
      BY <3>1, NoneIsNoValue DEF Took, Elsewhere, Lease!Acquire
    <3> QED BY <3>2 DEF Lease!LeaseNext
  <2>4. CASE AtsKept /\ \E c \in Containers : Drained(c)
    <3>1. PICK c \in Containers : Drained(c)
      BY <2>4
    <3>2. Lease!BeginDrain(c)
      BY <2>4, <3>1 DEF Drained, Elsewhere, AtsKept, Lease!BeginDrain
    <3> QED BY <3>2 DEF Lease!LeaseNext
  <2>5. CASE AtsKept /\ \E c \in Containers : Vacated(c)
    <3>1. PICK c \in Containers : Vacated(c)
      BY <2>5
    <3>2. Lease!Vacate(c)
      BY <2>5, <3>1 DEF Vacated, Elsewhere, AtsKept, Lease!Vacate
    <3> QED BY <3>2 DEF Lease!LeaseNext
  <2> QED BY <2>1, <2>2, <2>3, <2>4, <2>5 DEF KeyStep
<1> QED BY <1>1, <1>2, Invariance, PTL DEF Spec, LeaseImplemented, Lease!LeaseSpec

\* Where no session ends before its launch is up and nobody sweeps, a claim
\* keeps its key from winning a container until its launch is up.
THEOREM LaunchesHoldTheirClaim ==
  ASSUME {"early", "sweep"} \cap Env = {}
  PROVE  Spec => []LaunchHoldsClaim
<1>1. IInv /\ LaunchInv /\ [Next]_vars => LaunchInv'
  BY StepLaunch
<1>2. LaunchInv => LaunchHoldsClaim
  BY DEF LaunchInv, LaunchKept, LaunchHoldsClaim, Steady
<1> QED BY <1>1, <1>2, InitLaunch, Invariance, PTL DEF Spec

\* Where nobody sweeps, a session whose player is still beating is ended only by
\* its own abort, release or exit, whoever else works on the container.
THEOREM BeatingSessionsStay ==
  ASSUME "sweep" \notin Env
  PROVE  Spec => FreshClaimKept
<1> DEFINE Kept == \A c \in Containers : LET k == store[c].by IN
             store[c].st = "claim" /\ store[c].fresh /\ ~SameClaim(store'[c], k) =>
               \/ AbortClaim(k)
               \/ \E t \in Tasks : /\ task[t].of = k
                                   /\ task[t].kind \in {"release", "exit", "sweep"}
                                   /\ task'[t].pc # task[t].pc
<1>1. IInv /\ [Next]_vars => Kept
  BY NextFrom, BeatingKept DEF StepFrom
<1>2. IInv /\ [Next]_vars => [Kept]_vars
  BY <1>1
<1> QED BY <1>2, Invariance, PTL DEF Spec, FreshClaimKept

\* The data on a session record is its claim's, where a new card's merge cannot
\* miss its claim.
THEOREM RecordsCarryTheirOwn ==
  ASSUME CardSync => {"early", "sweep"} \cap Env = {}
  PROVE  Spec => []OwnDataOnly
<1>1. IInv /\ LaunchInv /\ DataInv /\ [Next]_vars => LaunchInv' /\ DataInv'
  BY StepLaunch, StepData
<1>2. DataInv => OwnDataOnly
  BY DEF DataInv, MergesHit, Steady
<1> QED BY <1>1, <1>2, InitLaunch, InitData, Invariance, PTL DEF Spec

\* There, and without the controls of a running session, no marker outlives its
\* short TTL.
THEOREM MarkersStayShort ==
  ASSUME "control" \notin Env, CardSync => {"early", "sweep"} \cap Env = {}
  PROVE  Spec => []MarkerStaysShort
<1>1. IInv /\ LaunchInv /\ DataInv /\ [Next]_vars => LaunchInv' /\ DataInv'
  BY StepLaunch, StepData
<1>2. DataInv => MarkerStaysShort
  BY DEF DataInv, MergesHit, Steady
<1> QED BY <1>1, <1>2, InitLaunch, InitData, Invariance, PTL DEF Spec
=============================================================================
