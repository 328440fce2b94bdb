-------------------------- MODULE StreamingSession --------------------------
(***************************************************************************)
(* The life of streaming sessions on a pool of emulator containers: the    *)
(* claim request and the launch behind it, the routes that act on a live   *)
(* session, and every path that ends one.  Each request or background task *)
(* is a process whose steps are what runs between two awaits; what it read *)
(* before an await it keeps in its own record.                             *)
(*   endpoints/streaming.py, handler/streaming/{session_store,lifecycle,   *)
(*   launch}.py                                                            *)
(***************************************************************************)
EXTENDS SessionStore, Naturals, Sequences

CONSTANTS
  Pool,        \* the containers serving the platform, in config order
  Desktops,    \* the claims made by claim_desktop_session
  Tasks,       \* slots for teardowns in flight (bounds how many at once)
  Ops,         \* slots for other session requests in flight (same)
  CardSync,    \* memory_card_sync, the same for the whole pool
  Env,         \* which requests and mishaps occur, see Events
  MaxCrashes   \* bounds the restarts of the backend

Events == {"heartbeat", "control", "swap",    \* requests of a player's tab
           "release", "exit", "sweep",        \* requests that end a session
           "early",        \* a session may end, or age, before its launch is up
           "forgotten",    \* a stale session may outlive its TTL, unclaimed
           "contention",   \* a compare-and-set may exhaust its retries
           "overrun"}      \* work under a keepalive may outlast its ceiling

ASSUME PoolIsContainers == Pool \in Seq(Containers) /\ Len(Pool) > 0
ASSUME KindsAssumption  == Desktops \subseteq Claims /\ Env \subseteq Events
ASSUME SwitchAssumption == CardSync \in BOOLEAN /\ MaxCrashes \in Nat

VARIABLES
  store,    \* Redis: container -> Entry
  req,      \* claim -> the state of its claim_session / run_launch
  task,     \* teardown slot -> the state of that teardown
  op,       \* request slot -> the state of that request
  crashes   \* restarts so far

vars == <<store, req, task, op, crashes>>

\* "up": the activate returned; "over": refused, aborted, or lost to a restart.
ReqState ==
  [pc: {"idle", "try", "scan", "wait", "retry", "probe", "hydrate", "activate",
        "stamp", "up", "over"},
   at: Containers \cup {None}, idx: Nat,
   hold: {"off", "armed", "ticking"}]

\* `of` is the session the teardown read; `token`: its drain marker landed;
\* `keep`: the keepalive behind it; `waiter`: the claim awaiting it.
TaskState ==
  [kind: {"none", "release", "abandoned", "exit", "sweep"},
   pc: {"idle", "mark", "kill", "give", "let-go", "brief", "reread", "quiesce",
        "collect", "drop"},
   at: Containers \cup {None}, of: Claims \cup {None}, token: BOOLEAN,
   keep: {"off", "armed", "ticking"}, waiter: Claims \cup {None}]

OpState == [kind: {"none", "heartbeat", "control", "swap"},
            at: Containers \cup {None}, of: Claims \cup {None}]

IdleReq == [pc |-> "idle", at |-> None, idx |-> 1, hold |-> "off"]

\* A teardown of the session of k at c that has not written anything yet.
Teardown(kind, pc, c, k, waiter) ==
  [kind |-> kind, pc |-> pc, at |-> c, of |-> k, token |-> FALSE, keep |-> "off",
   waiter |-> waiter]
IdleTask == Teardown("none", "idle", None, None, None)

IdleOp == [kind |-> "none", at |-> None, of |-> None]

TypeOK ==
  /\ store \in [Containers -> Entry]
  /\ req \in [Claims -> ReqState]
  /\ task \in [Tasks -> TaskState]
  /\ op \in [Ops -> OpState]
  /\ crashes \in 0..MaxCrashes

Init ==
  /\ store = [c \in Containers |-> Free]
  /\ req = [k \in Claims |-> IdleReq]
  /\ task = [t \in Tasks |-> IdleTask]
  /\ op = [o \in Ops |-> IdleOp]
  /\ crashes = 0

Put(c, e) == store' = [store EXCEPT ![c] = e]

\* One compare-and-set: write e at c if the condition holds of what is there.
Cas(c, condition, e) ==
  store' = IF condition THEN [store EXCEPT ![c] = e] ELSE store

\* StreamingSessionContended: the write never landed.
Contended == "contention" \in Env /\ UNCHANGED store

Launching(k) == req[k].pc \in {"probe", "hydrate", "activate", "stamp"}

\* Whether somebody may act on claim k yet.
MayEnd(k) == Launching(k) => "early" \in Env

-----------------------------------------------------------------------------
(* claim_session: win a container, prepare it, launch. *)

ReqGoto(k, pc) == req' = [req EXCEPT ![k].pc = pc]

\* Mutant: the walk looks at the same container again.
SameCandidate(k) == [req EXCEPT ![k].pc = "scan"]

\* The stale walk moves to the pool's next container.
NextCandidate(k) == [req EXCEPT ![k].pc = "scan", ![k].idx = @ + 1]

ArriveClaim(k) ==
  /\ req[k].pc = "idle" /\ k \notin Desktops
  /\ ReqGoto(k, "try")
  /\ UNCHANGED <<store, task, op, crashes>>

\* SET NX on the next container of the pool; the first free one wins.
TryClaim(k) ==
  LET c == Pool[req[k].idx] IN
  /\ req[k].pc = "try"
  /\ IF store[c].st = "free"
     THEN /\ Put(c, Session(k))
          /\ req' = [req EXCEPT ![k].pc = "probe", ![k].at = c]
     ELSE /\ req' = IF req[k].idx < Len(Pool)
                    THEN [req EXCEPT ![k].idx = @ + 1]
                    ELSE [req EXCEPT ![k].pc = "scan", ![k].idx = 1]
          /\ UNCHANGED store
  /\ UNCHANGED <<task, op, crashes>>

\* Every container was held: look for a stale session, and start its teardown.
ScanStale(k) ==
  LET c == Pool[req[k].idx] IN
  /\ req[k].pc = "scan" /\ req[k].idx <= Len(Pool)
  /\ IF Stale(store[c])
     THEN /\ \E t \in Tasks :
               /\ task[t] = IdleTask
               /\ task' = [task EXCEPT ![t] =
                             Teardown("abandoned", "mark", c, store[c].by, k)]
          /\ ReqGoto(k, "wait")
     ELSE req' = NextCandidate(k) /\ UNCHANGED task
  /\ UNCHANGED <<store, op, crashes>>

\* The wait outran its budget; the teardown goes on without the claim.
WaitTimesOut(k) ==
  /\ req[k].pc = "wait"
  /\ req' = NextCandidate(k)
  /\ task' = [t \in Tasks |-> IF task[t].waiter = k
                              THEN [task[t] EXCEPT !.waiter = None] ELSE task[t]]
  /\ UNCHANGED <<store, op, crashes>>

\* The teardown freed the container: SET NX on it once more.
RetryClaim(k) ==
  LET c == Pool[req[k].idx] IN
  /\ req[k].pc = "retry"
  /\ IF store[c].st = "free"
     THEN /\ Put(c, Session(k))
          /\ req' = [req EXCEPT ![k].pc = "probe", ![k].at = c]
     ELSE req' = NextCandidate(k) /\ UNCHANGED store
  /\ UNCHANGED <<task, op, crashes>>

\* 409, every container is held.
RefuseClaim(k) ==
  /\ req[k].pc = "scan" /\ req[k].idx > Len(Pool)
  /\ ReqGoto(k, "over")
  /\ UNCHANGED <<store, task, op, crashes>>

\* The admin's desktop: SET NX on the named container, no takeover.
ClaimDesktop(k, c) ==
  /\ req[k].pc = "idle" /\ k \in Desktops
  /\ IF store[c].st = "free"
     THEN Put(c, Session(k)) /\ req' = [req EXCEPT ![k].pc = "activate", ![k].at = c]
     ELSE ReqGoto(k, "over") /\ UNCHANGED store
  /\ UNCHANGED <<task, op, crashes>>

\* The card probe returned; a first play records its new blank card's id on
\* the key, by a merge that does not ask whose session is there.
SettleCard(k) ==
  LET c == req[k].at IN
  /\ req[k].pc = "probe"
  /\ \/ CardSync /\ Cas(c, store[c].st # "free", Merged(store[c], k))
     \/ UNCHANGED store
  /\ ReqGoto(k, "hydrate")
  /\ UNCHANGED <<task, op, crashes>>

\* Saves, and the card, are on the container; run_launch arms its keepalive.
Hydrated(k) ==
  /\ req[k].pc = "hydrate"
  /\ req' = [req EXCEPT ![k].pc = "activate", ![k].hold = "armed"]
  /\ UNCHANGED <<store, task, op, crashes>>

\* Mutant: run_launch leaves its keepalive running.
ActivateStillHolding(k) ==
  /\ req[k].pc = "activate"
  /\ ReqGoto(k, "stamp")
  /\ UNCHANGED <<store, task, op, crashes>>

\* activate returned; what it did to the emulator is in StreamingBroker.
Activate(k) ==
  LET c == req[k].at IN
  /\ req[k].pc = "activate"
  /\ req' = [req EXCEPT ![k].pc = "stamp", ![k].hold = "off"]
  /\ UNCHANGED <<store, task, op, crashes>>

\* Mutant: stamp_launched merges into whatever the key holds.
StampUnguarded(k) ==
  LET c == req[k].at IN
  /\ req[k].pc = "stamp"
  /\ Cas(c, store[c].st # "free", Merged(store[c], k))
  /\ ReqGoto(k, "up")
  /\ UNCHANGED <<task, op, crashes>>

\* stamp_launched.
StampLaunched(k) ==
  LET c == req[k].at IN
  /\ req[k].pc = "stamp"
  /\ \/ Cas(c, SameClaim(store[c], k), Merged(store[c], k))
     \/ Contended
  /\ ReqGoto(k, "up")
  /\ UNCHANGED <<task, op, crashes>>

\* abort_claim: the probe asks the player, hydration or the activate failed.
AbortClaim(k) ==
  LET c == req[k].at IN
  /\ \/ req[k].pc = "activate"
     \/ req[k].pc \in {"probe", "hydrate"} /\ CardSync
  /\ \/ Cas(c, SameClaim(store[c], k), Free)
     \/ Contended
  /\ req' = [req EXCEPT ![k].pc = "over", ![k].hold = "off"]
  /\ UNCHANGED <<task, op, crashes>>

\* hold_session_claim behind an activate.
HoldClaim(k) ==
  LET c == req[k].at IN
  /\ req[k].hold # "off"
  /\ Cas(c, SameClaim(store[c], k), Restamped(store[c]))
  /\ req' = [req EXCEPT ![k].hold =
               IF SameClaim(store[c], k) THEN "ticking" ELSE "off"]
  /\ UNCHANGED <<task, op, crashes>>

HoldOverruns(k) ==
  /\ "overrun" \in Env /\ req[k].hold = "ticking"
  /\ req' = [req EXCEPT ![k].hold = "off"]
  /\ UNCHANGED <<store, task, op, crashes>>

-----------------------------------------------------------------------------
(* Requests on a live session: a find, a broker call, then a write. *)

\* find_session_for_user / resolve_owned_session.
BeginOp(o, c) ==
  /\ op[o] = IdleOp /\ store[c].st = "claim" /\ MayEnd(store[c].by)
  /\ \E kind \in Env \cap {"heartbeat", "control", "swap"} :
       /\ kind = "swap" => store[c].by \notin Desktops
       /\ op' = [op EXCEPT ![o] = [kind |-> kind, at |-> c, of |-> store[c].by]]
  /\ UNCHANGED <<store, req, task, crashes>>

EndOp(o) == op' = [op EXCEPT ![o] = IdleOp]

\* Mutant: the heartbeat writes back the record it read.
HeartbeatWriteBack(o) ==
  /\ op[o].kind = "heartbeat"
  /\ Put(op[o].at, Session(op[o].of))
  /\ EndOp(o)
  /\ UNCHANGED <<req, task, crashes>>

\* heartbeat_session: restamp whatever live session is at the key.
Heartbeat(o) ==
  LET c == op[o].at IN
  /\ op[o].kind = "heartbeat"
  /\ \/ Cas(c, store[c].st = "claim", Restamped(store[c]))
     \/ Contended
  /\ EndOp(o)
  /\ UNCHANGED <<req, task, crashes>>

\* refresh_session after a volume, mute, save or load: EXPIRE on the key.
Refresh(o) ==
  LET c == op[o].at IN
  /\ op[o].kind = "control"
  /\ Cas(c, store[c].st # "free", [store[c] EXCEPT !.ttl = "full"])
  /\ EndOp(o)
  /\ UNCHANGED <<req, task, crashes>>

\* Mutant: set_session_disc does not ask whose session is there.
SwapUnguarded(o) ==
  LET c == op[o].at IN
  /\ op[o].kind = "swap"
  /\ Cas(c, store[c].st # "free", Merged(store[c], op[o].of))
  /\ EndOp(o)
  /\ UNCHANGED <<req, task, crashes>>

\* set_session_disc once the broker swapped the disc.
SwapDisc(o) ==
  LET c == op[o].at IN
  /\ op[o].kind = "swap"
  /\ \/ Cas(c, SameClaim(store[c], op[o].of), Merged(store[c], op[o].of))
     \/ Contended
  /\ EndOp(o)
  /\ UNCHANGED <<req, task, crashes>>

\* The request failed on the way (502 from the broker, client gone).
FailOp(o) ==
  /\ op[o] # IdleOp
  /\ EndOp(o)
  /\ UNCHANGED <<store, req, task, crashes>>

-----------------------------------------------------------------------------
(* Ending a session.  Every path stops the emulator, collects the exit state *)
(* and gives the container back; they differ in what reserves it meanwhile.  *)

\* The teardown is over; `freed` answers the claim waiting for it, if any.
Finish(t, freed) ==
  LET k == task[t].waiter IN
  /\ task' = [task EXCEPT ![t] = IdleTask]
  /\ req' = IF k = None THEN req
            ELSE IF freed THEN [req EXCEPT ![k].pc = "retry"] ELSE NextCandidate(k)

\* A teardown begins from the live session it read at c.
BeginTask(t, c, kind, pc) ==
  /\ kind \in Env /\ task[t] = IdleTask
  /\ store[c].st = "claim" /\ MayEnd(store[c].by)
  /\ task' = [task EXCEPT ![t] = Teardown(kind, pc, c, store[c].by, None)]
  /\ UNCHANGED <<store, req, op, crashes>>

BeginRelease(t, c) == BeginTask(t, c, "release", "mark")
BeginExit(t, c)    == BeginTask(t, c, "exit", "kill")
BeginSweep(t, c)   == BeginTask(t, c, "sweep", "reread")

\* The marker landed: it reserves the container and a keepalive refreshes it.
Reserved(t, pc) ==
  [task EXCEPT ![t].token = TRUE, ![t].keep = "ticking", ![t].pc = pc]

\* Mutant: the missing marker is recorded as claim_drain_marker's None.
UnmarkedAsNone(t, pc) ==
  [task EXCEPT ![t].token = None, ![t].keep = "armed", ![t].pc = pc]

\* It did not, for contention: the claim is held on to instead.
Unmarked(t, pc) == [task EXCEPT ![t].keep = "armed", ![t].pc = pc]

\* Mutant: the marker is written over whatever is at the key.
MarkAnything(t, pc) ==
  /\ Put(task[t].at, Marker(task[t].of))
  /\ task' = Reserved(t, pc)
  /\ UNCHANGED req

\* claim_drain_marker: take the claim into a marker, or find it gone.
MarkOrSkip(t, pc) ==
  LET c == task[t].at  k == task[t].of IN
  \/ /\ SameClaim(store[c], k)
     /\ Put(c, Marker(k))
     /\ task' = Reserved(t, pc)
     /\ UNCHANGED req
  \/ /\ ~SameClaim(store[c], k)
     /\ Finish(t, FALSE)
     /\ UNCHANGED store
  \/ /\ Contended
     /\ task' = Unmarked(t, pc)
     /\ UNCHANGED req

\* teardown_released_session takes the claim into a marker first.
MarkReleased(t) ==
  /\ task[t].kind = "release" /\ task[t].pc = "mark"
  /\ MarkOrSkip(t, "quiesce")
  /\ UNCHANGED <<op, crashes>>

\* Mutant: the takeover does not look at the heartbeat again.
MarkWithoutRecheck(t) ==
  /\ task[t].kind = "abandoned" /\ task[t].pc = "mark"
  /\ MarkOrSkip(t, "quiesce")
  /\ UNCHANGED <<op, crashes>>

\* _teardown_abandoned_session does so only while the session is still stale.
MarkAbandoned(t) ==
  LET c == task[t].at  k == task[t].of IN
  /\ task[t].kind = "abandoned" /\ task[t].pc = "mark"
  /\ \/ /\ SameClaim(store[c], k) /\ Stale(store[c])
        /\ Put(c, Marker(k))
        /\ task' = Reserved(t, "quiesce")
        /\ UNCHANGED req
     \/ /\ \/ ~(SameClaim(store[c], k) /\ Stale(store[c])) /\ UNCHANGED store
           \/ Contended
        /\ Finish(t, FALSE)
  /\ UNCHANGED <<op, crashes>>

\* The sweep reads the key again before it acts on the container.
Reread(t) ==
  LET c == task[t].at IN
  /\ task[t].kind = "sweep" /\ task[t].pc = "reread"
  /\ task' = [task EXCEPT ![t].pc = "quiesce", ![t].of =
                IF store[c].st = "claim" THEN store[c].by ELSE None]
  /\ UNCHANGED <<store, req, op, crashes>>

\* Mutant: the container is given back before its exit state was pulled.
QuiesceAndDrop(t) ==
  /\ task[t].pc = "quiesce"
  /\ task' = [task EXCEPT ![t].pc = "drop"]
  /\ UNCHANGED <<store, req, op, crashes>>

\* quiesce_container: the broker stops the emulator.
Quiesce(t) ==
  /\ task[t].pc = "quiesce"
  /\ task' = [task EXCEPT ![t].pc = "collect"]
  /\ UNCHANGED <<store, req, op, crashes>>

\* save_and_exit_session: the save and kill, before any marker.  `saved` is the
\* broker's answer.  There is a state to pull if it saved one or, without
\* wait, may yet; card sync always waits, and a desktop has no state.
Kill(t, saved, wait) ==
  LET pull == task[t].of \notin Desktops /\ (saved \/ ~wait) IN
  /\ task[t].kind = "exit" /\ task[t].pc = "kill"
  /\ CardSync => wait
  /\ task' = [task EXCEPT ![t].pc = IF pull THEN "give"
                                    ELSE IF wait THEN "let-go" ELSE "brief"]
  /\ UNCHANGED <<store, req, op, crashes>>

\* There is a state to pull: take the claim into a marker for its duration.
Give(t) ==
  /\ task[t].pc = "give"
  /\ MarkOrSkip(t, "collect")
  /\ UNCHANGED <<op, crashes>>

\* Mutant: release_own_session deletes the key whoever holds it.
LetGoBlindly(t) ==
  /\ task[t].pc = "let-go"
  /\ Put(task[t].at, Free)
  /\ Finish(t, FALSE)
  /\ UNCHANGED <<op, crashes>>

\* There is none and the kill is done: release_own_session.
LetGo(t) ==
  LET c == task[t].at IN
  /\ task[t].pc = "let-go"
  /\ \/ Cas(c, SameClaim(store[c], task[t].of), Free)
     \/ Contended
  /\ Finish(t, FALSE)
  /\ UNCHANGED <<op, crashes>>

\* There is none and the kill still runs: a marker for the drain window, which
\* nobody refreshes or drops.
Brief(t) ==
  LET c == task[t].at IN
  /\ task[t].pc = "brief"
  /\ \/ Cas(c, SameClaim(store[c], task[t].of), Marker(task[t].of))
     \/ Contended
  /\ Finish(t, FALSE)
  /\ UNCHANGED <<op, crashes>>

\* collect_exit_state / pull_state_to_library, best effort.
Collect(t) ==
  /\ task[t].pc = "collect"
  /\ task' = [task EXCEPT ![t].pc = "drop"]
  /\ UNCHANGED <<store, req, op, crashes>>

\* Mutant: a teardown without a marker deletes the key whoever holds it.
DropBlindly(t) ==
  LET c == task[t].at IN
  /\ task[t].pc = "drop"
  /\ Cas(c, task[t].token => HoldsToken(store[c], task[t].of), Free)
  /\ Finish(t, TRUE)
  /\ UNCHANGED <<op, crashes>>

\* drop_drain_marker or release_own_session, whichever reservation there was;
\* the sweep deletes the key whatever it holds.
Drop(t) ==
  LET c == task[t].at  k == task[t].of IN
  /\ task[t].pc = "drop"
  /\ \/ task[t].kind = "sweep" /\ Put(c, Free)
     \/ /\ task[t].kind # "sweep"
        /\ Cas(c, IF task[t].token THEN HoldsToken(store[c], k)
                                   ELSE SameClaim(store[c], k), Free)
     \/ task[t].kind # "sweep" /\ Contended
  /\ Finish(t, TRUE)
  /\ UNCHANGED <<op, crashes>>

\* hold_drain_marker, or hold_session_claim where no marker landed.
KeepAlive(t) ==
  LET c == task[t].at  k == task[t].of
      held == IF task[t].token THEN HoldsToken(store[c], k)
                               ELSE SameClaim(store[c], k) IN
  /\ task[t].keep # "off"
  /\ Cas(c, held, IF task[t].token THEN Marker(k) ELSE Restamped(store[c]))
  /\ task' = [task EXCEPT ![t].keep = IF held THEN "ticking" ELSE "off"]
  /\ UNCHANGED <<req, op, crashes>>

KeepOverruns(t) ==
  /\ "overrun" \in Env /\ task[t].keep = "ticking"
  /\ task' = [task EXCEPT ![t].keep = "off"]
  /\ UNCHANGED <<store, req, op, crashes>>

-----------------------------------------------------------------------------
(* Time and restarts. *)

\* A keepalive that has stamped the claim k once keeps its stamp current.
ClaimIsKept(k) ==
  \/ req[k].hold = "ticking"
  \/ \E t \in Tasks : task[t].of = k /\ ~task[t].token /\ task[t].keep = "ticking"

\* A keepalive refreshes the marker of claim k well inside its TTL.
MarkerIsKept(k) ==
  \E t \in Tasks : task[t].of = k /\ task[t].token /\ task[t].keep = "ticking"

\* No heartbeat came for the length of the stale window.
Age(c) ==
  LET k == store[c].by IN
  /\ store[c].st = "claim" /\ store[c].fresh
  /\ MayEnd(k) /\ ~ClaimIsKept(k)
  /\ Put(c, [store[c] EXCEPT !.fresh = FALSE])
  /\ UNCHANGED <<req, task, op, crashes>>

\* Mutant: drain markers are stored without an expiry.
ExpireSessionsOnly(c) ==
  /\ Stale(store[c]) /\ "forgotten" \in Env
  /\ Put(c, Free)
  /\ UNCHANGED <<req, task, op, crashes>>

\* The key's TTL ran out: hours after the last stamp of a session, and for a
\* marker once nothing refreshes it.
Expire(c) ==
  /\ \/ Stale(store[c]) /\ "forgotten" \in Env
     \/ store[c].st = "drain" /\ ~MarkerIsKept(store[c].by)
  /\ Put(c, Free)
  /\ UNCHANGED <<req, task, op, crashes>>

\* The backend restarts: everything in flight is lost, Redis and the
\* containers carry on.
Crash ==
  /\ crashes < MaxCrashes
  /\ crashes' = crashes + 1
  /\ req' = [k \in Claims |-> IF req[k].pc \in {"idle", "up", "over"} THEN req[k]
                              ELSE [req[k] EXCEPT !.pc = "over", !.hold = "off"]]
  /\ task' = [t \in Tasks |-> IdleTask]
  /\ op' = [o \in Ops |-> IdleOp]
  /\ UNCHANGED <<store>>

-----------------------------------------------------------------------------
(* The steps that reach into the emulator, and the others. *)

BrokerStep ==
  \/ \E k \in Claims : Activate(k)
  \/ \E t \in Tasks : \/ Quiesce(t) \/ Collect(t)
                      \/ \E saved, wait \in BOOLEAN : Kill(t, saved, wait)

ClaimStep(k) ==
  \/ TryClaim(k) \/ ScanStale(k) \/ WaitTimesOut(k) \/ RetryClaim(k)
  \/ RefuseClaim(k) \/ StampLaunched(k)

PrepareStep(k) == SettleCard(k) \/ Hydrated(k) \/ AbortClaim(k)

OpStep(o) == Heartbeat(o) \/ Refresh(o) \/ SwapDisc(o) \/ FailOp(o)

TaskStep(t) ==
  \/ MarkReleased(t) \/ MarkAbandoned(t) \/ Reread(t)
  \/ Give(t) \/ LetGo(t) \/ Brief(t) \/ Drop(t)

SessionStep ==
  \/ \E k \in Claims : \/ ClaimStep(k) \/ HoldClaim(k) \/ HoldOverruns(k)
                       \/ \E c \in Containers : ClaimDesktop(k, c)
  \/ \E o \in Ops : OpStep(o) \/ \E c \in Containers : BeginOp(o, c)
  \/ \E t \in Tasks : TaskStep(t) \/ KeepAlive(t) \/ KeepOverruns(t)
  \/ \E t \in Tasks, c \in Containers :
        BeginRelease(t, c) \/ BeginExit(t, c) \/ BeginSweep(t, c)
  \/ \E c \in Containers : Age(c) \/ Expire(c)
  \/ Crash

StoreStep == SessionStep \/ \E k \in Claims : ArriveClaim(k) \/ PrepareStep(k)

Next == StoreStep \/ BrokerStep

Spec == Init /\ [][Next]_vars

\* Requests and tasks make progress: every broker call carries a timeout and
\* the event loop runs every task.  Keys expire, and players leave.
Fairness ==
  /\ \A k \in Claims : WF_vars(ClaimStep(k) \/ PrepareStep(k) \/ Activate(k))
  /\ \A o \in Ops : WF_vars(OpStep(o))
  /\ \A t \in Tasks : WF_vars(TaskStep(t) \/ Quiesce(t) \/ Collect(t) \/
                              \E saved, wait \in BOOLEAN : Kill(t, saved, wait))
  /\ \A c \in Containers : WF_vars(Expire(c)) /\ WF_vars(Age(c))

FairSpec == Spec /\ Fairness

-----------------------------------------------------------------------------
(* What the design has to get right. *)

\* A teardown whose drain marker landed, and whose keepalive runs, still holds
\* the container by that marker: nobody buried, dropped or outlived it.
\* (hold_drain_marker, drop_drain_marker, claim_drain_marker)
ReservationHeld ==
  \A t \in Tasks : task[t].token /\ task[t].keep = "ticking" =>
                     HoldsToken(store[task[t].at], task[t].of)

\* Two teardowns never work on one container under live markers, however many
\* claims saw the same stale session or however often an exit was pressed.
\* (the marker's token, lifecycle.py _teardown_abandoned_session)
SoleTeardown ==
  \A t, u \in Tasks :
    /\ t # u /\ task[t].token /\ task[t].keep = "ticking"
    /\ task[u].token /\ task[u].keep = "ticking"
    => task[t].at # task[u].at

\* A drain marker lives for seconds unless its keepalive refreshes it, so a
\* backend that dies frees the container in a minute.  (session_store.py 44-56)
MarkerStaysShort ==
  \A c \in Containers : store[c].st = "drain" => store[c].ttl = "short"

\* The disc, card and launch stamp on a record were written by the claim the
\* record is of; a drain marker carries nobody's.  (set_session_disc,
\* stamp_launched, _settle_memory_card)
OwnDataOnly ==
  \A c \in Containers : store[c].merged \subseteq
                          (IF store[c].st = "claim" THEN {store[c].by} ELSE {})

\* From winning a container until its launch is up, a claim keeps its key: no
\* teardown, expiry or other claim gets in.  (claim_session, run_launch)
LaunchHoldsClaim ==
  \A k \in Claims : Launching(k) => SameClaim(store[req[k].at], k)

\* A session whose player is still beating is only ended by a request that
\* ends that session: not by a takeover, an expiry or another session's
\* teardown.  (every guarded release)
FreshClaimKept ==
  [][\A c \in Containers : LET k == store[c].by IN
       store[c].st = "claim" /\ store[c].fresh /\ ~SameClaim(store'[c], k) =>
         \/ AbortClaim(k)
         \/ \E t \in Tasks : /\ task[t].of = k
                             /\ task[t].kind \in {"release", "exit", "sweep"}
                             /\ task'[t].pc # task[t].pc]_vars

\* The abstract lease, read off the store; a claim that won a container never
\* forgets which one.
Lease == INSTANCE ContainerLease WITH
  mode <- [c \in Containers |-> store[c].st],
  holder <- [c \in Containers |-> store[c].by],
  spent <- {k \in Claims : req[k].at # None}

\* The store implements the lease: containers are handed over only while free,
\* and no late write brings an ended claim back.  (cas_session, SET NX)
LeaseImplemented == Lease!LeaseSpec

\* Once players stop beating every container ends up free for good: no marker,
\* claim or keepalive outlives the work behind it, whatever failed or crashed.
\* (the TTLs, _HOLD_CEILING_SECONDS, the finally blocks of lifecycle.py)
NothingWedged ==
  \/ []<><<\E o \in Ops : Heartbeat(o)>>_vars
  \/ <>[](\A c \in Containers : store[c].st = "free")

\* A drain marker always goes: it is dropped by the exit that wrote it or it
\* expires, even when the drop was contended or the backend died holding it.
\* (drop_drain_marker, DRAIN_MARKER_TTL)
DrainEnds == \A c \in Containers : store[c].st = "drain" ~> store[c].st # "drain"

\* Every claim request is answered: it launches or is refused.
\* (_win_container's walk, ABANDONED_TEARDOWN_WAIT)
ClaimAnswered ==
  \A k \in Claims : req[k].pc = "try" ~> req[k].pc \in {"up", "over"}
=============================================================================
