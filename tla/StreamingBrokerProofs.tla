------------------------ MODULE StreamingBrokerProofs ------------------------
(***************************************************************************)
(* Proofs about StreamingBroker, for every pool and every number of        *)
(* claims, teardowns and requests.  The sessions of StreamingBroker are    *)
(* those of StreamingSession with the emulator beside them, so what is     *)
(* proved of the keys and the teardowns carries over; the emulator and the *)
(* exit state it keeps are then tied to the key.                           *)
(***************************************************************************)
EXTENDS StreamingBroker, StreamingSessionProofs

allVars == <<vars, brokerVars>>

-----------------------------------------------------------------------------
(* The sessions under the emulator. *)

\* Every step is a step of the sessions.
LEMMA BrokerSteps == [BrokerNext]_allVars => [Next]_vars
  BY DEF BrokerNext, WithBroker, Next, BrokerStep, StartGame, StopAndQuiesce, SaveAndExit,
         PullState, allVars

\* The sessions behind the emulator are those of StreamingSession.
THEOREM BrokerKeepsSessions == BrokerSpec => Spec
<1>1. BrokerInit => Init
  BY DEF BrokerInit
<1> QED BY <1>1, BrokerSteps, PTL DEF BrokerSpec, Spec, allVars

\* An activate writes no key.
LEMMA StartFacts ==
  ASSUME IInv, NEW k \in Claims, StartGame(k)
  PROVE  /\ req[k].at \in Containers /\ Launching(k)
         /\ UNCHANGED <<store, task>> /\ ~Preparing(k)'
         /\ \A j \in Claims : j # k => req'[j] = req[j]
<1>1. Moved(k, "stamp", req[k].at, req[k].idx, "off")
  BY ReqFacts, MovePcHold DEF StartGame, Activate, ReqPcs, Holds
<1>2. Launching(k) /\ UNCHANGED <<store, task>>
  BY DEF StartGame, Activate, Launching
<1> QED BY <1>1, <1>2, ReqFacts DEF Moved, Preparing, Launching, ReqOK

\* A teardown that reaches the broker is at a container, and moves to pc.
LEMMA WorkFacts ==
  ASSUME IInv, NEW t \in Tasks, NEW p, task[t].pc # "idle", p # "idle",
         task' = [task EXCEPT ![t].pc = p]
  PROVE  /\ task[t].at \in Containers /\ task[t].of \in Claims \cup {None}
         /\ task[t].token \in BOOLEAN
         /\ task'[t].pc = p /\ task'[t].at = task[t].at
         /\ \A u \in Tasks : u # t => task'[u] = task[u]
<1>1. task \in [Tasks -> TaskState]
  BY TaskFacts
<1> QED BY <1>1, TaskFacts DEF TaskState, TaskOK

\* What a stop leaves of the emulator.
LEMMA StopFacts ==
  ASSUME BrokerTypeOK, NEW c \in Containers, NEW stopped \in BOOLEAN, NEW saved \in BOOLEAN,
         NEW reserved \in BOOLEAN, StopGame(c, stopped, saved, reserved)
  PROVE  /\ game' \in [Containers -> Claims \cup {None}]
         /\ exited' \in [Containers -> Claims \cup {None}]
         /\ loose' \subseteq Containers
         /\ \A d \in Containers : game'[d] \in {game[d], None}
         /\ \A d \in Containers : exited'[d] \in {exited[d], game[d]}
         /\ \A d \in Containers : d # c \/ ~saved => exited'[d] = exited[d]
         /\ ~saved => loose' = loose
         /\ saved => c \in loose' \/ reserved
         /\ loose \ {c} \subseteq loose'
<1>1. game' \in [Containers -> Claims \cup {None}] /\ \A d \in Containers : game'[d] \in {game[d], None}
  <2>1. CASE stopped
    <3>1. game' = [game EXCEPT ![c] = None]
      BY <2>1, Zenon DEF StopGame
    <3> QED BY <3>1 DEF BrokerTypeOK
  <2>2. CASE ~stopped
    <3>1. game' = game
      BY <2>2, Zenon DEF StopGame
    <3> QED BY <3>1 DEF BrokerTypeOK
  <2> QED BY <2>1, <2>2
<1>2. CASE saved
  <2>1. exited' = [exited EXCEPT ![c] = game[c]]
    BY <1>2, Zenon DEF StopGame
  <2>2. loose' = IF reserved THEN loose \ {c} ELSE loose \cup {c}
    BY <1>2, Zenon DEF StopGame
  <2> QED BY <1>1, <1>2, <2>1, <2>2 DEF BrokerTypeOK
<1>3. CASE ~saved
  <2>1. exited' = exited /\ loose' = loose
    BY <1>3, Zenon DEF StopGame
  <2> QED BY <1>1, <1>3, <2>1 DEF BrokerTypeOK
<1> QED BY <1>2, <1>3

\* Initially the emulator runs nothing and keeps nothing.
LEMMA InitBrokerType == BrokerInit => BrokerTypeOK
  BY DEF BrokerInit, BrokerTypeOK

\* Every step keeps the types of the emulator's state.
LEMMA StepBrokerType ==
  ASSUME IInv, BrokerTypeOK, [BrokerNext]_allVars
  PROVE  BrokerTypeOK'
<1>1. ASSUME NEW k \in Claims, StartGame(k)
      PROVE  BrokerTypeOK'
  BY <1>1, StartFacts DEF StartGame, BrokerTypeOK
<1>2. ASSUME NEW t \in Tasks, StopAndQuiesce(t) \/ SaveAndExit(t)
      PROVE  BrokerTypeOK'
  <2>1. task[t].at \in Containers /\ task[t].token \in BOOLEAN
    <3>1. task \in [Tasks -> TaskState] /\ task[t].pc # "idle"
      BY <1>2, TaskFacts DEF StopAndQuiesce, SaveAndExit, Quiesce, Kill
    <3> QED BY <3>1, TaskFacts DEF TaskState, TaskOK
  <2>2. PICK stopped, saved, reserved, full \in BOOLEAN :
          /\ StopGame(task[t].at, stopped, saved, reserved)
          /\ slot' = [slot EXCEPT ![t] = full] /\ filed' = filed
    BY <1>2, <2>1 DEF StopAndQuiesce, SaveAndExit
  <2> QED BY <2>1, <2>2, StopFacts DEF BrokerTypeOK
<1>3. ASSUME NEW t \in Tasks, PullState(t)
      PROVE  BrokerTypeOK'
  <2>1. task[t].at \in Containers
    BY <1>3, TaskFacts DEF PullState, Collect, TaskOK
  <2> QED BY <1>3, <2>1 DEF PullState, BrokerTypeOK
<1>4. CASE UNCHANGED brokerVars
  BY <1>4 DEF brokerVars, BrokerTypeOK
<1> QED BY <1>1, <1>2, <1>3, <1>4 DEF BrokerNext, WithBroker, allVars

\* The emulator's state is well typed in every reachable state.
THEOREM BrokerTypeCorrect == BrokerSpec => []BrokerTypeOK
<1>1. IInv /\ BrokerTypeOK /\ [BrokerNext]_allVars => BrokerTypeOK'
  BY StepBrokerType
<1> QED BY <1>1, InitBrokerType, BrokerKeepsSessions, Invariance, PTL DEF BrokerSpec, allVars

-----------------------------------------------------------------------------
(* The emulator and the key of its container. *)

\* Where launches are not cut into, every marker lands and is kept, and the backend
\* does not restart.
Orderly == Steady /\ Guarded /\ MaxCrashes = 0

\* Once the launch of the claim at a key is past its activate, the emulator runs
\* that claim's game or none, and keeps a state of that game or none.
Matches(c) ==
  store[c].st # "free" /\ ~Preparing(store[c].by) =>
    game[c] \in {None, store[c].by} /\ exited[c] \in {None, store[c].by}
MatchInv == \A c \in Containers : Matches(c)

\* A state saved under a marker, whose pull has not failed, is awaited by the teardown
\* that will pull it.
AwaitInv == \A c \in Containers : exited[c] # None /\ c \notin loose =>
  \E t \in Tasks : task[t].at = c /\ task[t].pc = "collect" /\ slot[t]

\* A teardown that has its container to itself holds it by its marker, and the
\* launch of the session it ends is over.
LEMMA ReservedFacts ==
  ASSUME IInv, LaunchInv, Orderly, NEW t \in Tasks, task[t].pc \in {"quiesce", "collect"}
  PROVE  /\ task[t].at \in Containers /\ task[t].of \in Claims /\ task[t].token
         /\ HoldsToken(store[task[t].at], task[t].of) /\ ~Preparing(task[t].of)
<1>1. task[t].at \in Containers /\ task[t].token /\ task[t].keep = "ticking"
  BY TaskFacts DEF TaskOK, Orderly
<1>2. task[t].of \in Claims /\ HoldsToken(store[task[t].at], task[t].of)
  BY <1>1 DEF IInv, HeldInv, ReservationHeld, TokenInv, Orderly, Steady
<1>3. ~Launching(task[t].of)
  BY <1>2 DEF LaunchInv, LaunchKept, Orderly
<1> QED BY <1>1, <1>2, <1>3 DEF Preparing, Launching

\* A step of the sessions never puts a claim past its preparation at a key: it was
\* there, and as far, before.
LEMMA KeyMatched ==
  ASSUME IInv, LaunchInv, Orderly, StoreStep, NEW c \in Containers,
         NEW k \in Claims, store'[c].st # "free", store'[c].by = k, ~Preparing(k)'
  PROVE  store[c].st # "free" /\ store[c].by = k /\ ~Preparing(k)
<1>1. KeyStep /\ KeyWrites /\ PrepsFrom
  BY StepInv, StoreStepFrom DEF Next, StoreFrom, StepFrom
<1>2. store[c] \in Entry
  BY DEF IInv, TypeOK
<1>3. store[c].st # "free" /\ store[c].by = k
  <2>1. CASE Quiet
    BY <2>1 DEF Quiet
  <2>2. CASE \E d \in Containers, j \in Claims : Took(d, j)
    <3>1. PICK d \in Containers, j \in Claims : Took(d, j)
      BY <2>2
    <3>2. CASE d # c
      BY <3>1, <3>2 DEF Took, Elsewhere
    <3>3. CASE d = c
      <4>1. store[c].st = "free" /\ store'[c].st = "claim" /\ store'[c] # store[c]
        BY <3>1, <3>3 DEF Took
      <4>2. \A i \in Claims : Merged(store[c], i).st = "free"
        BY <1>2, <4>1, WrittenFields
      <4>3. [store[c] EXCEPT !.ttl = "full"].st = "free"
        BY <1>2, <4>1 DEF Entry
      <4>4. Write(c, store'[c])
        BY <1>1, <4>1 DEF KeyWrites
      <4>5. Free.st = "free" /\ Marker(store[c].by).st = "drain"
        BY DEF Free, Marker
      <4>6. PICK i \in Claims : store'[c] = Session(i) /\ Preparing(i)'
        BY <4>1, <4>2, <4>3, <4>4, <4>5 DEF Write
      <4>7. i = k
        BY <4>6 DEF Session
      <4> QED BY <4>6, <4>7
    <3> QED BY <3>2, <3>3
  <2>3. CASE \E d \in Containers : Drained(d) \/ Vacated(d)
    BY <2>3 DEF Drained, Vacated, Elsewhere
  <2> QED BY <1>1, <2>1, <2>2, <2>3 DEF KeyStep
<1>4. ASSUME Preparing(k)
      PROVE  FALSE
  <2>1. req[k].at = c
    BY <1>3 DEF IInv, StoreInv
  <2>2. ~Crash
    BY DEF Crash, IInv, TypeOK, Orderly
  <2>3. AbortClaim(k)
    BY <1>1, <1>4, <2>2 DEF PrepsFrom
  <2>4. SameClaim(store[c], k)
    BY <1>4, <2>1 DEF LaunchInv, LaunchKept, Launching, Preparing, Orderly
  <2>5. Cas(c, SameClaim(store[c], k), Free)
    BY <2>1, <2>3 DEF AbortClaim, Contended, Orderly, Guarded
  <2>6. store' = [store EXCEPT ![c] = Free]
    BY <2>4, <2>5, Zenon DEF Cas
  <2>7. store'[c] = Free
    BY <2>6 DEF IInv, TypeOK
  <2> QED BY <2>7 DEF Free
<1> QED BY <1>3, <1>4

\* A step of the sessions never disturbs a teardown that is collecting a state.
LEMMA CollectsKept ==
  ASSUME IInv, Orderly, StoreStep, NEW t \in Tasks, task[t].pc = "collect"
  PROVE  task'[t].pc = "collect" /\ task'[t].at = task[t].at
<1>1. ~Crash
  BY DEF Crash, IInv, TypeOK, Orderly
<1>2. ~TaskStep(t) /\ ~Begins(t)
  BY DEF TaskStep, MarkReleased, MarkAbandoned, Reread, Give, LetGo, Brief, Drop, Begins
<1> QED BY <1>1, <1>2, TaskMoves DEF Stays

-----------------------------------------------------------------------------
(* The invariants of the emulator. *)

\* Initially every container is free and the emulator keeps nothing.
LEMMA InitEmulator == BrokerInit => MatchInv /\ AwaitInv
  BY DEF BrokerInit, Init, Free, MatchInv, Matches, AwaitInv

\* Every step keeps the emulator with the claim at the key.
LEMMA StepMatch ==
  ASSUME IInv, LaunchInv, BrokerTypeOK, MatchInv, Orderly, [BrokerNext]_allVars
  PROVE  MatchInv'
<1>1. ASSUME NEW k \in Claims, StartGame(k)
      PROVE  MatchInv'
  <2> DEFINE d == req[k].at
  <2>1. /\ d \in Containers /\ UNCHANGED store
        /\ \A j \in Claims : j # k => req'[j] = req[j]
    BY <1>1, StartFacts
  <2>2. store[d].by = k
    BY <1>1, StartFacts DEF LaunchInv, LaunchKept, SameClaim, Orderly
  <2>3. ASSUME NEW c \in Containers, c # d, store[c].st # "free"
        PROVE  store[c].by \in Claims \ {k}
    BY <2>3 DEF IInv, StoreInv
  <2>4. /\ game'[d] = k /\ exited'[d] = None
        /\ \A c \in Containers : c # d => game'[c] = game[c] /\ exited'[c] = exited[c]
    BY <1>1, <2>1 DEF StartGame, BrokerTypeOK
  <2>5. ASSUME NEW c \in Containers
        PROVE  Matches(c)'
    BY <2>1, <2>2, <2>3, <2>4, <2>5 DEF MatchInv, Matches, Preparing
  <2> QED BY <2>5 DEF MatchInv
<1>2. ASSUME NEW t \in Tasks, StopAndQuiesce(t) \/ SaveAndExit(t)
      PROVE  MatchInv'
  <2>1. task[t].at \in Containers /\ task[t].token \in BOOLEAN
    <3>1. task \in [Tasks -> TaskState] /\ task[t].pc # "idle"
      BY <1>2, TaskFacts DEF StopAndQuiesce, SaveAndExit, Quiesce, Kill
    <3> QED BY <3>1, TaskFacts DEF TaskState, TaskOK
  <2>2. PICK stopped, saved, reserved \in BOOLEAN :
          StopGame(task[t].at, stopped, saved, reserved)
    BY <1>2, <2>1 DEF StopAndQuiesce, SaveAndExit
  <2>3. UNCHANGED <<store, req>>
    BY <1>2 DEF StopAndQuiesce, SaveAndExit, Quiesce, Kill
  <2>4. \A c \in Containers : game'[c] \in {game[c], None} /\ exited'[c] \in {exited[c], game[c]}
    BY <2>1, <2>2, StopFacts
  <2> QED BY <2>3, <2>4 DEF MatchInv, Matches, Preparing
<1>3. ASSUME NEW t \in Tasks, PullState(t)
      PROVE  MatchInv'
  <2>1. UNCHANGED <<store, req, game>>
    BY <1>3 DEF PullState, Collect
  <2>2. \A c \in Containers : exited'[c] \in {exited[c], None}
    BY <1>3 DEF PullState, BrokerTypeOK
  <2> QED BY <2>1, <2>2 DEF MatchInv, Matches, Preparing
<1>4. ASSUME StoreStep, UNCHANGED brokerVars
      PROVE  MatchInv'
  <2> SUFFICES ASSUME NEW c \in Containers, NEW k, k = store'[c].by,
                      store'[c].st # "free", ~Preparing(k)'
               PROVE  game[c] \in {None, k} /\ exited[c] \in {None, k}
    BY <1>4 DEF MatchInv, Matches, Preparing, brokerVars
  <2>1. k \in Claims
    BY <1>4, StepInv DEF Next, IInv, StoreInv
  <2>2. store[c].st # "free" /\ store[c].by = k /\ ~Preparing(k)
    BY <1>4, <2>1, KeyMatched
  <2> QED BY <2>2 DEF MatchInv, Matches
<1>5. CASE UNCHANGED allVars
  BY <1>5 DEF allVars, vars, brokerVars, MatchInv, Matches, Preparing
<1> QED BY <1>1, <1>2, <1>3, <1>4, <1>5 DEF BrokerNext, WithBroker

\* Every step keeps a reserved exit state awaited.
LEMMA StepAwait ==
  ASSUME IInv, LaunchInv, BrokerTypeOK, AwaitInv, Orderly, [BrokerNext]_allVars
  PROVE  AwaitInv'
<1>1. ASSUME NEW k \in Claims, StartGame(k)
      PROVE  AwaitInv'
  <2>1. UNCHANGED <<task, slot, loose>> /\ \A c \in Containers : exited'[c] \in {exited[c], None}
    BY <1>1, StartFacts DEF StartGame, BrokerTypeOK
  <2> QED BY <2>1 DEF AwaitInv
<1>2. ASSUME NEW t \in Tasks, StopAndQuiesce(t) \/ SaveAndExit(t)
      PROVE  AwaitInv'
  <2> DEFINE d == task[t].at
  <2>1. PICK p \in TaskPcs : /\ task' = [task EXCEPT ![t].pc = p]
                             /\ p # "idle" /\ task[t].pc \notin {"idle", "collect"}
                             /\ StopAndQuiesce(t) => p = "collect"
    <3>1. CASE StopAndQuiesce(t)
      BY <3>1 DEF StopAndQuiesce, Quiesce, TaskPcs
    <3>2. CASE SaveAndExit(t)
      <4>1. PICK p \in {"give", "let-go", "brief"} : task' = [task EXCEPT ![t].pc = p]
        BY <3>2, Zenon DEF SaveAndExit, Kill
      <4>2. task[t].pc = "kill" /\ ~StopAndQuiesce(t)
        BY <3>2 DEF SaveAndExit, Kill, StopAndQuiesce, Quiesce
      <4> QED BY <4>1, <4>2 DEF TaskPcs
    <3> QED BY <1>2, <3>1, <3>2
  <2>2. /\ d \in Containers /\ task[t].token \in BOOLEAN
        /\ task'[t].pc = p /\ task'[t].at = d
        /\ \A u \in Tasks : u # t => task'[u] = task[u]
    BY <2>1, WorkFacts
  <2>3. PICK stopped, saved, reserved, full \in BOOLEAN :
          /\ StopGame(d, stopped, saved, reserved)
          /\ slot' = [slot EXCEPT ![t] = full]
          /\ StopAndQuiesce(t) \/ ~reserved
          /\ StopAndQuiesce(t) => full = saved
    <3>1. CASE StopAndQuiesce(t)
      BY <2>2, <3>1 DEF StopAndQuiesce
    <3>2. CASE SaveAndExit(t)
      <4>1. ~StopAndQuiesce(t)
        BY <3>2 DEF SaveAndExit, Kill, StopAndQuiesce, Quiesce
      <4> QED BY <3>2, <4>1 DEF SaveAndExit
    <3> QED BY <1>2, <3>1, <3>2
  <2>4. slot'[t] = full /\ \A u \in Tasks : u # t => slot'[u] = slot[u]
    BY <2>3 DEF BrokerTypeOK
  <2> SUFFICES ASSUME NEW c \in Containers, exited'[c] # None, c \notin loose'
               PROVE  \E u \in Tasks : /\ task'[u].at = c /\ task'[u].pc = "collect"
                                       /\ slot'[u]
    BY DEF AwaitInv
  <2>5. CASE c = d /\ saved
    <3>1. StopAndQuiesce(t)
      BY <2>2, <2>3, <2>5, StopFacts
    <3> QED BY <2>1, <2>2, <2>3, <2>4, <2>5, <3>1
  <2>6. CASE c # d \/ ~saved
    <3>1. exited[c] # None /\ c \notin loose
      BY <2>2, <2>3, <2>6, StopFacts
    <3>2. PICK u \in Tasks : task[u].at = c /\ task[u].pc = "collect" /\ slot[u]
      BY <3>1 DEF AwaitInv
    <3> QED BY <2>1, <2>2, <2>4, <3>2
  <2> QED BY <2>5, <2>6
<1>3. ASSUME NEW t \in Tasks, PullState(t)
      PROVE  AwaitInv'
  <2> DEFINE d == task[t].at
  <2>1. d \in Containers
    BY <1>3, ReservedFacts DEF PullState, Collect
  <2>2. \A u \in Tasks : u # t => task'[u] = task[u]
    BY <1>3, WorkFacts DEF PullState, Collect
  <2>3. loose \subseteq loose' /\ \A u \in Tasks : u # t => slot'[u] = slot[u]
    BY <1>3 DEF PullState, BrokerTypeOK
  <2>4. /\ \A c \in Containers : exited'[c] \in {exited[c], None}
        /\ slot[t] => exited'[d] = None \/ d \in loose'
    BY <1>3, <2>1 DEF PullState, BrokerTypeOK
  <2> SUFFICES ASSUME NEW c \in Containers, exited'[c] # None, c \notin loose'
               PROVE  \E u \in Tasks : /\ task'[u].at = c /\ task'[u].pc = "collect"
                                       /\ slot'[u]
    BY DEF AwaitInv
  <2>5. PICK u \in Tasks : task[u].at = c /\ task[u].pc = "collect" /\ slot[u]
    BY <2>3, <2>4 DEF AwaitInv
  <2>6. u # t
    BY <2>4, <2>5
  <2> QED BY <2>2, <2>3, <2>5, <2>6
<1>4. ASSUME StoreStep, UNCHANGED brokerVars
      PROVE  AwaitInv'
  BY <1>4, CollectsKept DEF AwaitInv, brokerVars
<1>5. CASE UNCHANGED allVars
  BY <1>5 DEF allVars, vars, brokerVars, AwaitInv
<1> QED BY <1>1, <1>2, <1>3, <1>4, <1>5 DEF BrokerNext, WithBroker

-----------------------------------------------------------------------------
(* The theorems about the emulator. *)

\* What holds in every reachable state of the sessions and the emulator.
EmulatorInv == IInv /\ LaunchInv /\ BrokerTypeOK /\ MatchInv

\* It does, where launches are not cut into and every marker lands.
LEMMA EmulatorInvariance ==
  ASSUME Orderly
  PROVE  BrokerSpec => []EmulatorInv
<1>1. BrokerInit => LaunchInv /\ BrokerTypeOK /\ MatchInv
  BY InitLaunch, InitBrokerType, InitEmulator DEF BrokerInit
<1>2. IInv /\ LaunchInv /\ BrokerTypeOK /\ MatchInv /\ [BrokerNext]_allVars =>
        LaunchInv' /\ BrokerTypeOK' /\ MatchInv'
  BY BrokerSteps, StepLaunch, StepBrokerType, StepMatch
<1> QED BY <1>1, <1>2, BrokerKeepsSessions, Invariance, PTL
        DEF BrokerSpec, EmulatorInv, allVars

\* Where launches are not cut into, every marker lands and the backend does not
\* restart, a state filed in a user's library is of that user's own session.
THEOREM StatesAreTheirPlayers ==
  ASSUME {"early", "sweep", "contention", "overrun"} \cap Env = {}, MaxCrashes = 0
  PROVE  BrokerSpec => []FiledForItsPlayer
<1>1. Orderly
  BY DEF Orderly, Steady, Guarded
<1>2. BrokerInit => FiledForItsPlayer
  BY DEF BrokerInit, FiledForItsPlayer
<1>3. ASSUME EmulatorInv, FiledForItsPlayer, [BrokerNext]_allVars
      PROVE  FiledForItsPlayer'
  <2>1. ASSUME NEW t \in Tasks, PullState(t)
        PROVE  FiledForItsPlayer'
    <3>1. exited[task[t].at] \in {None, task[t].of}
      BY <1>1, <1>3, <2>1, ReservedFacts
      DEF EmulatorInv, PullState, Collect, MatchInv, Matches, HoldsToken
    <3> QED BY <1>3, <2>1, <3>1 DEF PullState, FiledForItsPlayer
  <2>2. CASE ~\E t \in Tasks : PullState(t)
    <3>1. filed' = filed
      BY <1>3, <2>2 DEF BrokerNext, WithBroker, StartGame, StopAndQuiesce, SaveAndExit,
         brokerVars, allVars
    <3> QED BY <1>3, <3>1 DEF FiledForItsPlayer
  <2> QED BY <2>1, <2>2
<1> QED BY <1>1, <1>2, <1>3, EmulatorInvariance, PTL DEF BrokerSpec, allVars

\* There, a teardown that holds its drain marker stops its own session's game or
\* none.
THEOREM TeardownsStopTheirOwn ==
  ASSUME {"early", "sweep", "contention", "overrun"} \cap Env = {}, MaxCrashes = 0
  PROVE  BrokerSpec => StopsOwnGame
<1> DEFINE Stops == \A t \in Tasks : task[t].token /\ StopAndQuiesce(t) =>
             game[task[t].at] \in {None, task[t].of}
<1>1. Orderly
  BY DEF Orderly, Steady, Guarded
<1>2. EmulatorInv => Stops
  BY <1>1, ReservedFacts
  DEF EmulatorInv, StopAndQuiesce, Quiesce, MatchInv, Matches, HoldsToken
<1>3. EmulatorInv /\ [BrokerNext]_allVars => [Stops]_allVars
  BY <1>2
<1> QED BY <1>1, <1>3, EmulatorInvariance, PTL DEF BrokerSpec, StopsOwnGame, allVars

\* There, an activate never discards an exit state that was saved under a marker
\* unless its pull was tried and failed, or it has no library to go to.
\* (teardown_released_session, collect_exit_state)
THEOREM ExitStatesAreCollected ==
  ASSUME {"early", "sweep", "contention", "overrun"} \cap Env = {}, MaxCrashes = 0
  PROVE  BrokerSpec => ExitStateCollected
<1> DEFINE Collected == \A k \in Claims : StartGame(k) =>
             exited[req[k].at] = None \/ req[k].at \in loose
<1>1. Orderly
  BY DEF Orderly, Steady, Guarded
<1>2. BrokerInit => AwaitInv
  BY InitEmulator
<1>3. EmulatorInv /\ AwaitInv /\ [BrokerNext]_allVars => AwaitInv'
  BY <1>1, StepAwait DEF EmulatorInv
<1>4. EmulatorInv /\ AwaitInv => Collected
  <2> SUFFICES ASSUME EmulatorInv, AwaitInv, NEW k \in Claims, StartGame(k),
                      exited[req[k].at] # None, req[k].at \notin loose
               PROVE  FALSE
    OBVIOUS
  <2>1. req[k].at \in Containers /\ SameClaim(store[req[k].at], k)
    BY <1>1, StartFacts DEF EmulatorInv, LaunchInv, LaunchKept, Orderly
  <2>2. PICK t \in Tasks : task[t].at = req[k].at /\ task[t].pc = "collect"
    BY <2>1 DEF AwaitInv
  <2> QED BY <1>1, <2>1, <2>2, ReservedFacts DEF EmulatorInv, HoldsToken, SameClaim
<1>5. EmulatorInv /\ AwaitInv /\ [BrokerNext]_allVars => [Collected]_allVars
  BY <1>4
<1> QED BY <1>1, <1>2, <1>3, <1>5, EmulatorInvariance, PTL
        DEF BrokerSpec, ExitStateCollected, allVars
=============================================================================
