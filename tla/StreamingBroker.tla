--------------------------- MODULE StreamingBroker ---------------------------
(***************************************************************************)
(* The session lifecycle together with the emulator container it drives:   *)
(* which game runs there, which exit state the broker still keeps, and     *)
(* what was filed in the library.  The broker is outside the repository    *)
(* and is modelled from how handler/streaming/{commands,lifecycle,states}  *)
(* .py use it: one game at a time, an exit state kept until the next       *)
(* activate.                                                               *)
(***************************************************************************)
EXTENDS StreamingSession

VARIABLES
  game,    \* container -> the claim whose game the emulator runs
  exited,  \* container -> the claim whose exit state waits to be pulled
  slot,    \* teardown slot -> whether its stop reported a saved state
  filed,   \* <<g, k>>: a state of g's game was filed in the library for k
  loose    \* the containers whose exit state nobody files any more: saved under no
           \* marker, or its pull failed (history)

brokerVars == <<game, exited, slot, filed, loose>>

BrokerTypeOK ==
  /\ game \in [Containers -> Claims \cup {None}]
  /\ exited \in [Containers -> Claims \cup {None}]
  /\ slot \in [Tasks -> BOOLEAN]
  /\ filed \subseteq Claims \X Claims
  /\ loose \subseteq Containers

BrokerInit ==
  /\ Init
  /\ game = [c \in Containers |-> None]
  /\ exited = [c \in Containers |-> None]
  /\ slot = [t \in Tasks |-> FALSE]
  /\ filed = {}
  /\ loose = {}

\* activate / launch: the emulator runs k's game, whatever ran there before,
\* and the state of the session before it is gone.
StartGame(k) ==
  /\ Activate(k)
  /\ game' = [game EXCEPT ![req[k].at] = k]
  /\ exited' = [exited EXCEPT ![req[k].at] = None]
  /\ UNCHANGED <<slot, filed, loose>>

\* exit / save-and-exit: whatever runs on c stops, if the broker can be
\* reached, and the broker may have kept a state of it.
StopGame(c, stopped, saved, reserved) ==
  /\ saved => stopped /\ game[c] # None
  /\ game' = IF stopped THEN [game EXCEPT ![c] = None] ELSE game
  /\ exited' = IF saved THEN [exited EXCEPT ![c] = game[c]] ELSE exited
  /\ loose' = IF ~saved THEN loose ELSE IF reserved THEN loose \ {c} ELSE loose \cup {c}

\* commands.stop answers the slot of the state, if one was saved.
StopAndQuiesce(t) == \E stopped, saved \in BOOLEAN :
  /\ Quiesce(t)
  /\ StopGame(task[t].at, stopped, saved, task[t].token)
  /\ slot' = [slot EXCEPT ![t] = saved]
  /\ UNCHANGED filed

\* commands.save_and_exit; without wait the answer comes before the outcome,
\* and the pull that follows waits for the broker to finish.
SaveAndExit(t) == \E stopped, saved, wait \in BOOLEAN :
  /\ Kill(t, saved, wait)
  /\ StopGame(task[t].at, stopped, saved, FALSE)
  /\ slot' = [slot EXCEPT ![t] = saved \/ ~wait]
  /\ UNCHANGED filed

\* Mutant: the state is filed for the claim that wanted the container.
PullForWaiter(t) ==
  LET c == task[t].at IN
  /\ Collect(t)
  /\ \/ /\ slot[t] /\ exited[c] # None
        /\ filed' = filed \cup {<<exited[c], task[t].waiter>>}
        /\ exited' = [exited EXCEPT ![c] = None]
        /\ UNCHANGED loose
     \/ UNCHANGED <<filed, exited>> /\ loose' = IF slot[t] THEN loose \cup {c} ELSE loose
  /\ slot' = [slot EXCEPT ![t] = FALSE]
  /\ UNCHANGED game

\* collect_exit_state: the state the broker keeps is filed for the owner of the
\* session being ended.  No ROM, no owner: no pull.  A pull that fails leaves the
\* state where it is, and the container is freed all the same.
PullState(t) ==
  LET c == task[t].at  k == task[t].of IN
  /\ Collect(t)
  /\ \/ /\ slot[t] /\ k \in Claims \ Desktops /\ exited[c] # None
        /\ filed' = filed \cup {<<exited[c], k>>}
        /\ exited' = [exited EXCEPT ![c] = None]
        /\ UNCHANGED loose
     \/ UNCHANGED <<filed, exited>> /\ loose' = IF slot[t] THEN loose \cup {c} ELSE loose
  /\ slot' = [slot EXCEPT ![t] = FALSE]
  /\ UNCHANGED game

WithBroker ==
  \/ \E k \in Claims : StartGame(k)
  \/ \E t \in Tasks : StopAndQuiesce(t) \/ SaveAndExit(t) \/ PullState(t)

BrokerNext == WithBroker \/ (StoreStep /\ UNCHANGED brokerVars)

BrokerSpec == BrokerInit /\ [][BrokerNext]_<<vars, brokerVars>>

-----------------------------------------------------------------------------
\* An activate never discards an exit state that was saved while a marker reserved
\* the container before its pull was tried: the marker outlasts the fetch.  Once a
\* pull has failed the state is lost to the next activate.
\* (teardown_released_session, _teardown_abandoned_session, collect_exit_state)
ExitStateCollected ==
  [][\A k \in Claims : StartGame(k) =>
       exited[req[k].at] = None \/ req[k].at \in loose]_<<vars, brokerVars>>

\* A state filed in a user's library is one of that user's own session.
\* (pull_state_to_library)
FiledForItsPlayer == \A f \in filed : f[1] = f[2]

\* A teardown that holds its drain marker never stops somebody else's game.
\* (teardown_released_session, _teardown_abandoned_session)
StopsOwnGame ==
  [][\A t \in Tasks : task[t].token /\ StopAndQuiesce(t) =>
       game[task[t].at] \in {None, task[t].of}]_<<vars, brokerVars>>
=============================================================================
