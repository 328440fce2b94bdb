--------------------------- MODULE StreamingCards ---------------------------
(***************************************************************************)
(* Whole-card sync: the memory card in the slot of a shared container, and *)
(* the cards and snapshots of the players who play on it.  A claim pushes  *)
(* its player's card down before the game reads it; every teardown takes   *)
(* the card off the container and blanks the slot while it still holds it. *)
(*   handler/streaming/memory_cards.py, utils/memory_cards.py, and the     *)
(*   card steps of endpoints/streaming.py and lifecycle.py                 *)
(* A card row is created by a claim and is identified with that claim.     *)
(***************************************************************************)
EXTENDS StreamingSession, SequencesExt

CONSTANTS
  Player,    \* claim -> the user who made it
  Foreign,   \* a card found in a slot that no claim of ours put there
  Faults,    \* what may fail, see CardFaults
  Reverts,   \* whether a game may bring back an earlier content of its card
  MaxWrites  \* bounds the contents one session writes

CardFaults == {"stop",    \* the broker does not stop the emulator
               "fetch",   \* the card cannot be read
               "store",   \* the snapshot cannot be stored
               "push",    \* the slot cannot be written
               "missing", \* the file of a snapshot is gone
               "launch"}  \* the activate fails

\* A teardown starts after the launch here, so it finds the card on the record.
ASSUME CardAssumption ==
  /\ CardSync /\ "early" \notin Env /\ Faults \subseteq CardFaults
  /\ Reverts \in BOOLEAN /\ MaxWrites \in Nat

VARIABLES
  slot,      \* container -> the content of its slot, None when blank
  running,   \* container -> the claim whose game runs
  decided,   \* container -> the recorded answer about its pre-existing card
  order,     \* the card rows, by updated_at
  versions,  \* card -> its snapshots, oldest first
  mounted,   \* claim -> the card it mounts, None while it has none
  recorded,  \* the claims whose session record names their card
  phase,     \* teardown slot -> how far its stop, capture and wipe are
  newest,    \* card -> the content last played on it and taken off a container
  played     \* the claims whose game has written to its card

cardVars ==
  <<slot, running, decided, order, versions, mounted, recorded, phase, newest, played>>

\* What k's game wrote, n times over.
Written == Claims \X (1..MaxWrites)
Contents == Written \cup {Foreign, None}

ASSUME ContentsAssumption == {Foreign, None} \cap Written = {} /\ Foreign # None

CardTypeOK ==
  /\ slot \in [Containers -> Contents]
  /\ running \in [Containers -> Claims \cup {None}]
  /\ decided \in [Containers -> {"no", "adopt", "discard"}]
  /\ order \in Seq(Claims)
  /\ versions \in [Claims -> Seq(Contents \ {None})]
  /\ mounted \in [Claims -> Claims \cup {None}]
  /\ recorded \subseteq {k \in Claims : mounted[k] # None}
  /\ phase \in [Tasks -> {"stop", "capture", "wipe", "keep"}]
  /\ newest \in [Claims -> Contents]
  /\ played \subseteq Claims

CardInit ==
  /\ Init
  /\ slot \in [Containers -> {Foreign, None}]
  /\ running = [c \in Containers |-> None]
  /\ decided = [c \in Containers |-> "no"]
  /\ order = <<>>
  /\ versions = [m \in Claims |-> <<>>]
  /\ mounted = [k \in Claims |-> None]
  /\ recorded = {}
  /\ phase = [t \in Tasks |-> "stop"]
  /\ newest = [m \in Claims |-> None]
  /\ played = {}

\* Mutant: the most recent card of anybody.
MostRecentOfAll(p) == IF order = <<>> THEN None ELSE Last(order)

\* resolve_card without an explicit id: the player's most recent card.
MostRecent(p) ==
  LET i == SelectLastInSeq(order, LAMBDA m : Player[m] = p)
  IN IF i = 0 THEN None ELSE order[i]

\* update_card of updated_at.
Touched(m) == Append(RemoveFirst(order, m), m)

\* store_memory_card_version: content already in the card's history is not
\* stored again.
Stored(m, x) ==
  IF Contains(versions[m], x) THEN versions
  ELSE [versions EXCEPT ![m] = Append(@, x)]

\* Mutant: the versions are ordered the other way.
Earliest(m) == IF versions[m] = <<>> THEN None ELSE Head(versions[m])

\* get_latest_version, blank without one.
Latest(m) == IF versions[m] = <<>> THEN None ELSE Last(versions[m])

-----------------------------------------------------------------------------
(* The claim. *)

\* The card is resolved before a container is won.
Arrive(k) ==
  /\ ArriveClaim(k)
  /\ mounted' = [mounted EXCEPT ![k] = MostRecent(Player[k])]
  /\ recorded' = IF mounted'[k] = None THEN recorded ELSE recorded \cup {k}
  /\ UNCHANGED <<slot, running, decided, order, versions, phase, newest, played>>

\* _settle_memory_card's blank for a first play.
Mount(k) == IF mounted[k] = None THEN k ELSE mounted[k]
Rows(k)  == IF mounted[k] = None THEN Append(order, k) ELSE order

\* The record learns a new card's id if the merge lands.
Recorded(k) ==
  IF k \in store'[req[k].at].merged THEN recorded \cup {k} ELSE recorded

\* _probe_container_card found the answer on record.
SettleDecided(k) ==
  /\ SettleCard(k)
  /\ decided[req[k].at] # "no"
  /\ mounted' = [mounted EXCEPT ![k] = Mount(k)]
  /\ order' = Rows(k)
  /\ recorded' = Recorded(k)
  /\ UNCHANGED <<slot, running, decided, versions, phase, newest, played>>

\* The player agreed to start over, or the slot is blank.
SettleDiscard(k, answer, readable) ==
  LET c == req[k].at IN
  /\ SettleCard(k)
  /\ decided[c] = "no"
  /\ ~readable => "fetch" \in Faults
  /\ answer = "discard" \/ (answer = "none" /\ readable /\ slot[c] = None)
  /\ decided' = [decided EXCEPT ![c] = "discard"]
  /\ mounted' = [mounted EXCEPT ![k] = Mount(k)]
  /\ order' = Rows(k)
  /\ recorded' = Recorded(k)
  /\ UNCHANGED <<slot, running, versions, phase, newest, played>>

\* Mutant: the adoption goes on record although nothing was stored.
SettleUnstored(k) ==
  LET c == req[k].at  m == Mount(k) IN
  /\ SettleCard(k)
  /\ decided[c] = "no" /\ slot[c] # None
  /\ decided' = [decided EXCEPT ![c] = "adopt"]
  /\ mounted' = [mounted EXCEPT ![k] = m]
  /\ order' = Touched(m)
  /\ recorded' = Recorded(k)
  /\ UNCHANGED <<slot, running, versions, phase, newest, played>>

\* The card found becomes a snapshot of the player's card, unless hydrate would
\* push another one over it.
SettleAdopt(k) ==
  LET c == req[k].at  m == Mount(k)  x == slot[c] IN
  /\ SettleCard(k)
  /\ decided[c] = "no" /\ x # None
  /\ mounted[k] # None => m \in ToSet(order)
  /\ Contains(versions[m], x) => Latest(m) = x
  /\ versions' = Stored(m, x)
  /\ decided' = [decided EXCEPT ![c] = "adopt"]
  /\ mounted' = [mounted EXCEPT ![k] = m]
  /\ order' = Touched(m)
  /\ recorded' = Recorded(k)
  /\ newest' = [newest EXCEPT ![m] = x]
  /\ UNCHANGED <<slot, running, phase, played>>

\* The merge lands for a new blank and is not asked for otherwise.
Merges(k) ==
  /\ k \in store'[req[k].at].merged => mounted[k] = None
  /\ mounted[k] = None => k \in store'[req[k].at].merged \/ "contention" \in Env

Settle(k) ==
  /\ \/ SettleDecided(k) \/ SettleAdopt(k)
     \/ \E answer \in {"none", "discard"}, readable \in BOOLEAN :
          SettleDiscard(k, answer, readable)
  /\ Merges(k)

\* Mutant: a blank card needs no push.
HydrateSnapshots(k) ==
  LET c == req[k].at  m == mounted[k] IN
  /\ Hydrated(k)
  /\ slot' = IF Latest(m) = None THEN slot ELSE [slot EXCEPT ![c] = Latest(m)]
  /\ UNCHANGED <<running, decided, order, versions, mounted, recorded, phase, newest, played>>

\* hydrate_card_to_broker: the card's latest version, or a blank.
Hydrate(k) ==
  LET c == req[k].at  m == mounted[k] IN
  /\ Hydrated(k)
  /\ \/ slot' = [slot EXCEPT ![c] = Latest(m)]
     \/ "missing" \in Faults /\ slot' = [slot EXCEPT ![c] = None]
  /\ UNCHANGED <<running, decided, order, versions, mounted, recorded, phase, newest, played>>

\* discard_blank_card: the card this claim created goes with its snapshots.
Abort(k) ==
  /\ AbortClaim(k)
  /\ \/ req[k].pc = "probe" /\ decided[req[k].at] = "no"
     \/ req[k].pc = "hydrate" /\ "push" \in Faults
     \/ req[k].pc = "activate" /\ "launch" \in Faults
  /\ order' = RemoveFirst(order, k)
  /\ versions' = [versions EXCEPT ![k] = <<>>]
  /\ newest' = [newest EXCEPT ![k] = None]
  /\ UNCHANGED <<slot, running, decided, mounted, recorded, phase, played>>

\* An adoption refused because an older version matched has touched the card.
RefuseAdoption(k) ==
  LET m == mounted[k]  x == slot[req[k].at] IN
  /\ AbortClaim(k)
  /\ req[k].pc = "probe" /\ decided[req[k].at] = "no" /\ m \in ToSet(order)
  /\ Contains(versions[m], x) /\ Latest(m) # x
  /\ order' = Touched(m)
  /\ UNCHANGED <<slot, running, decided, versions, mounted, recorded, phase, newest, played>>

\* The game boots from the card in the slot.
Boot(k) ==
  /\ Activate(k)
  /\ running' = [running EXCEPT ![req[k].at] = k]
  /\ UNCHANGED <<slot, decided, order, versions, mounted, recorded, phase, newest, played>>

\* The running game saves to the card.
Play(c) ==
  LET k == running[c]  n == IF slot[c] \in Written /\ slot[c][1] = k THEN slot[c][2] ELSE 0
  IN
  /\ k # None
  /\ \/ n < MaxWrites /\ slot' = [slot EXCEPT ![c] = <<k, n + 1>>]
     \/ /\ Reverts
        /\ \E x \in ToSet(versions[mounted[k]]) : slot' = [slot EXCEPT ![c] = x]
  /\ played' = played \cup {k}
  /\ UNCHANGED <<vars, running, decided, order, versions, mounted, recorded, phase, newest>>

-----------------------------------------------------------------------------
(* The end: quiesce_container, or save_and_exit_session's own sequence. *)

\* The card the session the teardown read names, if that card still exists.
CardOf(t) ==
  LET k == task[t].of IN
  IF k \in recorded /\ mounted[k] \in ToSet(order) THEN mounted[k] ELSE None

Stopping(t) == task[t].pc \in {"quiesce", "kill"}

\* Mutant: the card is captured while the game still runs.
CaptureRunning(t) ==
  /\ Stopping(t) /\ phase[t] = "stop"
  /\ phase' = [phase EXCEPT ![t] = "capture"]
  /\ UNCHANGED <<vars, slot, running, decided, order, versions, mounted, recorded, newest, played>>

StopEmulator(t) ==
  /\ Stopping(t) /\ phase[t] = "stop"
  /\ \/ running' = [running EXCEPT ![task[t].at] = None]
     \/ "stop" \in Faults /\ UNCHANGED running
  /\ phase' = [phase EXCEPT ![t] = "capture"]
  /\ UNCHANGED <<vars, slot, decided, order, versions, mounted, recorded, newest, played>>

\* evacuate_card: nothing captured, nothing to wipe.
CannotCapture(t) ==
  /\ Stopping(t) /\ phase[t] = "capture"
  /\ CardOf(t) = None \/ Faults \cap {"fetch", "store"} # {}
  /\ phase' = [phase EXCEPT ![t] = "keep"]
  /\ UNCHANGED <<vars, slot, running, decided, order, versions, mounted, recorded, newest, played>>

\* evacuate_card: the slot is blank.
NothingToCapture(t) ==
  /\ Stopping(t) /\ phase[t] = "capture"
  /\ CardOf(t) # None /\ slot[task[t].at] = None
  /\ phase' = [phase EXCEPT ![t] = "wipe"]
  /\ UNCHANGED <<vars, slot, running, decided, order, versions, mounted, recorded, newest, played>>

\* Mutant: an empty slot is filed like a card.
CaptureEmpty(t) ==
  LET m == CardOf(t)  x == slot[task[t].at] IN
  /\ Stopping(t) /\ phase[t] = "capture"
  /\ m # None
  /\ versions' = Stored(m, x)
  /\ order' = Touched(m)
  /\ newest' = IF task[t].of \in played THEN [newest EXCEPT ![m] = x] ELSE newest
  /\ phase' = [phase EXCEPT ![t] = "wipe"]
  /\ UNCHANGED <<vars, slot, running, decided, mounted, recorded, played>>

\* evacuate_card: what is in the slot becomes a snapshot of the card.
Capture(t) ==
  LET m == CardOf(t)  x == slot[task[t].at] IN
  /\ Stopping(t) /\ phase[t] = "capture"
  /\ m # None /\ x # None
  /\ versions' = Stored(m, x)
  /\ order' = Touched(m)
  /\ newest' = IF task[t].of \in played THEN [newest EXCEPT ![m] = x] ELSE newest
  /\ phase' = [phase EXCEPT ![t] = "wipe"]
  /\ UNCHANGED <<vars, slot, running, decided, mounted, recorded, played>>

\* wipe_session_card, where the card was captured; the teardown goes on.
Wipe(t) ==
  LET c == task[t].at IN
  /\ Quiesce(t) \/ \E saved, wait \in BOOLEAN : Kill(t, saved, wait)
  /\ phase[t] \in {"wipe", "keep"}
  /\ \/ phase[t] = "wipe" /\ slot' = [slot EXCEPT ![c] = None]
     \/ (phase[t] = "keep" \/ "push" \in Faults) /\ UNCHANGED slot
  /\ phase' = [phase EXCEPT ![t] = "stop"]
  /\ UNCHANGED <<running, decided, order, versions, mounted, recorded, newest, played>>

-----------------------------------------------------------------------------
CardStep ==
  \/ \E k \in Claims : Arrive(k) \/ Settle(k) \/ Hydrate(k) \/ Abort(k)
                       \/ RefuseAdoption(k) \/ Boot(k)
  \/ \E c \in Containers : Play(c)
  \/ \E t \in Tasks : \/ StopEmulator(t) \/ CannotCapture(t) \/ NothingToCapture(t)
                      \/ Capture(t) \/ Wipe(t)

\* The steps that leave cards alone; a restart forgets how far a wipe was.
OtherStep ==
  /\ SessionStep \/ \E t \in Tasks : Collect(t)
  /\ phase' = [t \in Tasks |-> IF Stopping(t)' THEN phase[t] ELSE "stop"]
  /\ UNCHANGED <<slot, running, decided, order, versions, mounted, recorded, newest, played>>

CardSpec == CardInit /\ [][CardStep \/ OtherStep]_<<vars, cardVars>>

-----------------------------------------------------------------------------
\* x is a snapshot of some card.
InLibrary(x) == \E m \in ToSet(order) : Contains(versions[m], x)

\* The slot is written from outside the emulator.
Pushed(c) == slot'[c] # slot[c] /\ ~Play(c)

\* Nobody's card holds what somebody else's game wrote: an evacuation reads the
\* slot of the session whose card it files.  (evacuate_session_card)
CardStaysPrivate ==
  \A m \in Claims : \A x \in ToSet(versions[m]) :
    x \in Written => Player[x[1]] = Player[m]

\* A game boots on its own player's card, never on what the previous player
\* left in the slot.  (EMPTY_CARD, hydrate_card_to_broker)
BootsOwnCard ==
  [][\A k \in Claims : Boot(k) =>
       LET x == slot[req[k].at] IN
       x \in Written => Player[x[1]] = Player[k]]_<<vars, cardVars>>

\* What a game wrote is never overwritten in the slot unless a snapshot has it.
\* (evacuate_card's safe_to_wipe)
ProgressKept ==
  [][\A c \in Containers :
       Pushed(c) /\ slot[c] \in Written => InLibrary(slot[c])]_<<vars, cardVars>>

\* A card found in a slot is overwritten only if it was adopted into a card
\* that still exists, or somebody chose to discard it.  (_probe_container_card)
PreexistingKept ==
  [][\A c \in Containers :
       Pushed(c) /\ slot[c] = Foreign =>
         InLibrary(Foreign) \/ decided[c] = "discard"]_<<vars, cardVars>>

\* A claim puts back what was last played on its card and taken off a container,
\* whichever of its player's sessions that was.
\* (hydrate_card_to_broker, store_memory_card_version)
ResumesLastPlayed ==
  [][\A k \in Claims : Hydrate(k) =>
       slot'[req[k].at] = newest[mounted[k]]]_<<vars, cardVars>>
=============================================================================
