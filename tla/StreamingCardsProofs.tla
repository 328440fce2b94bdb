------------------------ MODULE StreamingCardsProofs ------------------------
(***************************************************************************)
(* Proofs about StreamingCards, for every pool and every number of claims, *)
(* teardowns and snapshots.  What is proved of the sessions carries over;  *)
(* the slot and the game are then tied to the key of their container.  In  *)
(* this order, under more and more assumptions: the types; a card found in *)
(* a slot is kept; no player gets to see or to keep another's card; no     *)
(* progress is overwritten; a claim puts back what was played last.        *)
(***************************************************************************)
EXTENDS StreamingCards, StreamingSessionProofs, WellFoundedInduction, SequenceTheorems

allVars == <<vars, cardVars>>

-----------------------------------------------------------------------------
(* The card rows and the snapshots. *)

\* A set of numbers that is not empty has a least one.
LEMMA Minimum ==
  ASSUME NEW S \in SUBSET Nat, S # {}
  PROVE  Min(S) \in S
<1>1. PICK x \in S : \A y \in S : ~(<<y, x>> \in OpToRel(<, Nat))
  BY NatLessThanWellFounded, WFMin
<1>2. \A y \in S : ~(y < x)
  BY <1>1 DEF OpToRel
<1>3. \A y \in S : x =< y
  BY <1>2
<1> QED BY <1>3 DEF Min

\* And if it is bounded it has a greatest one.
LEMMA Maximum ==
  ASSUME NEW n \in Nat, NEW S \in SUBSET (1..n), S # {}
  PROVE  Max(S) \in S
<1> DEFINE T == {n - x : x \in S}
<1>1. T \in SUBSET Nat /\ T # {}
  <2>1. \A x \in S : x \in 1..n /\ n - x \in Nat
    OBVIOUS
  <2> QED BY <2>1
<1>2. PICK y \in T : \A z \in T : ~(<<z, y>> \in OpToRel(<, Nat))
  BY <1>1, NatLessThanWellFounded, WFMin
<1>3. \A z \in T : ~(z < y)
  BY <1>1, <1>2 DEF OpToRel
<1>4. PICK x \in S : y = n - x
  OBVIOUS
<1>5. \A z \in S : x >= z
  <2> SUFFICES ASSUME NEW z \in S
               PROVE  x >= z
    OBVIOUS
  <2>1. x \in 1..n /\ z \in 1..n
    OBVIOUS
  <2>2. ~(n - z < n - x)
    BY <1>3, <1>4
  <2> QED BY <2>1, <2>2
<1> QED BY <1>5 DEF Max

\* Taking a row out leaves the other rows.
LEMMA RowsRemoved ==
  ASSUME NEW s \in Seq(Claims), NEW m
  PROVE  /\ RemoveFirst(s, m) \in Seq(Claims)
         /\ ToSet(RemoveFirst(s, m)) \subseteq ToSet(s)
         /\ ToSet(s) \subseteq ToSet(RemoveFirst(s, m)) \cup {m}
<1> DEFINE I == {i \in 1..Len(s) : s[i] = m}
<1>1. CASE I = {}
  BY <1>1 DEF RemoveFirst
<1>2. CASE I # {}
  <2>1. Min(I) \in 1..Len(s) /\ s[Min(I)] = m
    <3>1. I \in SUBSET Nat
      OBVIOUS
    <3>2. Min(I) \in I
      BY <1>2, <3>1, Minimum
    <3> QED BY <3>2
  <2> DEFINE j == Min(I)
             a == SubSeq(s, 1, j - 1)
             b == SubSeq(s, j + 1, Len(s))
  <2> HIDE DEF j
  <2>2. j \in Nat /\ j >= 1 /\ j =< Len(s) /\ Len(s) \in Nat /\ s[j] = m
    BY <2>1 DEF j
  <2>3. /\ a \in Seq(Claims) /\ Len(a) = j - 1
        /\ \A i \in 1..(j - 1) : a[i] = s[i]
    BY <2>2, SubSeqProperties
  <2>4. /\ b \in Seq(Claims) /\ Len(b) = Len(s) - j
        /\ \A i \in 1..(Len(s) - j) : b[i] = s[j + i]
    BY <2>2, SubSeqProperties
  <2> DEFINE r == a \o b
  <2> HIDE DEF a, b
  <2>5. /\ r \in Seq(Claims) /\ Len(r) = Len(s) - 1
        /\ \A i \in 1..(j - 1) : r[i] = s[i]
        /\ \A i \in j..(Len(s) - 1) : r[i] = s[i + 1]
    <3>1. /\ r \in Seq(Claims) /\ Len(r) = Len(a) + Len(b)
          /\ \A i \in 1..(Len(a) + Len(b)) : r[i] = IF i <= Len(a) THEN a[i] ELSE b[i - Len(a)]
      BY <2>3, <2>4, ConcatProperties
    <3> HIDE DEF r
    <3>2. Len(r) = Len(s) - 1
      BY <2>2, <2>3, <2>4, <3>1
    <3> DEFINE n == Len(s)
    <3>0. n \in Nat /\ j \in 1..n /\ Len(a) = j - 1 /\ Len(a) + Len(b) = n - 1
      BY <2>2, <2>3, <2>4
    <3> HIDE DEF n
    <3>3. ASSUME NEW i \in 1..(j - 1)
          PROVE  r[i] = s[i]
      <4>1. i \in 1..(n - 1) /\ i <= j - 1
        BY <3>0
      <4>2. r[i] = a[i]
        BY <3>0, <3>1, <4>1
      <4> QED BY <2>3, <4>2
    <3>4. ASSUME NEW i \in j..(n - 1)
          PROVE  r[i] = s[i + 1]
      <4>1. i \in 1..(n - 1) /\ ~(i <= j - 1) /\ i - (j - 1) \in 1..(n - j) /\ j + (i - (j - 1)) = i + 1
        BY <3>0
      <4>2. r[i] = b[i - (j - 1)]
        BY <3>0, <3>1, <4>1
      <4> QED BY <2>4, <4>1, <4>2 DEF n
    <3> QED BY <3>1, <3>2, <3>3, <3>4 DEF n
  <2>6. r = RemoveFirst(s, m)
    BY <1>2 DEF RemoveFirst, SelectInSeq, RemoveAt, j, a, b
  <2> HIDE DEF r
  <2>7. ToSet(r) \subseteq ToSet(s)
    BY <2>2, <2>5 DEF ToSet
  <2>8. ASSUME NEW i \in 1..Len(s)
        PROVE  s[i] \in ToSet(r) \cup {m}
    <3>1. CASE i < j
      BY <2>2, <2>5, <3>1 DEF ToSet
    <3>2. CASE i = j
      BY <2>2, <3>2
    <3>3. CASE i > j
      <4>1. r[i - 1] = s[i] /\ i - 1 \in 1..Len(r)
        BY <2>2, <2>5, <3>3
      <4> QED BY <2>5, <4>1 DEF ToSet
    <3> QED BY <2>2, <3>1, <3>2, <3>3
  <2>9. ToSet(s) \subseteq ToSet(r) \cup {m}
    BY <2>8 DEF ToSet
  <2> QED BY <2>5, <2>6, <2>7, <2>9
<1> QED BY <1>1, <1>2

\* The most recent card of a player, if there is one, is that player's.
LEMMA MostRecentFacts ==
  ASSUME order \in Seq(Claims), NEW p
  PROVE  MostRecent(p) # None => /\ MostRecent(p) \in Claims /\ Player[MostRecent(p)] = p
                                 /\ MostRecent(p) \in ToSet(order)
<1> DEFINE I == {i \in 1..Len(order) : Player[order[i]] = p}
           i == SelectLastInSeq(order, LAMBDA m : Player[m] = p)
<1>1. i = IF I # {} THEN Max(I) ELSE 0
  BY DEF SelectLastInSeq
<1>2. CASE I = {}
  BY <1>1, <1>2 DEF MostRecent
<1>3. CASE I # {}
  <2>1. Max(I) \in I
    <3>1. Len(order) \in Nat /\ I \in SUBSET (1..Len(order))
      OBVIOUS
    <3> QED BY <1>3, <3>1, Maximum
  <2>2. i \in 1..Len(order) /\ Player[order[i]] = p
    BY <1>1, <1>3, <2>1
  <2>3. MostRecent(p) = order[i]
    BY <2>2 DEF MostRecent
  <2>4. order[i] \in Claims /\ order[i] \in ToSet(order)
    <3> HIDE DEF i
    <3> QED BY <2>2 DEF ToSet
  <2> QED BY <2>2, <2>3, <2>4
<1> QED BY <1>2, <1>3

\* A row at the end is one more row.
LEMMA RowsAppended ==
  ASSUME NEW s \in Seq(Claims), NEW m \in Claims
  PROVE  Append(s, m) \in Seq(Claims) /\ ToSet(Append(s, m)) = ToSet(s) \cup {m}
<1> DEFINE r == Append(s, m)
<1>1. /\ r \in Seq(Claims) /\ Len(r) = Len(s) + 1
      /\ \A i \in 1..Len(s) : r[i] = s[i]
      /\ r[Len(s) + 1] = m
  BY AppendProperties
<1> HIDE DEF r
<1>2. ToSet(r) \subseteq ToSet(s) \cup {m}
  BY <1>1 DEF ToSet
<1>3. m \in ToSet(r)
  BY <1>1 DEF ToSet
<1>4. ToSet(s) \subseteq ToSet(r)
  BY <1>1 DEF ToSet
<1>5. r \in Seq(Claims) /\ ToSet(r) = ToSet(s) \cup {m}
  BY <1>1, <1>2, <1>3, <1>4
<1> QED BY <1>5 DEF r

\* Moving a card to the end leaves the rows, and puts the card among them.
LEMMA RowsTouched ==
  ASSUME order \in Seq(Claims), NEW m \in Claims
  PROVE  Touched(m) \in Seq(Claims) /\ ToSet(Touched(m)) = ToSet(order) \cup {m}
<1>1. RemoveFirst(order, m) \in Seq(Claims)
  BY RowsRemoved
<1>2. ToSet(RemoveFirst(order, m)) \cup {m} = ToSet(order) \cup {m}
  BY RowsRemoved
<1> QED BY <1>1, <1>2, RowsAppended DEF Touched

\* A card's last snapshot is one of its snapshots.
LEMMA LatestFacts ==
  ASSUME CardTypeOK, NEW m \in Claims
  PROVE  Latest(m) # None => Latest(m) \in ToSet(versions[m]) /\ Latest(m) \in Contents
<1>1. versions[m] \in Seq(Contents \ {None})
  BY DEF CardTypeOK
<1>2. CASE versions[m] = <<>>
  BY <1>2 DEF Latest
<1>3. CASE versions[m] # <<>>
  <2>1. Len(versions[m]) \in DOMAIN versions[m]
    BY <1>1, <1>3
  <2>2. Latest(m) = versions[m][Len(versions[m])]
    BY <1>3 DEF Latest, Last
  <2> QED BY <1>1, <2>1, <2>2 DEF ToSet
<1> QED BY <1>2, <1>3

\* A snapshot is a content.
LEMMA SnapshotFacts ==
  ASSUME CardTypeOK, NEW m \in Claims, NEW x \in ToSet(versions[m])
  PROVE  x \in Contents
<1>1. versions[m] \in Seq(Contents \ {None})
  BY DEF CardTypeOK
<1> QED BY <1>1 DEF ToSet

\* Storing a content adds it to its card and leaves the other cards alone.
LEMMA StoredFacts ==
  ASSUME CardTypeOK, NEW m \in Claims, NEW x \in Contents \ {None}
  PROVE  /\ Stored(m, x) \in [Claims -> Seq(Contents \ {None})]
         /\ ToSet(Stored(m, x)[m]) = ToSet(versions[m]) \cup {x}
         /\ \A n \in Claims : n # m => Stored(m, x)[n] = versions[n]
<1>1. versions \in [Claims -> Seq(Contents \ {None})]
  BY DEF CardTypeOK
<1>2. CASE Contains(versions[m], x)
  <2>1. Stored(m, x) = versions
    BY <1>2 DEF Stored
  <2>2. x \in ToSet(versions[m])
    BY <1>1, <1>2 DEF Contains, ToSet
  <2> QED BY <1>1, <2>1, <2>2
<1>3. CASE ~Contains(versions[m], x)
  <2> DEFINE s == Append(versions[m], x)
  <2>1. /\ s \in Seq(Contents \ {None}) /\ Len(s) = Len(versions[m]) + 1
        /\ \A i \in 1..Len(s) : s[i] = IF i =< Len(versions[m]) THEN versions[m][i] ELSE x
    BY <1>1
  <2> HIDE DEF s
  <2>2. ToSet(s) \subseteq ToSet(versions[m]) \cup {x}
    BY <1>1, <2>1 DEF ToSet
  <2>3. ToSet(versions[m]) \subseteq ToSet(s)
    <3>1. \A i \in 1..Len(versions[m]) : i \in 1..Len(s) /\ s[i] = versions[m][i]
      BY <1>1, <2>1
    <3> QED BY <1>1, <2>1, <3>1 DEF ToSet
  <2>4. x \in ToSet(s)
    <3>1. Len(s) \in 1..Len(s) /\ s[Len(s)] = x
      BY <1>1, <2>1
    <3> QED BY <2>1, <3>1 DEF ToSet
  <2>5. Stored(m, x) = [versions EXCEPT ![m] = s]
    BY <1>3 DEF Stored, s
  <2> QED BY <1>1, <2>1, <2>2, <2>3, <2>4, <2>5
<1> QED BY <1>2, <1>3

\* To be contained in a sequence is to be among its elements.
LEMMA ContainsFacts ==
  ASSUME NEW S, NEW s \in Seq(S), NEW x
  PROVE  Contains(s, x) <=> x \in ToSet(s)
  BY DEF Contains, ToSet
-----------------------------------------------------------------------------
(* The sessions under the cards. *)

CardNext == CardStep \/ OtherStep

\* Every step is a step of the sessions.
LEMMA CardSteps == [CardNext]_allVars => [Next]_vars
<1>1. CardStep => [Next]_vars
  BY DEF CardStep, Next, StoreStep, PrepareStep, BrokerStep, Arrive, Settle, SettleDecided,
         SettleDiscard, SettleAdopt, Hydrate, Abort, RefuseAdoption, Boot, Play, StopEmulator,
         CannotCapture, NothingToCapture, Capture, Wipe
<1>2. OtherStep => Next
  BY DEF OtherStep, Next, StoreStep, BrokerStep
<1> QED BY <1>1, <1>2 DEF CardNext, allVars

\* The sessions behind the cards are those of StreamingSession.
THEOREM CardsKeepSessions == CardSpec => Spec
<1>1. CardInit => Init
  BY DEF CardInit
<1> QED BY <1>1, CardSteps, PTL DEF CardSpec, Spec, allVars, CardNext

-----------------------------------------------------------------------------
(* What becomes of requests and cards, whatever fails and whenever the backend *)
(* restarts.                                                                   *)

\* Where a request gets.
ReqGoes(k) ==
  \/ Goes(req[k].pc, req'[k].pc)
  \/ Arrive(k) /\ req[k].pc = "idle" /\ req'[k].pc = "try"
  \/ Settle(k) /\ req[k].pc = "probe" /\ req'[k].pc = "hydrate"
  \/ Hydrate(k) /\ req[k].pc = "hydrate" /\ req'[k].pc = "activate"
  \/ Boot(k) /\ req[k].pc = "activate" /\ req'[k].pc = "stamp"
  \/ AbortClaim(k) /\ Preparing(k) /\ req'[k].pc = "over"

\* What becomes of a request in a step that is not a restart.
LEMMA RequestsGoOn ==
  ASSUME IInv, Desktops = {}, CardNext, ~Crash, NEW k \in Claims
  PROVE  ReqGoes(k)
<1>1. req \in [Claims -> ReqState]
  BY ReqFacts
<1>2. CASE SessionStep
  BY <1>2, ReqMoves DEF ReqGoes
<1>3. CASE UNCHANGED req
  BY <1>3 DEF ReqGoes, Goes
<1>4. ASSUME NEW j \in Claims, NEW p, NEW a, NEW i, NEW h, Moved(j, p, a, i, h), j # k
      PROVE  ReqGoes(k)
  BY <1>4 DEF Moved, ReqGoes, Goes
<1>5. ASSUME NEW j \in Claims, Arrive(j)
      PROVE  ReqGoes(k)
  <2>1. Moved(j, "try", req[j].at, req[j].idx, req[j].hold)
    BY <1>5, ReqFacts, MovePc DEF Arrive, ArriveClaim, ReqGoto, ReqPcs
  <2>2. CASE j = k
    BY <1>5, <2>1, <2>2 DEF Moved, ReqGoes, Arrive, ArriveClaim
  <2> QED BY <1>4, <2>1, <2>2
<1>6. ASSUME NEW j \in Claims, Settle(j)
      PROVE  ReqGoes(k)
  <2>1. SettleCard(j)
    BY <1>6 DEF Settle, SettleDecided, SettleDiscard, SettleAdopt
  <2>2. Moved(j, "hydrate", req[j].at, req[j].idx, req[j].hold)
    BY <2>1, ReqFacts, MovePc DEF SettleCard, ReqGoto, ReqPcs
  <2>3. CASE j = k
    BY <1>6, <2>1, <2>2, <2>3 DEF Moved, ReqGoes, SettleCard
  <2> QED BY <1>4, <2>2, <2>3
<1>7. ASSUME NEW j \in Claims, Hydrate(j)
      PROVE  ReqGoes(k)
  <2>1. Moved(j, "activate", req[j].at, req[j].idx, "armed")
    BY <1>7, ReqFacts, MovePcHold DEF Hydrate, Hydrated, ReqPcs, Holds
  <2>2. CASE j = k
    BY <1>7, <2>1, <2>2 DEF Moved, ReqGoes, Hydrate, Hydrated
  <2> QED BY <1>4, <2>1, <2>2
<1>8. ASSUME NEW j \in Claims, Boot(j)
      PROVE  ReqGoes(k)
  <2>1. Moved(j, "stamp", req[j].at, req[j].idx, "off")
    BY <1>8, ReqFacts, MovePcHold DEF Boot, Activate, ReqPcs, Holds
  <2>2. CASE j = k
    BY <1>8, <2>1, <2>2 DEF Moved, ReqGoes, Boot, Activate
  <2> QED BY <1>4, <2>1, <2>2
<1>9. ASSUME NEW j \in Claims, AbortClaim(j)
      PROVE  ReqGoes(k)
  <2>1. Moved(j, "over", req[j].at, req[j].idx, "off")
    BY <1>9, ReqFacts, MovePcHold DEF AbortClaim, ReqPcs, Holds
  <2>2. CASE j = k
    BY <1>9, <2>1, <2>2 DEF Moved, ReqGoes, AbortClaim, Preparing
  <2> QED BY <1>4, <2>1, <2>2
<1>10. ASSUME NEW j \in Claims, Abort(j) \/ RefuseAdoption(j)
       PROVE  AbortClaim(j)
  BY <1>10 DEF Abort, RefuseAdoption
<1>11. ASSUME NEW t \in Tasks, StopEmulator(t) \/ CannotCapture(t) \/ NothingToCapture(t)
                               \/ Capture(t) \/ Wipe(t) \/ Collect(t)
       PROVE  UNCHANGED req
  BY <1>11 DEF StopEmulator, CannotCapture, NothingToCapture, Capture, Wipe, Quiesce, Kill, Collect,
     vars
<1>12. ASSUME NEW c \in Containers, Play(c)
       PROVE  UNCHANGED req
  BY <1>12 DEF Play, vars
<1> QED BY <1>2, <1>3, <1>5, <1>6, <1>7, <1>8, <1>9, <1>10, <1>11, <1>12
        DEF CardNext, CardStep, OtherStep

\* A restart puts an end to a request, or leaves it.
LEMMA RequestsMove ==
  ASSUME IInv, Desktops = {}, CardNext, NEW k \in Claims
  PROVE  ReqGoes(k) \/ req'[k].pc = "over"
<1>1. CASE Crash
  <2>1. req'[k] = req[k] \/ req'[k] = [req[k] EXCEPT !.pc = "over", !.hold = "off"]
    BY <1>1 DEF Crash
  <2>2. req[k] \in ReqState
    BY ReqFacts
  <2>3. [req[k] EXCEPT !.pc = "over", !.hold = "off"].pc = "over"
    BY <2>2 DEF ReqState
  <2> QED BY <2>1, <2>3 DEF ReqGoes, Goes
<1> QED BY <1>1, RequestsGoOn

\* A claim mounts a card from its settling on at the latest, and none before it
\* arrives; the game that runs is of a claim that mounts one.
HasCardInv ==
  /\ \A k \in Claims :
       /\ req[k].pc = "idle" => mounted[k] = None
       /\ req[k].pc \in {"hydrate", "activate", "stamp", "up"} => mounted[k] \in Claims
  /\ \A c \in Containers : running[c] # None => mounted[running[c]] \in Claims

TypeInv == CardTypeOK /\ HasCardInv

\* A step puts a card on a claim only when it arrives or settles, and leaves an answer
\* at the container where it settles.
LEMMA MountsGo ==
  ASSUME IInv, TypeInv, CardNext
  PROVE  /\ mounted' \in [Claims -> Claims \cup {None}]
         /\ decided' \in [Containers -> {"no", "adopt", "discard"}]
         /\ \A c \in Containers : decided'[c] = "no" => decided[c] = "no"
         /\ \A k \in Claims :
              \/ mounted'[k] = mounted[k] /\ ~Arrive(k) /\ ~Settle(k)
              \/ /\ Arrive(k) /\ req'[k].pc = "try" /\ req[k].pc = "idle"
                 /\ mounted' = [mounted EXCEPT ![k] = MostRecent(Player[k])]
              \/ /\ Settle(k) /\ req[k].pc = "probe" /\ req'[k].pc = "hydrate" /\ Mount(k) \in Claims
                 /\ mounted' = [mounted EXCEPT ![k] = Mount(k)]
                 /\ decided'[req[k].at] # "no"
<1>1. /\ mounted \in [Claims -> Claims \cup {None}] /\ order \in Seq(Claims)
      /\ decided \in [Containers -> {"no", "adopt", "discard"}]
  BY DEF TypeInv, CardTypeOK
<1>2. \A k \in Claims : Mount(k) \in Claims
  BY <1>1 DEF Mount
<1>3. ASSUME NEW j \in Claims, Arrive(j)
      PROVE  /\ mounted' = [mounted EXCEPT ![j] = MostRecent(Player[j])]
             /\ MostRecent(Player[j]) \in Claims \cup {None}
             /\ UNCHANGED decided /\ req'[j].pc = "try" /\ req[j].pc = "idle"
             /\ \A k \in Claims : k # j => req'[k] = req[k]
  <2>1. Moved(j, "try", req[j].at, req[j].idx, req[j].hold)
    BY <1>3, ReqFacts, MovePc DEF Arrive, ArriveClaim, ReqGoto, ReqPcs
  <2> QED BY <1>1, <1>3, <2>1, MostRecentFacts DEF Moved, Arrive, ArriveClaim
<1>4. ASSUME NEW j \in Claims, Settle(j)
      PROVE  /\ mounted' = [mounted EXCEPT ![j] = Mount(j)]
             /\ decided' \in [Containers -> {"no", "adopt", "discard"}]
             /\ \A c \in Containers : decided'[c] = "no" => decided[c] = "no"
             /\ decided'[req[j].at] # "no" /\ req'[j].pc = "hydrate" /\ req[j].pc = "probe"
             /\ \A k \in Claims : k # j => req'[k] = req[k]
  <2>1. SettleCard(j) /\ mounted' = [mounted EXCEPT ![j] = Mount(j)]
    BY <1>4 DEF Settle, SettleDecided, SettleDiscard, SettleAdopt
  <2>2. Moved(j, "hydrate", req[j].at, req[j].idx, req[j].hold)
    BY <2>1, ReqFacts, MovePc DEF SettleCard, ReqGoto, ReqPcs
  <2>3. req[j].at \in Containers /\ req[j].pc = "probe"
    BY <2>1, ReqFacts DEF SettleCard, ReqOK
  <2>4. \/ decided[req[j].at] # "no" /\ UNCHANGED decided
        \/ \E a \in {"adopt", "discard"} : decided' = [decided EXCEPT ![req[j].at] = a]
    BY <1>4 DEF Settle, SettleDecided, SettleDiscard, SettleAdopt
  <2> QED BY <1>1, <2>1, <2>2, <2>3, <2>4 DEF Moved
<1>5. CASE \E j \in Claims : Arrive(j)
  <2>1. PICK j \in Claims : Arrive(j)
    BY <1>5
  <2>2. \A k \in Claims : k # j => ~Arrive(k) /\ ~Settle(k)
    <3> SUFFICES ASSUME NEW k \in Claims, k # j, Arrive(k) \/ Settle(k)
                 PROVE  FALSE
      OBVIOUS
    <3>1. req'[k] = req[k]
      BY <1>3, <2>1
    <3> QED BY <1>3, <1>4, <3>1
  <2> QED BY <1>1, <1>3, <2>1, <2>2
<1>6. CASE \E j \in Claims : Settle(j)
  <2>1. PICK j \in Claims : Settle(j)
    BY <1>6
  <2>2. \A k \in Claims : k # j => ~Arrive(k) /\ ~Settle(k)
    <3> SUFFICES ASSUME NEW k \in Claims, k # j, Arrive(k) \/ Settle(k)
                 PROVE  FALSE
      OBVIOUS
    <3>1. req'[k] = req[k]
      BY <1>4, <2>1
    <3> QED BY <1>3, <1>4, <3>1
  <2> QED BY <1>1, <1>2, <1>4, <2>1, <2>2
<1>7. CASE ~(\E j \in Claims : Arrive(j) \/ Settle(j))
  <2>1. UNCHANGED <<mounted, decided>>
    BY <1>7 DEF CardNext, OtherStep, CardStep, Hydrate, Abort, RefuseAdoption, Boot, Play,
       StopEmulator, CannotCapture, NothingToCapture, Capture, Wipe
  <2> QED BY <1>1, <1>7, <2>1
<1> QED BY <1>5, <1>6, <1>7

\* A claim that settles has probed the slot, and goes on to its push.
LEMMA SettleGoes ==
  ASSUME IInv, TypeInv, CardNext, NEW k \in Claims, Settle(k)
  PROVE  /\ req[k].pc = "probe" /\ req'[k].pc = "hydrate" /\ Mount(k) \in Claims
         /\ mounted' = [mounted EXCEPT ![k] = Mount(k)]
         /\ decided'[req[k].at] # "no"
<1>1. req[k].pc = "probe"
  BY DEF Settle, SettleDecided, SettleDiscard, SettleAdopt, SettleCard
<1> QED BY <1>1, MountsGo

\* The row that adopts a card found in a slot, and what it adopts.
LEMMA AdoptTyped ==
  ASSUME IInv, TypeInv, NEW k \in Claims, SettleAdopt(k)
  PROVE  Mount(k) \in Claims /\ slot[req[k].at] \in Contents \ {None}
<1>1. req[k].at \in Containers
  BY ReqFacts DEF SettleAdopt, SettleCard, ReqOK
<1> QED BY <1>1 DEF SettleAdopt, TypeInv, CardTypeOK, Mount

\* The row that a teardown's capture is filed under, and what it captures.
LEMMA CaptureTyped ==
  ASSUME IInv, TypeInv, NEW t \in Tasks, Capture(t)
  PROVE  /\ CardOf(t) \in Claims /\ slot[task[t].at] \in Contents \ {None}
         /\ task[t].of \in Claims /\ CardOf(t) = mounted[task[t].of]
         /\ task[t].at \in Containers
<1>1. task[t].at \in Containers
  BY TaskFacts DEF TaskOK, Capture, Stopping
<1>2. CardOf(t) # None /\ recorded \subseteq Claims /\ mounted \in [Claims -> Claims \cup {None}]
  BY DEF Capture, TypeInv, CardTypeOK
<1> QED BY <1>1, <1>2 DEF Capture, CardOf, TypeInv, CardTypeOK

\* Every step leaves the other slots alone.  A push puts the latest snapshot there, or
\* nothing; a game what it writes, or an earlier snapshot; a wipe nothing.
LEMMA SlotMoves ==
  ASSUME IInv, TypeInv, CardNext, NEW c \in Containers
  PROVE  /\ slot' \in [Containers -> Contents]
         /\ \/ slot'[c] \in {slot[c], None}
            \/ \E k \in Claims : /\ Hydrate(k) /\ req[k].at = c /\ mounted[k] \in Claims
                                 /\ slot'[c] = Latest(mounted[k])
            \/ /\ Play(c) /\ running[c] \in Claims /\ mounted[running[c]] \in Claims
               /\ \/ slot'[c] \in {running[c]} \X (1..MaxWrites)
                  \/ Reverts /\ slot'[c] \in ToSet(versions[mounted[running[c]]])
<1>1. slot \in [Containers -> Contents] /\ None \in Contents
  BY DEF TypeInv, CardTypeOK, Contents
<1>2. ASSUME NEW k \in Claims, Hydrate(k)
      PROVE  /\ slot' \in [Containers -> Contents]
             /\ \/ slot'[c] \in {slot[c], None}
                \/ req[k].at = c /\ mounted[k] \in Claims /\ slot'[c] = Latest(mounted[k])
  <2>1. mounted[k] \in Claims
    BY <1>2 DEF Hydrate, Hydrated, TypeInv, HasCardInv
  <2>2. Latest(mounted[k]) \in Contents
    BY <1>1, <2>1, LatestFacts DEF TypeInv
  <2>3. \E x \in {Latest(mounted[k]), None} : slot' = [slot EXCEPT ![req[k].at] = x]
    BY <1>2 DEF Hydrate
  <2> QED BY <1>1, <2>1, <2>2, <2>3
<1>3. ASSUME NEW d \in Containers, Play(d)
      PROVE  /\ slot' \in [Containers -> Contents]
             /\ \/ slot'[c] = slot[c]
                \/ /\ d = c /\ running[c] \in Claims /\ mounted[running[c]] \in Claims
                   /\ \/ slot'[c] \in {running[c]} \X (1..MaxWrites)
                      \/ Reverts /\ slot'[c] \in ToSet(versions[mounted[running[c]]])
  <2> DEFINE k == running[d]
             n == IF slot[d] \in Written /\ slot[d][1] = k THEN slot[d][2] ELSE 0
  <2>1. k \in Claims /\ mounted[k] \in Claims
    BY <1>3 DEF Play, TypeInv, CardTypeOK, HasCardInv
  <2>2. n \in Nat
    BY DEF Written
  <2>3. CASE n < MaxWrites /\ slot' = [slot EXCEPT ![d] = <<k, n + 1>>]
    <3>1. n + 1 \in 1..MaxWrites
      BY <2>2, <2>3, CardAssumption
    <3>2. <<k, n + 1>> \in {k} \X (1..MaxWrites) /\ <<k, n + 1>> \in Contents
      BY <2>1, <3>1 DEF Contents, Written
    <3> HIDE DEF n
    <3> QED BY <1>1, <2>1, <2>3, <3>2
  <2>4. CASE Reverts /\ \E x \in ToSet(versions[mounted[k]]) : slot' = [slot EXCEPT ![d] = x]
    <3>1. PICK x \in ToSet(versions[mounted[k]]) : slot' = [slot EXCEPT ![d] = x]
      BY <2>4
    <3>2. x \in Contents
      BY <2>1, SnapshotFacts DEF TypeInv
    <3> QED BY <1>1, <2>1, <2>4, <3>1, <3>2
  <2> QED BY <1>3, <2>3, <2>4 DEF Play
<1>4. ASSUME NEW t \in Tasks, Wipe(t)
      PROVE  slot' \in [Containers -> Contents] /\ slot'[c] \in {slot[c], None}
  BY <1>1, <1>4 DEF Wipe
<1>5. CardStep => \/ UNCHANGED slot
                  \/ \E k \in Claims : Hydrate(k)
                  \/ \E d \in Containers : Play(d)
                  \/ \E t \in Tasks : Wipe(t)
  BY DEF CardStep, Arrive, Settle, SettleDecided, SettleDiscard, SettleAdopt, Abort,
         RefuseAdoption, Boot, StopEmulator, CannotCapture, NothingToCapture, Capture
<1> QED BY <1>1, <1>2, <1>3, <1>4, <1>5 DEF CardNext, OtherStep

\* What a step does to the snapshots: a card found is adopted, one taken off a container
\* is filed, or the snapshots of an aborted claim's new card go.
LEMMA VersionsGo ==
  ASSUME IInv, TypeInv, CardNext
  PROVE  \/ UNCHANGED versions
         \/ \E k \in Claims : /\ SettleAdopt(k)
                              /\ versions' = Stored(Mount(k), slot[req[k].at])
         \/ \E t \in Tasks : /\ Capture(t)
                             /\ versions' = Stored(CardOf(t), slot[task[t].at])
         \/ \E k \in Claims : Abort(k) /\ versions' = [versions EXCEPT ![k] = <<>>]
<1>1. \A k \in Claims : SettleAdopt(k) => versions' = Stored(Mount(k), slot[req[k].at])
  BY DEF SettleAdopt
<1>2. \A t \in Tasks : Capture(t) => versions' = Stored(CardOf(t), slot[task[t].at])
  BY DEF Capture
<1>3. \A k \in Claims : Abort(k) => versions' = [versions EXCEPT ![k] = <<>>]
  BY DEF Abort
<1>4. CardStep => \/ UNCHANGED versions
                  \/ \E k \in Claims : SettleAdopt(k) \/ Abort(k)
                  \/ \E t \in Tasks : Capture(t)
  BY DEF CardStep, Arrive, Settle, SettleDecided, SettleDiscard, Hydrate, RefuseAdoption,
         Boot, Play, StopEmulator, CannotCapture, NothingToCapture, Wipe
<1> QED BY <1>1, <1>2, <1>3, <1>4 DEF CardNext, OtherStep

\* Every step keeps the snapshots typed.
LEMMA VersionsTyped ==
  ASSUME IInv, TypeInv, CardNext
  PROVE  versions' \in [Claims -> Seq(Contents \ {None})]
<1>1. versions \in [Claims -> Seq(Contents \ {None})] /\ CardTypeOK
  BY DEF TypeInv, CardTypeOK
<1>2. \A m \in Claims : \A x \in Contents \ {None} :
        Stored(m, x) \in [Claims -> Seq(Contents \ {None})]
  BY <1>1, StoredFacts
<1>3. \A k \in Claims : SettleAdopt(k) =>
        Stored(Mount(k), slot[req[k].at]) \in [Claims -> Seq(Contents \ {None})]
  BY <1>2, AdoptTyped
<1>4. \A t \in Tasks : Capture(t) =>
        Stored(CardOf(t), slot[task[t].at]) \in [Claims -> Seq(Contents \ {None})]
  BY <1>2, CaptureTyped
<1>5. ASSUME NEW k \in Claims, versions' = [versions EXCEPT ![k] = <<>>]
      PROVE  versions' \in [Claims -> Seq(Contents \ {None})]
  BY <1>1, <1>5
<1> QED BY <1>1, <1>3, <1>4, <1>5, VersionsGo

\* A snapshot was one before, or is what is adopted or captured in the step.
LEMMA SnapshotsFrom ==
  ASSUME IInv, TypeInv, CardNext, NEW m \in Claims, NEW x \in ToSet(versions'[m])
  PROVE  \/ x \in ToSet(versions[m])
         \/ \E k \in Claims : SettleAdopt(k) /\ m = Mount(k) /\ x = slot[req[k].at]
         \/ \E t \in Tasks : Capture(t) /\ m = CardOf(t) /\ x = slot[task[t].at]
<1>1. versions \in [Claims -> Seq(Contents \ {None})] /\ CardTypeOK
  BY DEF TypeInv, CardTypeOK
<1>2. ASSUME NEW n \in Claims, NEW y \in Contents \ {None}, versions' = Stored(n, y)
      PROVE  x \in ToSet(versions[m]) \/ (m = n /\ x = y)
  <2> DEFINE v == Stored(n, y)
  <2>1. ToSet(v[n]) = ToSet(versions[n]) \cup {y} /\ \A i \in Claims : i # n => v[i] = versions[i]
    BY <1>1, StoredFacts
  <2>2. x \in ToSet(v[m])
    BY <1>2
  <2> HIDE DEF v
  <2> QED BY <2>1, <2>2
<1>3. ASSUME NEW k \in Claims, versions' = [versions EXCEPT ![k] = <<>>]
      PROVE  x \in ToSet(versions[m])
  <2>1. ToSet(<<>>) = {}
    BY DEF ToSet
  <2> QED BY <1>1, <1>3, <2>1
<1> QED BY <1>2, <1>3, VersionsGo, AdoptTyped, CaptureTyped

\* Every step keeps the rows of the cards and what was last taken for each.
LEMMA StepRows ==
  ASSUME IInv, TypeInv, CardNext
  PROVE  order' \in Seq(Claims) /\ newest' \in [Claims -> Contents]
<1>1. order \in Seq(Claims) /\ newest \in [Claims -> Contents] /\ None \in Contents
  BY DEF TypeInv, CardTypeOK, Contents
<1>2. ASSUME NEW m \in Claims, NEW x \in Contents, order' = Touched(m),
             newest' \in {newest, [newest EXCEPT ![m] = x]}
      PROVE  order' \in Seq(Claims) /\ newest' \in [Claims -> Contents]
  BY <1>1, <1>2, RowsTouched
<1>3. ASSUME NEW k \in Claims, Settle(k)
      PROVE  order' \in Seq(Claims) /\ newest' \in [Claims -> Contents]
  <2>1. CASE SettleAdopt(k)
    BY <1>2, <2>1, AdoptTyped DEF SettleAdopt
  <2>2. CASE ~SettleAdopt(k)
    <3>1. order' = Rows(k) /\ UNCHANGED newest
      BY <1>3, <2>2 DEF Settle, SettleDecided, SettleDiscard
    <3> QED BY <1>1, <3>1 DEF Rows
  <2> QED BY <2>1, <2>2
<1>4. ASSUME NEW t \in Tasks, Capture(t)
      PROVE  order' \in Seq(Claims) /\ newest' \in [Claims -> Contents]
  BY <1>2, <1>4, CaptureTyped DEF Capture
<1>5. ASSUME NEW k \in Claims, Abort(k)
      PROVE  order' \in Seq(Claims) /\ newest' \in [Claims -> Contents]
  BY <1>1, <1>5, RowsRemoved DEF Abort
<1>6. ASSUME NEW k \in Claims, RefuseAdoption(k)
      PROVE  order' \in Seq(Claims) /\ newest' \in [Claims -> Contents]
  <2>1. mounted[k] \in Claims
    BY <1>1, <1>6 DEF RefuseAdoption, ToSet
  <2> QED BY <1>1, <1>6, <2>1, RowsTouched DEF RefuseAdoption
<1>7. CardStep => \/ UNCHANGED <<order, newest>>
                  \/ \E k \in Claims : Settle(k) \/ Abort(k) \/ RefuseAdoption(k)
                  \/ \E t \in Tasks : Capture(t)
  BY DEF CardStep, Arrive, Hydrate, Boot, Play, StopEmulator, CannotCapture,
         NothingToCapture, Wipe
<1> QED BY <1>1, <1>3, <1>4, <1>5, <1>6, <1>7 DEF CardNext, OtherStep

\* Every step keeps the types.
LEMMA StepType ==
  ASSUME IInv, TypeInv, CardNext
  PROVE  CardTypeOK'
<1>1. /\ slot \in [Containers -> Contents] /\ running \in [Containers -> Claims \cup {None}]
      /\ phase \in [Tasks -> {"stop", "capture", "wipe", "keep"}]
      /\ recorded \subseteq {k \in Claims : mounted[k] # None}
      /\ mounted \in [Claims -> Claims \cup {None}]
  BY DEF TypeInv, CardTypeOK
<1>2. slot' \in [Containers -> Contents]
  <2>1. CASE Containers = {}
    BY PoolIsContainers, <2>1
  <2>2. CASE Containers # {}
    BY <2>2, SlotMoves
  <2> QED BY <2>1, <2>2
<1>3. running' \in [Containers -> Claims \cup {None}]
  BY <1>1 DEF CardNext, OtherStep, CardStep, Arrive, Settle, SettleDecided, SettleDiscard,
     SettleAdopt, Hydrate, Abort, RefuseAdoption, Boot, Play, StopEmulator, CannotCapture,
     NothingToCapture, Capture, Wipe
<1>4. phase' \in [Tasks -> {"stop", "capture", "wipe", "keep"}]
  BY <1>1 DEF CardNext, OtherStep, CardStep, Arrive, Settle, SettleDecided, SettleDiscard,
     SettleAdopt, Hydrate, Abort, RefuseAdoption, Boot, Play, StopEmulator, CannotCapture,
     NothingToCapture, Capture, Wipe
<1>5. recorded' \subseteq {k \in Claims : mounted'[k] # None}
  <2>1. \A k \in Claims : mounted[k] # None => mounted'[k] # None
    <3> SUFFICES ASSUME NEW k \in Claims, mounted[k] # None
                 PROVE  mounted'[k] # None
      OBVIOUS
    <3>1. ~Arrive(k)
      BY DEF Arrive, ArriveClaim, TypeInv, HasCardInv
    <3> QED BY <1>1, <3>1, MountsGo, NoneIsNoValue
  <2>2. ASSUME NEW k \in Claims, Arrive(k)
        PROVE  recorded' \subseteq {j \in Claims : mounted'[j] # None}
    <3>1. recorded' = IF mounted'[k] = None THEN recorded ELSE recorded \cup {k}
      BY <2>2 DEF Arrive
    <3> QED BY <1>1, <2>1, <3>1
  <2>3. ASSUME NEW k \in Claims, Settle(k)
        PROVE  recorded' \subseteq {j \in Claims : mounted'[j] # None}
    <3>1. recorded' \subseteq recorded \cup {k}
      BY <2>3 DEF Settle, SettleDecided, SettleDiscard, SettleAdopt, Recorded
    <3>2. mounted'[k] = Mount(k) /\ Mount(k) \in Claims
      BY <1>1, <2>3 DEF Settle, SettleDecided, SettleDiscard, SettleAdopt, Mount
    <3> QED BY <1>1, <2>1, <3>1, <3>2, NoneIsNoValue
  <2>4. CASE UNCHANGED <<recorded, mounted>>
    BY <1>1, <2>4
  <2>5. CardStep => \/ UNCHANGED <<recorded, mounted>>
                    \/ \E k \in Claims : Arrive(k) \/ Settle(k)
    BY DEF CardStep, Hydrate, Abort, RefuseAdoption, Boot, Play, StopEmulator, CannotCapture,
           NothingToCapture, Capture, Wipe
  <2> QED BY <2>2, <2>3, <2>4, <2>5 DEF CardNext, OtherStep
<1>6. played' \subseteq Claims
  <2>1. played \subseteq Claims
    BY DEF TypeInv, CardTypeOK
  <2>2. \A c \in Containers : Play(c) => running[c] \in Claims
    BY <1>1, NoneIsNoValue DEF Play
  <2>3. UNCHANGED played \/ \E c \in Containers : Play(c) /\ played' = played \cup {running[c]}
    BY DEF CardNext, OtherStep, CardStep, Arrive, Settle, SettleDecided, SettleDiscard,
       SettleAdopt, Hydrate, Abort, RefuseAdoption, Boot, Play, StopEmulator, CannotCapture,
       NothingToCapture, Capture, Wipe
  <2> QED BY <2>1, <2>2, <2>3
<1> QED BY <1>2, <1>3, <1>4, <1>5, <1>6, MountsGo, VersionsTyped, StepRows DEF CardTypeOK

\* A step moves a game only by booting or stopping it.
LEMMA GamesGo ==
  ASSUME CardTypeOK, CardNext, NEW c \in Containers
  PROVE  \/ running'[c] = running[c]
         \/ \E k \in Claims : Boot(k) /\ req[k].at = c /\ running'[c] = k
         \/ running'[c] = None
<1>1. running \in [Containers -> Claims \cup {None}]
  BY DEF CardTypeOK
<1>2. ASSUME NEW k \in Claims, Boot(k)
      PROVE  running'[c] = running[c] \/ (req[k].at = c /\ running'[c] = k)
  BY <1>1, <1>2 DEF Boot
<1>3. ASSUME NEW t \in Tasks, StopEmulator(t)
      PROVE  running'[c] \in {running[c], None}
  BY <1>1, <1>3 DEF StopEmulator
<1>4. CardStep => \/ UNCHANGED running
                  \/ \E k \in Claims : Boot(k)
                  \/ \E t \in Tasks : StopEmulator(t)
  BY DEF CardStep, Arrive, Settle, SettleDecided, SettleDiscard, SettleAdopt, Hydrate, Abort,
         RefuseAdoption, Play, CannotCapture, NothingToCapture, Capture, Wipe
<1> QED BY <1>2, <1>3, <1>4 DEF CardNext, OtherStep

\* Every step keeps the claims that have settled, and the games, on a card.
LEMMA StepHasCard ==
  ASSUME IInv, TypeInv, Desktops = {}, CardNext
  PROVE  HasCardInv'
<1>1. mounted \in [Claims -> Claims \cup {None}] /\ running \in [Containers -> Claims \cup {None}]
  BY DEF TypeInv, CardTypeOK
<1>2. ASSUME NEW k \in Claims
      PROVE  /\ req'[k].pc = "idle" => mounted'[k] = None
             /\ req'[k].pc \in {"hydrate", "activate", "stamp", "up"} => mounted'[k] \in Claims
  <2>1. /\ req[k].pc = "idle" => mounted[k] = None
        /\ req[k].pc \in {"hydrate", "activate", "stamp", "up"} => mounted[k] \in Claims
    BY DEF TypeInv, HasCardInv
  <2>2. CASE mounted'[k] = mounted[k] /\ ~Arrive(k) /\ ~Settle(k)
    BY <2>1, <2>2, RequestsMove DEF ReqGoes, Goes
  <2>3. CASE Arrive(k) /\ req'[k].pc = "try"
    BY <2>3
  <2>4. CASE /\ req'[k].pc = "hydrate" /\ Mount(k) \in Claims
             /\ mounted' = [mounted EXCEPT ![k] = Mount(k)]
    BY <1>1, <2>4
  <2> QED BY <2>2, <2>3, <2>4, MountsGo
<1>3. ASSUME NEW k \in Claims, mounted[k] \in Claims
      PROVE  mounted'[k] \in Claims
  <2>1. ~Arrive(k)
    BY <1>3, NoneIsNoValue DEF Arrive, ArriveClaim, TypeInv, HasCardInv
  <2> QED BY <1>1, <1>3, <2>1, MountsGo
<1>4. ASSUME NEW c \in Containers, running'[c] # None
      PROVE  mounted'[running'[c]] \in Claims
  <2>1. CASE running'[c] = running[c]
    BY <1>1, <1>3, <1>4, <2>1 DEF TypeInv, HasCardInv
  <2>2. ASSUME NEW k \in Claims, Boot(k), running'[c] = k
        PROVE  mounted'[k] \in Claims
    BY <1>3, <2>2 DEF Boot, Activate, TypeInv, HasCardInv
  <2> QED BY <1>4, <2>1, <2>2, GamesGo DEF TypeInv
<1> QED BY <1>2, <1>4 DEF HasCardInv

\* Every reachable state is well typed.
LEMMA TypeInvariance ==
  ASSUME Desktops = {}
  PROVE  CardSpec => [](IInv /\ TypeInv)
<1>1. CardInit => TypeInv
  BY DEF CardInit, Init, IdleReq, TypeInv, HasCardInv, CardTypeOK, Contents
<1>2. IInv /\ TypeInv /\ [CardNext]_allVars => TypeInv'
  <2>1. IInv /\ TypeInv /\ CardNext => TypeInv'
    BY StepType, StepHasCard DEF TypeInv
  <2>2. TypeInv /\ UNCHANGED allVars => TypeInv'
    BY DEF allVars, cardVars, vars, TypeInv, HasCardInv, CardTypeOK
  <2> QED BY <2>1, <2>2
<1> QED BY <1>1, <1>2, CardsKeepSessions, Invariance, PTL DEF CardSpec, allVars, CardNext

\* The state of the cards is well typed, whatever the players do, whatever fails and
\* whenever the backend restarts.
THEOREM CardTypeCorrect ==
  ASSUME Desktops = {}
  PROVE  CardSpec => []CardTypeOK
<1>1. TypeInv => CardTypeOK
  BY DEF TypeInv
<1> QED BY <1>1, TypeInvariance, PTL

-----------------------------------------------------------------------------
(* A card that was in a slot before.                                          *)

\* Claims can be refused before they settle what to do about the slot, and no later.
LaunchesSucceed == Desktops = {} /\ {"push", "launch"} \cap Faults = {}

\* A claim's new card is among the rows from its settling on, and not before; the card
\* a claim mounts is among them.
RowInv ==
  /\ \A k \in Claims : k \in ToSet(order) =>
       req[k].pc \in {"hydrate", "activate", "stamp", "up", "over"}
  /\ \A k \in Claims : mounted[k] # None => mounted[k] \in ToSet(order)

\* Only a teardown at its stop has come anywhere with the card.
PhaseInv == \A t \in Tasks : phase[t] # "stop" => Stopping(t)

\* A card that was there before, and that nobody has adopted, is not about to be wiped;
\* and whoever is about to push over it was told to discard it.
FoundInv == \A c \in Containers : slot[c] = Foreign /\ ~InLibrary(Foreign) =>
  /\ decided[c] # "adopt"
  /\ \A t \in Tasks : task[t].at = c => phase[t] # "wipe"
  /\ \A k \in Claims : req[k].pc = "hydrate" /\ req[k].at = c => decided[c] # "no"

KeepInv == RowInv /\ PhaseInv /\ FoundInv

\* Initially there are no rows, and no teardown.
LEMMA InitKeep == CardInit => KeepInv
<1>1. ToSet(<<>>) = {}
  BY DEF ToSet
<1> QED BY <1>1 DEF CardInit, Init, IdleReq, KeepInv, RowInv, PhaseInv, FoundInv

\* A claim that gives up has no row yet.
LEMMA AbortEarly ==
  ASSUME RowInv, LaunchesSucceed, NEW k \in Claims, Abort(k)
  PROVE  k \notin ToSet(order)
  BY DEF Abort, RowInv, LaunchesSucceed

\* Rows stay, and the one more is that of a claim that settles.
LEMMA RowsGo ==
  ASSUME IInv, TypeInv, RowInv, LaunchesSucceed, CardNext
  PROVE  /\ ToSet(order) \subseteq ToSet(order')
         /\ \A m \in ToSet(order') : m \in ToSet(order) \/ \E k \in Claims : Settle(k) /\ m = Mount(k)
         /\ \A k \in Claims : Settle(k) => Mount(k) \in ToSet(order')
<1>1. order \in Seq(Claims) /\ ToSet(order) \subseteq Claims
  BY DEF TypeInv, CardTypeOK, ToSet
<1>2. ASSUME NEW k \in Claims, Settle(k)
      PROVE  ToSet(order') = ToSet(order) \cup {Mount(k)}
  <2>1. Mount(k) \in Claims
    BY <1>2, MountsGo DEF Mount, TypeInv, CardTypeOK
  <2>2. CASE SettleAdopt(k)
    BY <1>1, <2>1, <2>2, RowsTouched DEF SettleAdopt
  <2>3. CASE order' = Rows(k)
    <3>1. CASE mounted[k] = None
      BY <1>1, <2>3, <3>1, RowsAppended DEF Rows, Mount
    <3>2. CASE mounted[k] # None
      BY <2>3, <3>2 DEF Rows, Mount, RowInv
    <3> QED BY <3>1, <3>2
  <2> QED BY <1>2, <2>2, <2>3 DEF Settle, SettleDecided, SettleDiscard
<1>3. ASSUME NEW m \in ToSet(order), order' = Touched(m)
      PROVE  ToSet(order') = ToSet(order)
  BY <1>1, <1>3, RowsTouched
<1>4. \A t \in Tasks : Capture(t) => order' = Touched(CardOf(t)) /\ CardOf(t) \in ToSet(order)
  BY DEF Capture, CardOf
<1>5. \A k \in Claims : RefuseAdoption(k) =>
        order' = Touched(mounted[k]) /\ mounted[k] \in ToSet(order)
  BY DEF RefuseAdoption
<1>6. ASSUME NEW k \in Claims, Abort(k)
      PROVE  ToSet(order') = ToSet(order)
  <2>1. order' = RemoveFirst(order, k)
    BY <1>6 DEF Abort
  <2>2. k \notin ToSet(order)
    BY <1>6, AbortEarly
  <2>3. /\ ToSet(RemoveFirst(order, k)) \subseteq ToSet(order)
        /\ ToSet(order) \subseteq ToSet(RemoveFirst(order, k)) \cup {k}
    BY <1>1, RowsRemoved
  <2> QED BY <2>1, <2>2, <2>3
<1>7. CardStep => \/ UNCHANGED order
                  \/ \E k \in Claims : Settle(k) \/ Abort(k) \/ RefuseAdoption(k)
                  \/ \E t \in Tasks : Capture(t)
  BY DEF CardStep, Arrive, Hydrate, Boot, Play, StopEmulator, CannotCapture,
         NothingToCapture, Wipe
<1>8. ToSet(order') = ToSet(order) \/ \E k \in Claims : Settle(k)
  <2>1. \A t \in Tasks : Capture(t) => ToSet(order') = ToSet(order)
    BY <1>3, <1>4
  <2>2. \A k \in Claims : RefuseAdoption(k) => ToSet(order') = ToSet(order)
    BY <1>3, <1>5
  <2>3. UNCHANGED order => ToSet(order') = ToSet(order)
    OBVIOUS
  <2> QED BY <1>6, <1>7, <2>1, <2>2, <2>3 DEF CardNext, OtherStep
<1> QED BY <1>2, <1>8

\* The snapshots of a card that has a row stay.
LEMMA SnapshotsGrow ==
  ASSUME IInv, TypeInv, RowInv, LaunchesSucceed, CardNext, NEW m \in Claims, m \in ToSet(order)
  PROVE  ToSet(versions[m]) \subseteq ToSet(versions'[m])
<1>1. versions \in [Claims -> Seq(Contents \ {None})] /\ CardTypeOK
  BY DEF TypeInv, CardTypeOK
<1>2. ASSUME NEW n \in Claims, NEW y \in Contents \ {None}, versions' = Stored(n, y)
      PROVE  ToSet(versions[m]) \subseteq ToSet(versions'[m])
  <2> DEFINE v == Stored(n, y)
  <2>1. ToSet(v[n]) = ToSet(versions[n]) \cup {y} /\ \A i \in Claims : i # n => v[i] = versions[i]
    BY <1>1, StoredFacts
  <2> HIDE DEF v
  <2>2. ToSet(versions[m]) \subseteq ToSet(v[m])
    BY <2>1
  <2> QED BY <1>2, <2>2 DEF v
<1>3. ASSUME NEW k \in Claims, Abort(k), versions' = [versions EXCEPT ![k] = <<>>]
      PROVE  versions'[m] = versions[m]
  BY <1>1, <1>3, AbortEarly
<1> QED BY <1>2, <1>3, VersionsGo, AdoptTyped, CaptureTyped

\* So a content that is a snapshot stays one.
LEMMA LibraryGrows ==
  ASSUME IInv, TypeInv, RowInv, LaunchesSucceed, CardNext, NEW x, InLibrary(x)
  PROVE  InLibrary(x)'
<1>1. PICK m \in ToSet(order) : Contains(versions[m], x)
  BY DEF InLibrary
<1>2. /\ m \in Claims /\ m \in ToSet(order')
      /\ versions \in [Claims -> Seq(Contents \ {None})]
      /\ versions' \in [Claims -> Seq(Contents \ {None})]
  <2>1. order \in Seq(Claims) /\ versions \in [Claims -> Seq(Contents \ {None})]
    BY DEF TypeInv, CardTypeOK
  <2>2. m \in Claims
    BY <2>1 DEF ToSet
  <2> QED BY <2>1, <2>2, RowsGo, VersionsTyped
<1>3. x \in ToSet(versions'[m])
  <2>1. x \in ToSet(versions[m])
    BY <1>1, <1>2, ContainsFacts
  <2> QED BY <1>2, <2>1, SnapshotsGrow
<1>4. Contains(versions'[m], x)
  BY <1>2, <1>3, ContainsFacts
<1> QED BY <1>2, <1>4 DEF InLibrary

\* What is adopted or captured is a snapshot.
LEMMA FiledIsKept ==
  ASSUME IInv, TypeInv, CardNext, NEW m \in Claims, NEW x \in Contents \ {None},
         versions' = Stored(m, x), order' = Touched(m)
  PROVE  InLibrary(x)'
<1>1. order \in Seq(Claims)
  BY DEF TypeInv, CardTypeOK
<1>2. m \in ToSet(order')
  BY <1>1, RowsTouched
<1> DEFINE v == Stored(m, x)
<1>3. x \in ToSet(v[m]) /\ v \in [Claims -> Seq(Contents \ {None})]
  BY StoredFacts DEF TypeInv
<1> HIDE DEF v
<1>4. Contains(v[m], x)
  BY <1>3, ContainsFacts
<1>5. Contains(versions'[m], x)
  BY <1>4 DEF v
<1> QED BY <1>2, <1>5 DEF InLibrary

\* So adopting or capturing what is in a slot files it.
LEMMA FilesSlot ==
  ASSUME IInv, TypeInv, CardNext, NEW x,
         \/ \E k \in Claims : SettleAdopt(k) /\ x = slot[req[k].at]
         \/ \E t \in Tasks : Capture(t) /\ x = slot[task[t].at]
  PROVE  InLibrary(x)'
<1>1. ASSUME NEW k \in Claims, SettleAdopt(k), x = slot[req[k].at]
      PROVE  InLibrary(x)'
  <2>1. versions' = Stored(Mount(k), x) /\ order' = Touched(Mount(k))
    BY <1>1 DEF SettleAdopt
  <2> QED BY <1>1, <2>1, AdoptTyped, FiledIsKept
<1>2. ASSUME NEW t \in Tasks, Capture(t), x = slot[task[t].at]
      PROVE  InLibrary(x)'
  <2>1. versions' = Stored(CardOf(t), x) /\ order' = Touched(CardOf(t))
    BY <1>2 DEF Capture
  <2> QED BY <1>2, <2>1, CaptureTyped, FiledIsKept
<1> QED BY <1>1, <1>2

\* Every step keeps the rows in order.
LEMMA StepRow ==
  ASSUME IInv, TypeInv, RowInv, LaunchesSucceed, CardNext
  PROVE  RowInv'
<1>1. /\ mounted \in [Claims -> Claims \cup {None}] /\ order \in Seq(Claims)
      /\ ToSet(order) \subseteq Claims /\ Desktops = {}
  BY DEF TypeInv, CardTypeOK, ToSet, LaunchesSucceed
<1>2. ASSUME NEW k \in Claims, k \in ToSet(order')
      PROVE  req'[k].pc \in {"hydrate", "activate", "stamp", "up", "over"}
  <2>1. CASE k \in ToSet(order)
    BY <1>1, <2>1, RequestsMove DEF RowInv, ReqGoes, Goes
  <2>2. CASE \E j \in Claims : Settle(j) /\ k = Mount(j)
    <3>1. PICK j \in Claims : Settle(j) /\ k = Mount(j)
      BY <2>2
    <3>2. CASE k = j
      BY <3>1, <3>2, SettleGoes
    <3>3. CASE k # j
      BY <2>1, <3>1, <3>3 DEF Mount, RowInv
    <3> QED BY <3>2, <3>3
  <2> QED BY <1>2, <2>1, <2>2, RowsGo
<1>3. ASSUME NEW k \in Claims, mounted'[k] # None
      PROVE  mounted'[k] \in ToSet(order')
  <2>1. CASE mounted'[k] = mounted[k]
    BY <1>3, <2>1, RowsGo DEF RowInv
  <2>2. CASE mounted' = [mounted EXCEPT ![k] = MostRecent(Player[k])]
    BY <1>1, <1>3, <2>2, RowsGo, MostRecentFacts
  <2>3. CASE Settle(k) /\ mounted' = [mounted EXCEPT ![k] = Mount(k)]
    BY <1>1, <2>3, RowsGo
  <2> QED BY <2>1, <2>2, <2>3, MountsGo
<1> QED BY <1>2, <1>3 DEF RowInv

\* Every step keeps the teardowns that got somewhere at their stop.
LEMMA StepPhase ==
  ASSUME IInv, TypeInv, PhaseInv, CardNext
  PROVE  PhaseInv'
<1>1. task \in [Tasks -> TaskState] /\ phase \in [Tasks -> {"stop", "capture", "wipe", "keep"}]
  BY DEF IInv, TypeOK, TypeInv, CardTypeOK
<1> SUFFICES ASSUME NEW t \in Tasks, phase'[t] # "stop"
             PROVE  task'[t].pc \in {"quiesce", "kill"}
  BY DEF PhaseInv, Stopping
<1>2. CASE OtherStep
  BY <1>2 DEF OtherStep, Stopping
<1>3. ASSUME NEW u \in Tasks, Wipe(u)
      PROVE  task'[t] = task[t] /\ phase'[t] = phase[t]
  <2>1. /\ \E p \in {"collect", "give", "let-go", "brief"} : task' = [task EXCEPT ![u].pc = p]
        /\ phase' = [phase EXCEPT ![u] = "stop"]
    BY <1>3, Zenon DEF Wipe, Quiesce, Kill
  <2> QED BY <1>1, <2>1
<1>4. ASSUME NEW u \in Tasks, \/ StopEmulator(u) \/ CannotCapture(u) \/ NothingToCapture(u)
                              \/ Capture(u)
      PROVE  UNCHANGED task /\ Stopping(u) /\ (t # u => phase'[t] = phase[t])
  BY <1>1, <1>4 DEF StopEmulator, CannotCapture, NothingToCapture, Capture, vars
<1>5. CardStep => \/ UNCHANGED <<task, phase>>
                  \/ \E u \in Tasks : \/ Wipe(u) \/ StopEmulator(u) \/ CannotCapture(u)
                                      \/ NothingToCapture(u) \/ Capture(u)
  BY DEF CardStep, Arrive, ArriveClaim, Settle, SettleDecided, SettleDiscard, SettleAdopt,
         SettleCard, Hydrate, Hydrated, Abort, AbortClaim, RefuseAdoption, Boot, Activate,
         Play, vars
<1> QED BY <1>2, <1>3, <1>4, <1>5 DEF CardNext, PhaseInv, Stopping

\* A teardown that is about to wipe was, or has looked at the slot in this step.
LEMMA WipesGo ==
  ASSUME IInv, TypeInv, PhaseInv, CardNext, NEW t \in Tasks, phase'[t] = "wipe"
  PROVE  /\ task'[t].at = task[t].at
         /\ phase[t] = "wipe" \/ NothingToCapture(t) \/ Capture(t)
<1>1. task \in [Tasks -> TaskState] /\ phase \in [Tasks -> {"stop", "capture", "wipe", "keep"}]
  BY DEF IInv, TypeOK, TypeInv, CardTypeOK
<1>2. CASE OtherStep
  <2>1. phase[t] = "wipe" /\ Stopping(t) /\ task'[t].pc \in {"quiesce", "kill"}
    BY <1>1, <1>2 DEF OtherStep, Stopping, PhaseInv
  <2>2. ~Crash
    <3>1. Crash => task'[t] = IdleTask
      BY DEF Crash
    <3>2. IdleTask.pc = "idle"
      BY DEF IdleTask, Teardown
    <3> QED BY <2>1, <3>1, <3>2
  <2>3. ~TaskStep(t)
    BY <2>1 DEF Stopping, TaskStep, MarkReleased, MarkAbandoned, Reread, Give, LetGo, Brief, Drop
  <2>4. CASE SessionStep
    BY <2>1, <2>2, <2>3, <2>4, TaskMoves DEF StoreStep, Stays, Begins, Stopping
  <2>5. ASSUME NEW u \in Tasks, Collect(u)
        PROVE  task'[t].at = task[t].at
    <3>1. task' = [task EXCEPT ![u].pc = "drop"]
      BY <2>5 DEF Collect
    <3> QED BY <1>1, <3>1 DEF TaskState
  <2> QED BY <1>2, <2>1, <2>4, <2>5 DEF OtherStep
<1>3. ASSUME NEW u \in Tasks, Wipe(u)
      PROVE  task'[t] = task[t] /\ phase[t] = "wipe"
  <2>1. /\ \E p \in {"collect", "give", "let-go", "brief"} : task' = [task EXCEPT ![u].pc = p]
        /\ phase' = [phase EXCEPT ![u] = "stop"]
    BY <1>3, Zenon DEF Wipe, Quiesce, Kill
  <2> QED BY <1>1, <2>1
<1>4. ASSUME NEW u \in Tasks, StopEmulator(u) \/ CannotCapture(u)
      PROVE  UNCHANGED task /\ phase[t] = "wipe"
  BY <1>1, <1>4 DEF StopEmulator, CannotCapture, vars
<1>5. ASSUME NEW u \in Tasks, NothingToCapture(u) \/ Capture(u)
      PROVE  UNCHANGED task /\ (t = u \/ phase[t] = "wipe")
  BY <1>1, <1>5 DEF NothingToCapture, Capture, vars
<1>6. CardStep => \/ UNCHANGED <<task, phase>>
                  \/ \E u \in Tasks : \/ Wipe(u) \/ StopEmulator(u) \/ CannotCapture(u)
                                      \/ NothingToCapture(u) \/ Capture(u)
  BY DEF CardStep, Arrive, ArriveClaim, Settle, SettleDecided, SettleDiscard, SettleAdopt,
         SettleCard, Hydrate, Hydrated, Abort, AbortClaim, RefuseAdoption, Boot, Activate,
         Play, vars
<1> QED BY <1>2, <1>3, <1>4, <1>5, <1>6 DEF CardNext

\* A pre-existing card is pushed only from a snapshot, and brought back only from one.
LEMMA ForeignStays ==
  ASSUME IInv, TypeInv, RowInv, CardNext, NEW c \in Containers, slot'[c] = Foreign
  PROVE  slot[c] = Foreign \/ InLibrary(Foreign)
<1>1. /\ Foreign # None /\ \A k \in Claims : Foreign \notin {k} \X (1..MaxWrites)
      /\ versions \in [Claims -> Seq(Contents \ {None})]
  BY ContentsAssumption DEF Written, TypeInv, CardTypeOK
<1>2. ASSUME NEW m \in Claims, m \in ToSet(order), Foreign \in ToSet(versions[m])
      PROVE  InLibrary(Foreign)
  <2>1. Contains(versions[m], Foreign)
    BY <1>1, <1>2, ContainsFacts
  <2> QED BY <1>2, <2>1 DEF InLibrary
<1>3. ASSUME NEW k \in Claims, mounted[k] \in Claims, slot'[c] = Latest(mounted[k])
      PROVE  InLibrary(Foreign)
  BY <1>1, <1>2, <1>3, LatestFacts, NoneIsNoValue DEF RowInv, TypeInv
<1>4. ASSUME NEW k \in Claims, mounted[k] \in Claims, slot'[c] \in ToSet(versions[mounted[k]])
      PROVE  InLibrary(Foreign)
  BY <1>2, <1>4, NoneIsNoValue DEF RowInv
<1> QED BY <1>1, <1>3, <1>4, SlotMoves

\* Every step keeps what was found in a slot from being overwritten unasked.
LEMMA StepFound ==
  ASSUME IInv, TypeInv, KeepInv, LaunchesSucceed, CardNext
  PROVE  FoundInv'
<1> SUFFICES ASSUME NEW c \in Containers, slot'[c] = Foreign, ~InLibrary(Foreign)'
             PROVE  /\ decided'[c] # "adopt"
                    /\ \A t \in Tasks : task'[t].at = c => phase'[t] # "wipe"
                    /\ \A k \in Claims : req'[k].pc = "hydrate" /\ req'[k].at = c =>
                         decided'[c] # "no"
  BY DEF FoundInv
<1>1. slot[c] = Foreign /\ ~InLibrary(Foreign)
  BY ForeignStays, LibraryGrows DEF KeepInv
<1>2. /\ decided[c] # "adopt"
      /\ \A t \in Tasks : task[t].at = c => phase[t] # "wipe"
      /\ \A k \in Claims : req[k].pc = "hydrate" /\ req[k].at = c => decided[c] # "no"
  BY <1>1 DEF KeepInv, FoundInv
<1>3. decided'[c] # "adopt"
  <2>1. \A k \in Claims : SettleAdopt(k) => req[k].at # c
    BY <1>1, FilesSlot
  <2>2. \/ UNCHANGED decided
        \/ \E k \in Claims : /\ SettleAdopt(k)
                             /\ decided' = [decided EXCEPT ![req[k].at] = "adopt"]
        \/ \E k \in Claims : decided' = [decided EXCEPT ![req[k].at] = "discard"]
    BY DEF CardNext, OtherStep, CardStep, Arrive, Settle, SettleDecided, SettleDiscard,
           SettleAdopt, Hydrate, Abort, RefuseAdoption, Boot, Play, StopEmulator,
           CannotCapture, NothingToCapture, Capture, Wipe
  <2> QED BY <1>2, <2>1, <2>2 DEF TypeInv, CardTypeOK
<1>4. ASSUME NEW t \in Tasks, task'[t].at = c
      PROVE  phase'[t] # "wipe"
  <2> SUFFICES ASSUME phase'[t] = "wipe"
               PROVE  FALSE
    OBVIOUS
  <2>1. task[t].at = c /\ (NothingToCapture(t) \/ Capture(t))
    BY <1>2, <1>4, WipesGo DEF KeepInv
  <2> QED BY <1>1, <2>1, ContentsAssumption, FilesSlot DEF NothingToCapture
<1>5. ASSUME NEW k \in Claims, req'[k].pc = "hydrate", req'[k].at = c
      PROVE  decided'[c] # "no"
  <2>1. req[k].pc \in {"probe", "hydrate"}
    BY <1>5, RequestsMove DEF ReqGoes, Goes, LaunchesSucceed
  <2>2. req[k].at \in Containers
    BY <2>1, ReqFacts DEF ReqOK
  <2>3. req[k].at = c
    <3>1. KeyStep
      BY CardSteps, StepInv
    <3> QED BY <1>5, <2>2, <3>1, NoneIsNoValue DEF KeyStep, AtsKept, Took
  <2>4. CASE req[k].pc = "hydrate"
    BY <1>2, <2>3, <2>4, MountsGo
  <2>5. CASE req[k].pc = "probe"
    <3>1. Settle(k)
      BY <1>5, <2>5, RequestsMove DEF ReqGoes, Goes, LaunchesSucceed
    <3> QED BY <2>3, <3>1, SettleGoes
  <2> QED BY <2>1, <2>4, <2>5
<1> QED BY <1>3, <1>4, <1>5

\* Where launches succeed, every reachable state satisfies these invariants.
LEMMA KeepInvariance ==
  ASSUME LaunchesSucceed
  PROVE  CardSpec => [](IInv /\ TypeInv /\ KeepInv)
<1>1. IInv /\ TypeInv /\ KeepInv /\ [CardNext]_allVars => KeepInv'
  <2>1. IInv /\ TypeInv /\ KeepInv /\ CardNext => KeepInv'
    BY StepRow, StepPhase, StepFound DEF KeepInv
  <2>2. KeepInv /\ UNCHANGED allVars => KeepInv'
    BY DEF allVars, cardVars, vars, KeepInv, RowInv, PhaseInv, Stopping, FoundInv, InLibrary
  <2> QED BY <2>1, <2>2
<1>2. CardSpec => [](IInv /\ TypeInv)
  BY TypeInvariance DEF LaunchesSucceed
<1> QED BY <1>1, <1>2, InitKeep, PTL DEF CardSpec, allVars, CardNext

\* A slot is written from outside the emulator only by a push or a wipe of its own.
LEMMA PushedBy ==
  ASSUME IInv, TypeInv, CardNext, NEW c \in Containers, Pushed(c)
  PROVE  \/ \E k \in Claims : Hydrate(k) /\ req[k].at = c
         \/ \E t \in Tasks : Wipe(t) /\ phase[t] = "wipe" /\ task[t].at = c
<1>1. slot \in [Containers -> Contents] /\ slot'[c] # slot[c] /\ ~Play(c)
  BY DEF TypeInv, CardTypeOK, Pushed
<1>2. \A k \in Claims : Hydrate(k) => req[k].at = c
  BY <1>1 DEF Hydrate
<1>3. \A d \in Containers : ~Play(d)
  BY <1>1 DEF Play
<1>4. \A t \in Tasks : Wipe(t) => phase[t] = "wipe" /\ task[t].at = c
  BY <1>1 DEF Wipe
<1>5. CardStep => \/ UNCHANGED slot
                  \/ \E k \in Claims : Hydrate(k)
                  \/ \E d \in Containers : Play(d)
                  \/ \E t \in Tasks : Wipe(t)
  BY DEF CardStep, Arrive, Settle, SettleDecided, SettleDiscard, SettleAdopt, Abort,
         RefuseAdoption, Boot, StopEmulator, CannotCapture, NothingToCapture, Capture
<1> QED BY <1>1, <1>2, <1>3, <1>4, <1>5 DEF CardNext, OtherStep

\* Where launches succeed, a card found in a slot is overwritten only once it is adopted
\* into a card that still exists or discarded on request, however sessions end, whatever
\* cannot be read or stored, and whenever the backend restarts.
THEOREM PreexistingCardsKept ==
  ASSUME LaunchesSucceed
  PROVE  CardSpec => PreexistingKept
<1> DEFINE Kept == \A c \in Containers :
             Pushed(c) /\ slot[c] = Foreign => InLibrary(Foreign) \/ decided[c] = "discard"
<1>1. IInv /\ TypeInv /\ KeepInv /\ CardNext => Kept
  <2> SUFFICES ASSUME IInv, TypeInv, KeepInv, CardNext, NEW c \in Containers, Pushed(c),
                      slot[c] = Foreign, ~InLibrary(Foreign)
               PROVE  decided[c] = "discard"
    OBVIOUS
  <2>1. /\ decided[c] # "adopt"
        /\ \A t \in Tasks : task[t].at = c => phase[t] # "wipe"
        /\ \A k \in Claims : req[k].pc = "hydrate" /\ req[k].at = c => decided[c] # "no"
    BY DEF KeepInv, FoundInv
  <2>2. PICK k \in Claims : Hydrate(k) /\ req[k].at = c
    BY <2>1, PushedBy
  <2> QED BY <2>1, <2>2 DEF Hydrate, Hydrated, TypeInv, CardTypeOK
<1>2. IInv /\ TypeInv /\ KeepInv /\ [CardNext]_allVars => [Kept]_allVars
  BY <1>1
<1> QED BY <1>2, KeepInvariance, PTL DEF CardSpec, PreexistingKept, allVars, CardNext

-----------------------------------------------------------------------------
(* The inductive invariant. *)

\* Where launches are not cut into, every marker lands and is kept, no session is left
\* to its TTL, the broker stops what it is asked to stop and the backend does not
\* restart; and where a save-and-exit, which has no marker at first, may occur, one
\* session ends at a time.
Sheltered ==
  /\ {"early", "sweep", "contention", "overrun", "forgotten"} \cap Env = {}
  /\ "stop" \notin Faults /\ Desktops = {} /\ MaxCrashes = 0
  /\ "exit" \in Env => \A t, u \in Tasks : t = u

\* What a player may find in a slot, or keep on a card, for a claim k of theirs.
Own(x, k) == x \in Written => Player[x[1]] = Player[k]

\* A teardown works on the container its session won.
AtInv == \A t \in Tasks : task[t].of # None => req[task[t].of].at = task[t].at

\* A game that runs is the one the key of its container names.
GameInv == \A c \in Containers : running[c] # None =>
  store[c].st # "free" /\ store[c].by = running[c] /\ req[running[c]].pc \in {"stamp", "up"}

\* Under a marker it runs only until the marker's teardown has stopped it.
DrainInv == \A c \in Containers : store[c].st = "drain" /\ running[c] # None =>
  \E t \in Tasks : task[t].of = running[c] /\ task[t].at = c /\ task[t].pc = "quiesce"

\* What a teardown does behind the emulator.
Ended == {"give", "let-go", "brief", "collect", "drop"}

\* Past its stop, a teardown's game does not run.
StopInv == \A t \in Tasks :
  task[t].pc \in Ended \/ phase[t] # "stop" => running[task[t].at] # task[t].of

\* A save-and-exit stops the game of a session that is still there.
ExitInv == \A t \in Tasks : task[t].pc = "kill" => SameClaim(store[task[t].at], task[t].of)

\* Once the card of the claim at a key is pushed, the slot holds nobody else's progress.
SlotInv == \A c \in Containers :
  store[c].st # "free" /\ req[store[c].by].pc \notin {"probe", "hydrate"} =>
    Own(slot[c], store[c].by)

\* A claim mounts a card of its player.
MountInv == \A k \in Claims : mounted[k] # None => Player[mounted[k]] = Player[k]

\* Until somebody settles what to do about it, a slot holds what was there at first.
AnswerInv == \A c \in Containers : decided[c] = "no" =>
  /\ slot[c] \notin Written
  /\ store[c].st # "free" => req[store[c].by].pc = "probe"

\* The games and teardowns; the cards.
PlayInv == AtInv /\ GameInv /\ DrainInv /\ PhaseInv /\ StopInv /\ ExitInv
CardInv == SlotInv /\ MountInv /\ AnswerInv /\ CardStaysPrivate

\* Initially no game runs, no teardown does, and nobody's progress is in a slot.
LEMMA InitCards == CardInit => PlayInv /\ CardInv
<1> SUFFICES ASSUME CardInit
             PROVE  PlayInv /\ CardInv
  OBVIOUS
<1>1. PlayInv
  BY NoneIsNoValue DEF CardInit, Init, IdleTask, Teardown, Free, PlayInv, AtInv, GameInv, DrainInv, PhaseInv,
     StopInv, Ended, ExitInv, Stopping
<1>2. MountInv
  BY DEF CardInit, MountInv
<1>3. SlotInv /\ AnswerInv
  BY ContentsAssumption DEF CardInit, Init, Free, SlotInv, AnswerInv
<1>4. CardStaysPrivate
  <2>1. \A m \in Claims : versions[m] = <<>>
    BY DEF CardInit
  <2>2. ToSet(<<>>) = {}
    BY DEF ToSet
  <2> QED BY <2>1, <2>2 DEF CardStaysPrivate
<1> QED BY <1>1, <1>2, <1>3, <1>4 DEF CardInv

-----------------------------------------------------------------------------
(* How far the teardowns and the requests get. *)

\* A restart is out of the question.
LEMMA NoCrash ==
  ASSUME IInv, Sheltered
  PROVE  ~Crash
  BY DEF Crash, IInv, TypeOK, Sheltered

\* So a request gets where its own steps take it.
LEMMA RequestsGo ==
  ASSUME IInv, Sheltered, CardNext, NEW k \in Claims
  PROVE  ReqGoes(k)
  BY NoCrash, RequestsGoOn DEF Sheltered

\* A teardown ends, from its marker, its give-back or the end of its exit.
Ends(t) ==
  task[t].pc \in {"mark", "give", "let-go", "brief", "drop"} /\ task'[t].pc = "idle"

\* The other steps it takes without the emulator.
GetsOn(t) ==
  /\ task'[t].at = task[t].at /\ task'[t].of = task[t].of
  /\ \/ task[t].pc = "mark" /\ task'[t].pc = "quiesce"
     \/ task[t].pc = "give" /\ task'[t].pc = "collect"
     \/ task[t].pc = "collect" /\ task'[t].pc = "drop"

\* The step past the emulator's stop.
GetsPast(t) ==
  /\ task'[t].at = task[t].at /\ task'[t].of = task[t].of
  /\ Stopping(t) /\ phase[t] \in {"wipe", "keep"} /\ phase'[t] = "stop"
  /\ task'[t].pc \in {"collect", "give", "let-go", "brief"}

\* A teardown's own step, short of its end, goes on with the same session.
LEMMA TaskStepGoes ==
  ASSUME IInv, Sheltered, NEW t \in Tasks, TaskStep(t)
  PROVE  Ends(t) \/ GetsOn(t)
<1>1. task \in [Tasks -> TaskState] /\ task[t].kind # "sweep"
  BY TaskFacts DEF TaskOK, Sheltered
<1>2. ASSUME NEW f, Finish(t, f)
      PROVE  task'[t].pc = "idle"
  BY <1>1, <1>2 DEF Finish, IdleTask, Teardown
<1>3. ASSUME NEW p, task' = Reserved(t, p) \/ task' = Unmarked(t, p)
      PROVE  task'[t].at = task[t].at /\ task'[t].of = task[t].of /\ task'[t].pc = p
  BY <1>1, <1>3 DEF Reserved, Unmarked, TaskState
<1>4. ASSUME NEW p, MarkOrSkip(t, p)
      PROVE  \/ task'[t].pc = "idle"
             \/ task'[t].at = task[t].at /\ task'[t].of = task[t].of /\ task'[t].pc = p
  BY <1>2, <1>3, <1>4 DEF MarkOrSkip
<1>5. CASE MarkReleased(t)
  BY <1>4, <1>5 DEF MarkReleased, Ends, GetsOn
<1>6. CASE MarkAbandoned(t)
  BY <1>2, <1>3, <1>6 DEF MarkAbandoned, Ends, GetsOn
<1>7. CASE Give(t)
  BY <1>4, <1>7 DEF Give, Ends, GetsOn
<1>8. CASE LetGo(t) \/ Brief(t) \/ Drop(t)
  BY <1>2, <1>8 DEF LetGo, Brief, Drop, Ends
<1>9. ~Reread(t)
  BY <1>1 DEF Reread
<1> QED BY <1>5, <1>6, <1>7, <1>8, <1>9 DEF TaskStep

\* What becomes of a teardown in a step.
LEMMA TaskGoes ==
  ASSUME IInv, CardTypeOK, Sheltered, CardNext, NEW t \in Tasks
  PROVE  Stays(t) \/ Begins(t) \/ Ends(t) \/ GetsOn(t) \/ GetsPast(t)
<1>1. task \in [Tasks -> TaskState] /\ phase \in [Tasks -> {"stop", "capture", "wipe", "keep"}]
  BY TaskFacts DEF CardTypeOK
<1>2. CASE SessionStep
  BY <1>2, NoCrash, TaskMoves, TaskStepGoes DEF StoreStep
<1>3. ASSUME NEW u \in Tasks, Collect(u)
      PROVE  Stays(t) \/ GetsOn(t)
  BY <1>1, <1>3 DEF Collect, GetsOn, Stays, TaskState
<1>4. ASSUME NEW u \in Tasks, Wipe(u)
      PROVE  Stays(t) \/ GetsPast(t)
  <2>1. PICK p \in {"collect", "give", "let-go", "brief"} :
          task' = [task EXCEPT ![u].pc = p]
    BY <1>4, Zenon DEF Wipe, Quiesce, Kill
  <2>2. CASE t = u
    <3>1. task'[t].at = task[t].at /\ task'[t].of = task[t].of /\ task'[t].pc = p
      BY <1>1, <2>1, <2>2 DEF TaskState
    <3>2. Stopping(t) /\ phase[t] \in {"wipe", "keep"} /\ phase'[t] = "stop"
      BY <1>1, <1>4, <2>2 DEF Wipe, Quiesce, Kill, Stopping
    <3> QED BY <3>1, <3>2 DEF GetsPast
  <2>3. CASE t # u
    BY <1>1, <2>1, <2>3 DEF Stays
  <2> QED BY <2>2, <2>3
<1>5. CASE UNCHANGED task
  BY <1>5 DEF Stays
<1>6. CardStep => UNCHANGED task \/ \E u \in Tasks : Wipe(u)
  BY DEF CardStep, Arrive, ArriveClaim, Settle, SettleDecided, SettleDiscard, SettleAdopt,
         SettleCard, Hydrate, Hydrated, Abort, AbortClaim, RefuseAdoption, Boot, Activate,
         Play, StopEmulator, CannotCapture, NothingToCapture, Capture, vars
<1> QED BY <1>2, <1>3, <1>4, <1>5, <1>6 DEF CardNext, OtherStep

-----------------------------------------------------------------------------
(* What becomes of a key. *)

\* The key of a launch is its own, and no teardown ends it yet.
LEMMA LaunchFacts ==
  ASSUME IInv, LaunchInv, Sheltered, NEW k \in Claims, Launching(k)
  PROVE  /\ req[k].at \in Containers /\ SameClaim(store[req[k].at], k)
         /\ \A t \in Tasks : task[t].of # k
         /\ \A c \in Containers : store[c].st # "free" /\ store[c].by = k => c = req[k].at
<1>1. LaunchKept(k)
  BY DEF LaunchInv, Steady, Sheltered
<1> QED BY <1>1, ReqFacts DEF LaunchKept, Launching, ReqOK, IInv, StoreInv

\* An aborted claim gives its container back.
LEMMA AbortFrees ==
  ASSUME IInv, LaunchInv, Sheltered, NEW k \in Claims, AbortClaim(k)
  PROVE  store'[req[k].at] = Free
<1>1. Launching(k)
  BY DEF AbortClaim, Launching
<1>2. SameClaim(store[req[k].at], k) /\ req[k].at \in Containers
  BY <1>1, LaunchFacts
<1>3. Cas(req[k].at, SameClaim(store[req[k].at], k), Free)
  BY DEF AbortClaim, Contended, Sheltered
<1>4. store' = [store EXCEPT ![req[k].at] = Free]
  BY <1>2, <1>3, Zenon DEF Cas
<1> QED BY <1>2, <1>4, ReqFacts

\* Past its probe, a claim at a key was there before.
LEMMA KeyHeld ==
  ASSUME IInv, Sheltered, CardNext, NEW c \in Containers, NEW k \in Claims,
         store'[c].st # "free", store'[c].by = k, req'[k].pc # "probe"
  PROVE  store[c].st # "free" /\ store[c].by = k
<1>1. [Next]_vars
  BY CardSteps
<1>2. KeyStep /\ KeyWrites /\ store[c] \in Entry
  BY <1>1, StepInv, NextFrom DEF StepFrom, IInv, TypeOK
<1>3. CASE \E d \in Containers, j \in Claims : Took(d, j)
  <2>1. PICK d \in Containers, j \in Claims : Took(d, j)
    BY <1>3
  <2>2. CASE d # c
    BY <2>1, <2>2 DEF Took, Elsewhere
  <2>3. CASE d = c
    <3>1. store[c].st = "free" /\ store'[c].st = "claim" /\ j = k /\ req[k].at = None
      BY <2>1, <2>3 DEF Took
    <3>2. \A i \in Claims : Merged(store[c], i).st = "free"
      BY <1>2, <3>1, WrittenFields
    <3>3. [store[c] EXCEPT !.ttl = "full"].st = "free"
      BY <1>2, <3>1 DEF Entry
    <3>4. Write(c, store'[c])
      BY <1>2, <3>1 DEF KeyWrites
    <3>5. Free.st = "free" /\ Marker(store[c].by).st = "drain"
      BY DEF Free, Marker
    <3>6. PICK i \in Claims : store'[c] = Session(i) /\ Preparing(i)'
      BY <3>1, <3>2, <3>3, <3>4, <3>5 DEF Write
    <3>7. Preparing(k)'
      BY <3>6 DEF Session
    <3>8. req[k].pc \notin {"probe", "hydrate", "activate"}
      BY <3>1, ReqFacts, NoneIsNoValue DEF ReqOK
    <3> QED BY <3>7, <3>8, RequestsGo DEF ReqGoes, Goes, Preparing
  <2> QED BY <2>2, <2>3
<1> QED BY <1>2, <1>3 DEF KeyStep, Quiet, Drained, Vacated, Elsewhere

\* A teardown's key, while it may be a save-and-exit's, is only touched by that teardown.
LEMMA ExitKeyKept ==
  ASSUME IInv, LaunchInv, Sheltered, CardNext, NEW t \in Tasks, task[t].pc = "kill",
         SameClaim(store[task[t].at], task[t].of), task'[t].pc = "kill"
  PROVE  SameClaim(store'[task[t].at], task[t].of)
<1> DEFINE c == task[t].at
           k == task[t].of
<1>1. c \in Containers /\ k \in Claims /\ "exit" \in Env
  BY TaskFacts DEF TaskOK
<1>2. \A u \in Tasks : u = t
  BY <1>1 DEF Sheltered
<1>3. store[c].st = "claim" /\ store[c].by = k
  BY DEF SameClaim
<1>4. ~AbortClaim(k)
  BY LaunchFacts, <1>1 DEF AbortClaim, Launching
<1>5. ~Freeing(c) /\ ~Draining(c)
  BY <1>2, <1>3, <1>4 DEF Freeing, Draining, GoesOn, Sheltered
<1>6. KeyWrites
  BY CardSteps, NextFrom DEF StepFrom
<1> QED BY <1>1, <1>3, <1>5, <1>6, ClaimKept

\* A container whose key a launched session holds, with every teardown of that session
\* at most on its way to take the card off.
Tended(c) ==
  /\ store[c].st # "free" /\ req[store[c].by].pc \in {"stamp", "up"}
  /\ \A t \in Tasks : task[t].of = store[c].by =>
       task[t].pc \notin Ended /\ phase[t] \in {"stop", "capture"}
  /\ store[c].st = "drain" =>
       \E t \in Tasks : task[t].of = store[c].by /\ task[t].at = c /\ task[t].pc = "quiesce"

\* The container of a game that runs is one.
LEMMA GameTended ==
  ASSUME IInv, PlayInv, CardTypeOK, NEW c \in Containers, running[c] # None
  PROVE  Tended(c) /\ store[c].by = running[c] /\ running[c] \in Claims
<1>1. /\ running[c] \in Claims /\ store[c].st # "free" /\ store[c].by = running[c]
      /\ req[running[c]].pc \in {"stamp", "up"}
  BY DEF PlayInv, GameInv, CardTypeOK
<1>2. ASSUME NEW t \in Tasks, task[t].of = running[c]
      PROVE  task[t].pc \notin Ended /\ phase[t] = "stop"
  <2>1. task[t].at = req[running[c]].at /\ req[running[c]].at = c
    BY <1>1, <1>2, NoneIsNoValue DEF PlayInv, AtInv, IInv, StoreInv
  <2> QED BY <1>2, <2>1 DEF PlayInv, StopInv
<1>3. store[c].st = "drain" =>
        \E t \in Tasks : task[t].of = running[c] /\ task[t].at = c /\ task[t].pc = "quiesce"
  BY DEF PlayInv, DrainInv
<1> QED BY <1>1, <1>2, <1>3 DEF Tended

\* Its key stays with the session, and is reserved by a marker only until that
\* teardown's stop.
LEMMA TendedKey ==
  ASSUME IInv, LaunchInv, PlayInv, CardTypeOK, Sheltered, CardNext,
         NEW c \in Containers, Tended(c)
  PROVE  /\ store'[c].st # "free" /\ store'[c].by = store[c].by
         /\ store'[c].st = "drain" =>
              \E t \in Tasks : /\ task'[t].of = store[c].by /\ task'[t].at = c
                               /\ task'[t].pc = "quiesce"
<1> DEFINE k == store[c].by
<1>1. k \in Claims /\ store[c].st # "free" /\ req[k].pc \in {"stamp", "up"}
  BY DEF Tended, IInv, StoreInv
<1>2. store[c].st \in {"claim", "drain"} /\ KeyWrites /\ IInv'
  BY <1>1, CardSteps, StepInv, NextFrom DEF StepFrom, IInv, TypeOK, Entry
<1>3. ASSUME NEW t \in Tasks, task[t].of = k
      PROVE  /\ task[t].pc # "idle" /\ task[t].at = c /\ task[t].pc \notin Ended
             /\ phase[t] \in {"stop", "capture"}
  <2>1. task[t].pc # "idle"
    BY <1>1, <1>3, TaskFacts, NoneIsNoValue DEF TaskOK
  <2>2. task[t].at = req[k].at /\ req[k].at = c
    BY <1>1, <1>3, NoneIsNoValue DEF PlayInv, AtInv, IInv, StoreInv
  <2> QED BY <1>3, <2>1, <2>2 DEF Tended
<1>4. CASE store[c].st = "drain"
  <2>1. PICK t \in Tasks : task[t].of = k /\ task[t].at = c /\ task[t].pc = "quiesce"
    BY <1>4 DEF Tended
  <2>2. phase[t] \in {"stop", "capture"}
    BY <1>3, <2>1
  <2>3. Stays(t)
    BY <2>1, <2>2, TaskGoes DEF Begins, Ends, GetsOn, GetsPast
  <2>4. task'[t].of = k /\ task'[t].at = c /\ task'[t].pc = "quiesce"
    BY <2>1, <2>3 DEF Stays
  <2>5. task'[t].token /\ task'[t].keep = "ticking"
    BY <1>2, <2>4 DEF IInv, TaskInv, TaskOK, Guarded, Sheltered
  <2>6. HoldsToken(store'[c], k)
    BY <1>2, <2>4, <2>5 DEF IInv, HeldInv, ReservationHeld, Sheltered
  <2> QED BY <2>4, <2>6 DEF HoldsToken
<1>5. CASE store[c].st = "claim"
  <2>1. ~Freeing(c)
    <3>1. ~AbortClaim(k)
      BY <1>1 DEF AbortClaim
    <3>2. ~GoesOn(c, {"release", "exit", "sweep"}, {"let-go", "drop"})
      BY <1>1, <1>3 DEF GoesOn, Ended
    <3> QED BY <1>1, <1>5, <3>1, <3>2 DEF Freeing, Sheltered
  <2>2. CASE SameClaim(store'[c], k)
    BY <2>2 DEF SameClaim
  <2>3. CASE store'[c] = Marker(k) /\ Draining(c)
    <3>1. PICK t \in Tasks : task[t].of = k /\ task[t].pc = "mark" /\ task'[t].pc = "quiesce"
      BY <1>1, <1>3, <1>5, <2>3 DEF Draining, GoesOn, Ended
    <3>2. task'[t].at = task[t].at /\ task'[t].of = task[t].of
      BY <3>1, TaskGoes DEF Stays, Begins, Ends, GetsOn, GetsPast
    <3>3. task'[t].of = k /\ task'[t].at = c
      BY <1>3, <3>1, <3>2
    <3> QED BY <2>3, <3>1, <3>3 DEF Marker
  <2> QED BY <1>1, <1>2, <1>5, <2>1, <2>2, <2>3, ClaimKept
<1> QED BY <1>2, <1>4, <1>5

\* And it stays such a container until a teardown of the session has taken the card off,
\* or has given up on it.
LEMMA TendedStays ==
  ASSUME IInv, LaunchInv, PlayInv, TypeInv, Sheltered, CardNext, NEW c \in Containers, Tended(c),
         \A t \in Tasks : task'[t].of = store[c].by => phase'[t] \notin {"wipe", "keep"}
  PROVE  Tended(c)'
<1> DEFINE k == store[c].by
<1>1. k \in Claims /\ req[k].pc \in {"stamp", "up"} /\ CardTypeOK /\ IInv'
  BY CardSteps, StepInv DEF Tended, IInv, StoreInv, TypeInv
<1>2. /\ store'[c].st # "free" /\ store'[c].by = k
      /\ store'[c].st = "drain" =>
           \E t \in Tasks : task'[t].of = k /\ task'[t].at = c /\ task'[t].pc = "quiesce"
  BY <1>1, TendedKey
<1>3. req'[k].pc \in {"stamp", "up"}
  BY <1>1, RequestsGo DEF ReqGoes, Goes, Preparing
<1>4. ASSUME NEW t \in Tasks, task'[t].of = k
      PROVE  task'[t].pc \notin Ended /\ phase'[t] \in {"stop", "capture"}
  <2>1. phase'[t] \in {"stop", "capture"}
    BY <1>4, StepType DEF CardTypeOK
  <2>2. task'[t].pc # "idle"
    BY <1>1, <1>4, NoneIsNoValue DEF IInv, TaskInv, TaskOK
  <2>3. task[t].of = k => task[t].pc \notin Ended /\ phase[t] \in {"stop", "capture"}
    BY DEF Tended
  <2> QED BY <1>1, <1>4, <2>1, <2>2, <2>3, TaskGoes
          DEF Stays, Begins, Ends, GetsOn, GetsPast, Ended
<1> QED BY <1>2, <1>3, <1>4 DEF Tended

-----------------------------------------------------------------------------
(* The games and the teardowns. *)

\* Every teardown works on the container its session won.
LEMMA StepAt ==
  ASSUME IInv, AtInv, Sheltered, [Next]_vars
  PROVE  AtInv'
<1>1. /\ KeyStep /\ OfsFrom /\ task' \in [Tasks -> TaskState] /\ IInv'
  BY StepInv, NextFrom DEF StepFrom, IInv, TypeOK
<1> SUFFICES ASSUME NEW t \in Tasks, NEW k, k = task'[t].of, k # None
             PROVE  req'[k].at = task'[t].at
  BY DEF AtInv
<1>2. k \in Claims
  BY <1>1 DEF TaskState
<1>3. req[k].at # None => req'[k].at = req[k].at
  BY <1>1, <1>2 DEF KeyStep, AtsKept, Took
<1>4. CASE task[t].of = k /\ task'[t].at = task[t].at
  BY <1>3, <1>4 DEF AtInv, IInv, OfInv
<1>5. CASE task'[t].at \in Containers /\ SameClaim(store[task'[t].at], k)
  <2>1. req[k].at = task'[t].at
    BY <1>5 DEF SameClaim, IInv, StoreInv
  <2> QED BY <1>3, <1>5, <2>1, NoneIsNoValue
<1> QED BY <1>1, <1>4, <1>5 DEF OfsFrom, Sheltered

\* Every step keeps the games with the claims at their keys.
LEMMA StepGame ==
  ASSUME IInv, LaunchInv, PlayInv, CardTypeOK, Sheltered, CardNext
  PROVE  GameInv' /\ DrainInv'
<1> SUFFICES ASSUME NEW c \in Containers, running'[c] # None
             PROVE  /\ store'[c].st # "free" /\ store'[c].by = running'[c]
                    /\ req'[running'[c]].pc \in {"stamp", "up"}
                    /\ store'[c].st = "drain" =>
                         \E t \in Tasks : /\ task'[t].of = running'[c] /\ task'[t].at = c
                                          /\ task'[t].pc = "quiesce"
  BY DEF GameInv, DrainInv
<1>1. CASE running'[c] = running[c]
  <2> DEFINE k == running[c]
  <2>1. k \in Claims /\ req[k].pc \in {"stamp", "up"}
    BY <1>1 DEF PlayInv, GameInv, CardTypeOK
  <2>2. req'[k].pc \in {"stamp", "up"}
    BY <2>1, RequestsGo DEF ReqGoes, Goes, Preparing
  <2> QED BY <1>1, <2>2, GameTended, TendedKey
<1>2. CASE \E k \in Claims : Boot(k) /\ req[k].at = c /\ running'[c] = k
  <2>1. PICK k \in Claims : Boot(k) /\ req[k].at = c /\ running'[c] = k
    BY <1>2
  <2>2. Moved(k, "stamp", req[k].at, req[k].idx, "off") /\ Launching(k) /\ UNCHANGED store
    BY <2>1, ReqFacts, MovePcHold DEF Boot, Activate, ReqPcs, Holds, Launching
  <2>3. SameClaim(store[c], k)
    BY <2>1, <2>2, LaunchFacts
  <2> QED BY <2>1, <2>2, <2>3 DEF Moved, SameClaim
<1> QED BY <1>1, <1>2, GamesGo

\* Every step keeps a stopped game stopped, as long as its teardown goes on.
LEMMA StepStop ==
  ASSUME IInv, LaunchInv, PlayInv, CardTypeOK, Sheltered, CardNext
  PROVE  StopInv'
<1>1. /\ phase \in [Tasks -> {"stop", "capture", "wipe", "keep"}]
      /\ running \in [Containers -> Claims \cup {None}]
      /\ task \in [Tasks -> TaskState]
  BY DEF CardTypeOK, IInv, TypeOK
<1> DEFINE Past(u) == task[u].pc \in Ended \/ phase[u] # "stop"
<1> SUFFICES ASSUME NEW t \in Tasks, task'[t].pc \in Ended \/ phase'[t] # "stop"
             PROVE  running'[task'[t].at] # task'[t].of
  BY DEF StopInv
<1>2. \A u \in Tasks :
        /\ phase[u] # "stop" => Stopping(u)
        /\ Past(u) => running[task[u].at] # task[u].of
  BY DEF PlayInv, PhaseInv, StopInv
<1>3. \A u \in Tasks : task[u].pc # "idle" => task[u].at \in Containers /\ task[u].of \in Claims
  BY TaskFacts DEF TaskOK, Sheltered
<1>4. CASE OtherStep
  <2>1. /\ phase'[t] # "stop" => phase'[t] = phase[t] /\ Stopping(t)' /\ Stopping(t)
        /\ running' = running
    BY <1>1, <1>2, <1>4 DEF OtherStep
  <2>2. CASE Stays(t)
    BY <1>2, <2>1, <2>2 DEF Stays
  <2>3. CASE Begins(t) \/ Ends(t)
    BY <2>1, <2>3 DEF Begins, Ends, Ended, Stopping
  <2>4. CASE GetsOn(t) \/ GetsPast(t)
    BY <1>2, <2>1, <2>4 DEF GetsOn, GetsPast, Ended, Stopping
  <2> QED BY <2>2, <2>3, <2>4, <1>4, TaskGoes DEF CardNext
<1>5. ASSUME NEW u \in Tasks, StopEmulator(u)
      PROVE  running'[task'[t].at] # task'[t].of
  <2>1. running' = [running EXCEPT ![task[u].at] = None]
    BY <1>5 DEF StopEmulator, Sheltered
  <2>2. /\ task[u].pc \in {"quiesce", "kill"} /\ UNCHANGED task
        /\ t # u => phase'[t] = phase[t]
    BY <1>1, <1>5 DEF StopEmulator, Stopping, vars
  <2>3. \A c \in Containers : running'[c] \in {running[c], None}
    BY <1>1, <2>1
  <2>4. CASE t = u
    <3>1. running'[task[t].at] = None /\ task[t].of \in Claims
      BY <1>1, <1>3, <2>1, <2>2, <2>4
    <3> QED BY <2>2, <3>1, NoneIsNoValue
  <2>5. CASE t # u
    <3>1. Past(t) /\ task[t].at \in Containers /\ task[t].of \in Claims
      BY <1>2, <1>3, <2>2, <2>5 DEF Ended, Stopping
    <3> QED BY <1>2, <2>2, <2>3, <3>1, NoneIsNoValue
  <2> QED BY <2>4, <2>5
<1>6. ASSUME NEW u \in Tasks, CannotCapture(u) \/ NothingToCapture(u) \/ Capture(u)
      PROVE  running'[task'[t].at] # task'[t].of
  <2>1. /\ Past(u) /\ UNCHANGED <<task, running>>
        /\ t # u => phase'[t] = phase[t]
    BY <1>1, <1>6 DEF CannotCapture, NothingToCapture, Capture, vars
  <2> QED BY <1>2, <2>1
<1>7. ASSUME NEW u \in Tasks, Wipe(u)
      PROVE  running'[task'[t].at] # task'[t].of
  <2>1. PICK p \in {"collect", "give", "let-go", "brief"} : task' = [task EXCEPT ![u].pc = p]
    BY <1>7, Zenon DEF Wipe, Quiesce, Kill
  <2>2. /\ UNCHANGED running /\ phase[u] # "stop" /\ phase'[u] = "stop"
        /\ t # u => phase'[t] = phase[t]
    BY <1>1, <1>7 DEF Wipe
  <2>3. CASE t = u
    <3>1. task'[t].at = task[t].at /\ task'[t].of = task[t].of
      BY <1>1, <2>1, <2>3 DEF TaskState
    <3> QED BY <1>2, <2>2, <2>3, <3>1
  <2>4. CASE t # u
    <3>1. task'[t] = task[t]
      BY <1>1, <2>1, <2>4
    <3> QED BY <1>2, <2>2, <2>4, <3>1
  <2> QED BY <2>3, <2>4
<1>8. ASSUME NEW k \in Claims, Boot(k)
      PROVE  running'[task'[t].at] # task'[t].of
  <2>1. UNCHANGED <<task, phase>> /\ running' = [running EXCEPT ![req[k].at] = k]
    BY <1>8 DEF Boot, Activate
  <2>2. task[t].of # k
    BY <1>8, LaunchFacts DEF Boot, Activate, Launching
  <2>3. Past(t) /\ task[t].at \in Containers
    BY <1>2, <1>3, <2>1 DEF Ended, Stopping
  <2> QED BY <1>1, <1>2, <2>1, <2>2, <2>3
<1>9. ASSUME UNCHANGED <<task, phase, running>>
      PROVE  running'[task'[t].at] # task'[t].of
  BY <1>2, <1>9
<1>10. CardStep => \/ UNCHANGED <<task, phase, running>>
                   \/ \E k \in Claims : Boot(k)
                   \/ \E u \in Tasks : \/ StopEmulator(u) \/ CannotCapture(u)
                                       \/ NothingToCapture(u) \/ Capture(u) \/ Wipe(u)
  BY DEF CardStep, Arrive, ArriveClaim, Settle, SettleDecided, SettleDiscard, SettleAdopt,
         SettleCard, Hydrate, Hydrated, Abort, AbortClaim, RefuseAdoption, Play, vars
<1> QED BY <1>4, <1>5, <1>6, <1>7, <1>8, <1>9, <1>10 DEF CardNext

\* Every step keeps the session of a save-and-exit at its key until the stop.
LEMMA StepExit ==
  ASSUME IInv, LaunchInv, PlayInv, CardTypeOK, Sheltered, CardNext
  PROVE  ExitInv'
<1> SUFFICES ASSUME NEW t \in Tasks, task'[t].pc = "kill"
             PROVE  SameClaim(store'[task'[t].at], task'[t].of)
  BY DEF ExitInv, SameClaim
<1>1. CASE Stays(t)
  BY <1>1, ExitKeyKept DEF Stays, PlayInv, ExitInv
<1>2. CASE Begins(t)
  BY <1>2 DEF Begins
<1> QED BY <1>1, <1>2, TaskGoes DEF Ends, GetsOn, GetsPast

\* Every step keeps the games and the teardowns in order.
LEMMA StepPlay ==
  ASSUME IInv, LaunchInv, PlayInv, TypeInv, Sheltered, CardNext
  PROVE  PlayInv'
<1>1. AtInv' /\ PhaseInv'
  BY CardSteps, StepAt, StepPhase DEF PlayInv
<1>2. CardTypeOK
  BY DEF TypeInv
<1> QED BY <1>1, <1>2, StepGame, StepStop, StepExit DEF PlayInv

-----------------------------------------------------------------------------
(* The cards. *)

\* A claim that has not won a container is at no key.
LEMMA HolderFacts ==
  ASSUME IInv, NEW c \in Containers, store[c].st # "free"
  PROVE  /\ store[c].by \in Claims /\ req[store[c].by].at = c
         /\ req[store[c].by].pc \notin {"idle", "try", "scan", "wait", "retry"}
<1>1. store[c].by \in Claims /\ req[store[c].by].at = c
  BY DEF IInv, StoreInv
<1> QED BY <1>1, ReqFacts, NoneIsNoValue DEF ReqOK

\* A teardown at its stop is at the key of its own session.
LEMMA StopsItsOwn ==
  ASSUME IInv, PlayInv, Sheltered, NEW t \in Tasks, Stopping(t)
  PROVE  /\ task[t].at \in Containers /\ task[t].of \in Claims
         /\ store[task[t].at].st # "free" /\ store[task[t].at].by = task[t].of
<1>1. task[t].at \in Containers /\ task[t].of \in Claims
  BY TaskFacts DEF TaskOK, Sheltered, Stopping
<1>2. CASE task[t].pc = "kill"
  BY <1>1, <1>2 DEF PlayInv, ExitInv, SameClaim
<1>3. CASE task[t].pc = "quiesce"
  <2>1. task[t].token /\ task[t].keep = "ticking"
    BY <1>3, TaskFacts DEF TaskOK, Guarded, Sheltered
  <2> QED BY <1>1, <1>3, <2>1 DEF IInv, HeldInv, ReservationHeld, HoldsToken, Sheltered
<1> QED BY <1>2, <1>3 DEF Stopping

\* What the teardown that captures a slot finds in it is its session's player's.
LEMMA CaptureFacts ==
  ASSUME IInv, LaunchInv, PlayInv, TypeInv, CardInv, Sheltered, NEW t \in Tasks, Capture(t)
  PROVE  Own(slot[task[t].at], CardOf(t))
<1> DEFINE c == task[t].at
           k == task[t].of
<1>1. /\ c \in Containers /\ k \in Claims /\ store[c].st # "free" /\ store[c].by = k
      /\ task[t].of = k
  BY StopsItsOwn DEF Capture
<1>2. req[k].pc \notin {"probe", "hydrate"}
  BY <1>1, LaunchFacts DEF Launching
<1>3. Own(slot[c], k)
  BY <1>1, <1>2 DEF CardInv, SlotInv
<1>4. Player[CardOf(t)] = Player[k]
  BY <1>1, CaptureTyped, NoneIsNoValue DEF CardInv, MountInv
<1> QED BY <1>3, <1>4 DEF Own

\* A card's latest snapshot is of its player.
LEMMA LatestOwn ==
  ASSUME TypeInv, CardInv, NEW m \in Claims
  PROVE  Own(Latest(m), m) /\ Latest(m) \in Contents
<1>1. None \in Contents /\ None \notin Written
  BY ContentsAssumption DEF Contents
<1>2. CASE Latest(m) = None
  BY <1>1, <1>2 DEF Own
<1>3. CASE Latest(m) # None
  BY <1>3, LatestFacts DEF TypeInv, CardInv, CardStaysPrivate, Own
<1> QED BY <1>2, <1>3

\* So a push puts there what is the claim's, and a game writes what is its own.
LEMMA SlotsGo ==
  ASSUME IInv, TypeInv, CardInv, CardNext, NEW c \in Containers
  PROVE  \/ slot'[c] \in {slot[c], None}
         \/ \E k \in Claims : Hydrate(k) /\ req[k].at = c /\ Own(slot'[c], k)
         \/ Play(c) /\ running[c] \in Claims /\ Own(slot'[c], running[c])
<1>1. \A k \in Claims : mounted[k] \in Claims => Player[mounted[k]] = Player[k]
  BY NoneIsNoValue DEF CardInv, MountInv
<1>2. ASSUME NEW k \in Claims, mounted[k] \in Claims, slot'[c] = Latest(mounted[k])
      PROVE  Own(slot'[c], k)
  BY <1>1, <1>2, LatestOwn DEF Own
<1>3. ASSUME NEW k \in Claims, mounted[k] \in Claims,
             \/ slot'[c] \in {k} \X (1..MaxWrites)
             \/ slot'[c] \in ToSet(versions[mounted[k]])
      PROVE  Own(slot'[c], k)
  BY <1>1, <1>3 DEF Own, CardInv, CardStaysPrivate
<1> QED BY <1>2, <1>3, SlotMoves

\* Every step keeps a slot, past its push, free of what others played.
LEMMA StepSlot ==
  ASSUME IInv, LaunchInv, PlayInv, TypeInv, CardInv, Sheltered, CardNext
  PROVE  SlotInv'
<1> SUFFICES ASSUME NEW c \in Containers, NEW k, k = store'[c].by, store'[c].st # "free",
                    req'[k].pc \notin {"probe", "hydrate"}
             PROVE  Own(slot'[c], k)
  BY DEF SlotInv, Own
<1>1. IInv'
  BY CardSteps, StepInv
<1>2. k \in Claims
  BY <1>1 DEF IInv, StoreInv
<1>3. store[c].st # "free" /\ store[c].by = k /\ req[k].at = c
  BY <1>2, KeyHeld, HolderFacts
<1>4. None \notin Written
  BY ContentsAssumption
<1>5. CASE Hydrate(k)
  <2>1. slot' = [slot EXCEPT ![c] = Latest(mounted[k])] \/ slot' = [slot EXCEPT ![c] = None]
    BY <1>3, <1>5 DEF Hydrate
  <2>2. mounted[k] \in Claims /\ Player[mounted[k]] = Player[k]
    BY <1>2, <1>5, NoneIsNoValue DEF Hydrate, Hydrated, TypeInv, HasCardInv, CardInv, MountInv
  <2>3. Own(Latest(mounted[k]), k)
    BY <2>2, LatestOwn DEF Own
  <2> QED BY <1>4, <2>1, <2>3 DEF TypeInv, CardTypeOK, Own
<1>6. CASE ~Hydrate(k)
  <2>1. ~(Preparing(k) /\ AbortClaim(k))
    <3>1. AbortClaim(k) => store'[c] = Free
      BY <1>2, <1>3, AbortFrees
    <3> QED BY <3>1 DEF Free
  <2>2. req[k].pc \notin {"probe", "hydrate"}
    BY <1>2, <1>6, <2>1, RequestsGo DEF ReqGoes, Goes
  <2>3. Own(slot[c], k)
    BY <1>3, <2>2 DEF CardInv, SlotInv
  <2>4. CASE slot'[c] \in {slot[c], None}
    BY <1>4, <2>3, <2>4 DEF Own
  <2>5. CASE \E j \in Claims : Hydrate(j) /\ req[j].at = c
    <3>1. PICK j \in Claims : Hydrate(j) /\ req[j].at = c
      BY <2>5
    <3>2. SameClaim(store[c], j)
      BY <3>1, LaunchFacts DEF Hydrate, Hydrated, Launching
    <3> QED BY <1>3, <1>6, <3>1, <3>2 DEF SameClaim
  <2>6. CASE Play(c) /\ running[c] \in Claims /\ Own(slot'[c], running[c])
    BY <1>2, <1>3, <2>6, NoneIsNoValue DEF PlayInv, GameInv
  <2> QED BY <2>4, <2>5, <2>6, SlotsGo
<1> QED BY <1>5, <1>6

\* Every step keeps the claims on cards of their players.
LEMMA StepMount ==
  ASSUME IInv, TypeInv, CardInv, CardNext
  PROVE  MountInv'
<1> SUFFICES ASSUME NEW k \in Claims, mounted'[k] # None
             PROVE  Player[mounted'[k]] = Player[k]
  BY DEF MountInv
<1>1. /\ mounted[k] # None => Player[mounted[k]] = Player[k]
      /\ mounted \in [Claims -> Claims \cup {None}] /\ order \in Seq(Claims)
  BY DEF CardInv, MountInv, TypeInv, CardTypeOK
<1>2. CASE mounted'[k] = mounted[k]
  BY <1>1, <1>2
<1>3. CASE mounted' = [mounted EXCEPT ![k] = MostRecent(Player[k])]
  BY <1>1, <1>3, MostRecentFacts
<1>4. CASE mounted' = [mounted EXCEPT ![k] = Mount(k)]
  BY <1>1, <1>4 DEF Mount
<1> QED BY <1>2, <1>3, <1>4, MountsGo

\* Every step keeps an unsettled slot as it was found.
LEMMA StepAnswer ==
  ASSUME IInv, LaunchInv, PlayInv, TypeInv, CardInv, Sheltered, CardNext
  PROVE  AnswerInv'
<1> SUFFICES ASSUME NEW c \in Containers, decided'[c] = "no"
             PROVE  /\ slot'[c] \notin Written
                    /\ store'[c].st # "free" => req'[store'[c].by].pc = "probe"
  BY DEF AnswerInv
<1>1. /\ slot[c] \notin Written
      /\ store[c].st # "free" => req[store[c].by].pc = "probe"
  BY MountsGo DEF CardInv, AnswerInv
<1>2. slot'[c] \notin Written
  <2>1. CASE slot'[c] \in {slot[c], None}
    BY <1>1, <2>1, ContentsAssumption
  <2>2. CASE \E k \in Claims : Hydrate(k) /\ req[k].at = c
    <3>1. PICK k \in Claims : Hydrate(k) /\ req[k].at = c
      BY <2>2
    <3>2. SameClaim(store[c], k) /\ req[k].pc = "hydrate"
      BY <3>1, LaunchFacts DEF Hydrate, Hydrated, Launching
    <3> QED BY <1>1, <3>2 DEF SameClaim
  <2>3. CASE running[c] \in Claims
    BY <1>1, <2>3, NoneIsNoValue DEF PlayInv, GameInv
  <2> QED BY <2>1, <2>2, <2>3, SlotsGo
<1>3. ASSUME NEW k, k = store'[c].by, store'[c].st # "free"
      PROVE  req'[k].pc = "probe"
  <2>1. k \in Claims
    BY <1>3, CardSteps, StepInv DEF IInv, StoreInv
  <2> SUFFICES ASSUME req'[k].pc # "probe"
               PROVE  FALSE
    OBVIOUS
  <2>2. store[c].st # "free" /\ store[c].by = k /\ req[k].at = c /\ req[k].pc = "probe"
    BY <1>1, <1>3, <2>1, KeyHeld, HolderFacts
  <2>3. ~AbortClaim(k)
    BY <1>3, <2>1, <2>2, AbortFrees DEF Free
  <2>4. Settle(k) /\ req'[k].pc = "hydrate"
    BY <2>1, <2>2, <2>3, RequestsGo DEF ReqGoes, Goes
  <2> QED BY <2>1, <2>2, <2>4, SettleGoes
<1> QED BY <1>2, <1>3

\* Every step keeps each card its player's.
LEMMA StepVersions ==
  ASSUME IInv, LaunchInv, PlayInv, TypeInv, CardInv, Sheltered, CardNext
  PROVE  CardStaysPrivate'
<1> SUFFICES ASSUME NEW m \in Claims, NEW x \in ToSet(versions'[m])
             PROVE  Own(x, m)
  BY DEF CardStaysPrivate, Own
<1>1. CASE x \in ToSet(versions[m])
  BY <1>1 DEF CardInv, CardStaysPrivate, Own
<1>2. ASSUME NEW k \in Claims, SettleAdopt(k)
      PROVE  Own(slot[req[k].at], m)
  <2>1. req[k].at \in Containers /\ decided[req[k].at] = "no"
    BY <1>2, ReqFacts DEF SettleAdopt, SettleCard, ReqOK
  <2> QED BY <2>1 DEF CardInv, AnswerInv, Own
<1> QED BY <1>1, <1>2, SnapshotsFrom, CaptureFacts

-----------------------------------------------------------------------------
(* The theorems. *)

\* Every step keeps the invariants.
LEMMA StepCards ==
  ASSUME IInv, LaunchInv, PlayInv, TypeInv, CardInv, Sheltered, [CardNext]_allVars
  PROVE  PlayInv' /\ CardInv'
<1>1. CASE CardNext
  BY <1>1, StepPlay, StepSlot, StepMount, StepAnswer, StepVersions DEF CardInv
<1>2. CASE UNCHANGED allVars
  <2>1. PlayInv'
    BY <1>2 DEF allVars, cardVars, vars, PlayInv, AtInv, GameInv, DrainInv, PhaseInv, StopInv,
       Stopping, ExitInv, SameClaim
  <2> QED BY <1>2, <2>1 DEF allVars, cardVars, vars, CardInv, SlotInv, MountInv, AnswerInv,
          CardStaysPrivate, Own
<1> QED BY <1>1, <1>2

\* Where Sheltered holds, every reachable state satisfies the inductive invariants.
LEMMA CardInvariance ==
  ASSUME Sheltered
  PROVE  CardSpec => [](IInv /\ LaunchInv /\ PlayInv /\ TypeInv /\ CardInv)
<1>1. IInv /\ LaunchInv /\ [CardNext]_allVars => LaunchInv'
  BY CardSteps, StepLaunch
<1>2. IInv /\ LaunchInv /\ PlayInv /\ TypeInv /\ CardInv /\ [CardNext]_allVars =>
        PlayInv' /\ CardInv'
  BY StepCards
<1>3. CardInit => LaunchInv /\ PlayInv /\ CardInv
  BY InitLaunch, InitCards DEF CardInit
<1>4. CardSpec => [](IInv /\ TypeInv)
  BY TypeInvariance DEF Sheltered
<1> QED BY <1>1, <1>2, <1>3, <1>4, PTL DEF CardSpec, allVars, CardNext

\* There, nobody's card ever holds what somebody else's game wrote, whichever containers
\* the players share and whatever cannot be read, stored, pushed or launched.
THEOREM CardsStayPrivate ==
  ASSUME Sheltered
  PROVE  CardSpec => []CardStaysPrivate
<1>1. CardInv => CardStaysPrivate
  BY DEF CardInv
<1> QED BY <1>1, CardInvariance, PTL

\* There, every game boots on a slot that holds no other player's progress.
THEOREM GamesBootTheirOwnCard ==
  ASSUME Sheltered
  PROVE  CardSpec => BootsOwnCard
<1> DEFINE Boots == \A k \in Claims : Boot(k) =>
             LET x == slot[req[k].at] IN x \in Written => Player[x[1]] = Player[k]
<1>1. IInv /\ LaunchInv /\ CardInv => Boots
  <2> SUFFICES ASSUME IInv, LaunchInv, CardInv, NEW k \in Claims, Boot(k)
               PROVE  Own(slot[req[k].at], k)
    BY DEF Own
  <2>1. req[k].pc = "activate"
    BY DEF Boot, Activate
  <2>2. req[k].at \in Containers /\ SameClaim(store[req[k].at], k)
    BY <2>1, LaunchFacts DEF Launching
  <2> QED BY <2>1, <2>2 DEF SameClaim, CardInv, SlotInv
<1>2. IInv /\ LaunchInv /\ CardInv /\ [CardNext]_allVars => [Boots]_allVars
  BY <1>1
<1> QED BY <1>2, CardInvariance, PTL DEF CardSpec, BootsOwnCard, allVars, CardNext

-----------------------------------------------------------------------------
(* What a game wrote. *)

\* And nothing fails, except that the file of a snapshot may be gone.
Preserving == Sheltered /\ Faults \subseteq {"missing"}

\* Every claim's record names the card it mounts.
RecInv == \A k \in Claims : mounted[k] # None => k \in recorded

\* What a game wrote and no snapshot has.
Unsaved(c) == slot[c] \in Written /\ ~InLibrary(slot[c])

\* It is in the slot of a session whose teardowns have not taken the card off yet.
UnsavedInv == \A c \in Containers : Unsaved(c) => Tended(c)

ProgressInv == KeepInv /\ RecInv /\ UnsavedInv

\* Until its card is taken off, nothing but the game writes to a session's slot.
LEMMA TendedUnpushed ==
  ASSUME IInv, LaunchInv, PlayInv, TypeInv, Sheltered, CardNext, NEW c \in Containers, Tended(c)
  PROVE  ~Pushed(c)
<1>1. ASSUME NEW k \in Claims, Hydrate(k), req[k].at = c
      PROVE  FALSE
  <2>1. req[k].pc = "hydrate" /\ Launching(k)
    BY <1>1 DEF Hydrate, Hydrated, Launching
  <2>2. SameClaim(store[c], k)
    BY <1>1, <2>1, LaunchFacts
  <2> QED BY <2>1, <2>2 DEF SameClaim, Tended
<1>2. ASSUME NEW t \in Tasks, phase[t] = "wipe", task[t].at = c
      PROVE  FALSE
  <2>1. Stopping(t)
    BY <1>2 DEF PlayInv, PhaseInv
  <2> QED BY <1>2, <2>1, StopsItsOwn DEF Tended
<1> QED BY <1>1, <1>2, PushedBy

\* Every step keeps the cards on the records.
LEMMA StepRec ==
  ASSUME IInv, TypeInv, RecInv, Preserving, CardNext
  PROVE  RecInv'
<1>1. /\ mounted \in [Claims -> Claims \cup {None}]
      /\ \A k \in Claims : mounted[k] # None => k \in recorded
  BY DEF TypeInv, CardTypeOK, RecInv
<1>2. recorded \subseteq recorded'
  BY DEF CardNext, OtherStep, CardStep, Arrive, Settle, SettleDecided, SettleDiscard,
     SettleAdopt, Recorded, Hydrate, Abort, RefuseAdoption, Boot, Play, StopEmulator,
     CannotCapture, NothingToCapture, Capture, Wipe
<1> SUFFICES ASSUME NEW k \in Claims, mounted'[k] # None
             PROVE  k \in recorded'
  BY DEF RecInv
<1>3. CASE mounted'[k] = mounted[k]
  BY <1>1, <1>2, <1>3
<1>4. CASE Arrive(k)
  BY <1>4 DEF Arrive
<1>5. CASE Settle(k)
  <2>1. CASE mounted[k] # None
    BY <1>1, <1>2, <2>1
  <2>2. CASE mounted[k] = None
    <3>1. k \in store'[req[k].at].merged
      BY <1>5, <2>2 DEF Settle, Merges, Preserving, Sheltered
    <3>2. recorded' = Recorded(k)
      BY <1>5 DEF Settle, SettleDecided, SettleDiscard, SettleAdopt
    <3> QED BY <3>1, <3>2 DEF Recorded
  <2> QED BY <2>1, <2>2
<1> QED BY <1>3, <1>4, <1>5, MountsGo

\* How far a teardown gets with the card in a step.
LEMMA PhaseGoes ==
  ASSUME IInv, TypeInv, CardNext, NEW t \in Tasks
  PROVE  \/ phase'[t] = phase[t]
         \/ phase'[t] = "stop" /\ ~Stopping(t)'
         \/ StopEmulator(t) /\ phase'[t] = "capture"
         \/ CannotCapture(t) /\ phase'[t] = "keep"
         \/ (NothingToCapture(t) \/ Capture(t)) /\ phase'[t] = "wipe"
<1>1. phase \in [Tasks -> {"stop", "capture", "wipe", "keep"}] /\ task \in [Tasks -> TaskState]
  BY TaskFacts DEF TypeInv, CardTypeOK
<1>2. CASE OtherStep
  BY <1>2 DEF OtherStep
<1>3. ASSUME NEW u \in Tasks, NEW p, phase' = [phase EXCEPT ![u] = p]
      PROVE  phase'[t] = phase[t] \/ (u = t /\ phase'[t] = p)
  BY <1>1, <1>3
<1>4. \A u \in Tasks :
        /\ StopEmulator(u) => phase' = [phase EXCEPT ![u] = "capture"]
        /\ CannotCapture(u) => phase' = [phase EXCEPT ![u] = "keep"]
        /\ NothingToCapture(u) \/ Capture(u) => phase' = [phase EXCEPT ![u] = "wipe"]
        /\ Wipe(u) => phase' = [phase EXCEPT ![u] = "stop"] /\ ~Stopping(u)'
  <2>1. ASSUME NEW u \in Tasks, Wipe(u)
        PROVE  ~Stopping(u)'
    <3>1. \E p \in {"collect", "give", "let-go", "brief"} : task' = [task EXCEPT ![u].pc = p]
      BY <2>1, Zenon DEF Wipe, Quiesce, Kill
    <3> QED BY <1>1, <3>1 DEF Stopping, TaskState
  <2> QED BY <2>1 DEF StopEmulator, CannotCapture, NothingToCapture, Capture, Wipe
<1>5. CardStep => \/ UNCHANGED phase
                  \/ \E u \in Tasks : \/ StopEmulator(u) \/ CannotCapture(u)
                                      \/ NothingToCapture(u) \/ Capture(u) \/ Wipe(u)
  BY DEF CardStep, Arrive, Settle, SettleDecided, SettleDiscard, SettleAdopt, Hydrate, Abort,
         RefuseAdoption, Boot, Play
<1> QED BY <1>2, <1>3, <1>4, <1>5 DEF CardNext

\* The teardown of a launched session finds its card.
LEMMA FindsCard ==
  ASSUME IInv, TypeInv, RowInv, RecInv, NEW t \in Tasks, NEW k \in Claims, task[t].of = k,
         req[k].pc \in {"stamp", "up"}
  PROVE  CardOf(t) # None
<1>1. mounted[k] \in Claims
  BY DEF TypeInv, HasCardInv
<1>2. k \in recorded /\ mounted[k] \in ToSet(order)
  BY <1>1, NoneIsNoValue DEF RowInv, RecInv
<1> QED BY <1>1, <1>2, NoneIsNoValue DEF CardOf

\* So no teardown of it is done with the slot unless the slot was empty, or is filed.
LEMMA TendedPhase ==
  ASSUME IInv, LaunchInv, PlayInv, TypeInv, ProgressInv, Preserving, CardNext,
         NEW c \in Containers, Unsaved(c), NEW x, x = slot[c],
         NEW t \in Tasks, task'[t].of = store[c].by, phase'[t] \in {"wipe", "keep"}
  PROVE  InLibrary(x)'
<1> DEFINE k == store[c].by
<1>1. Tended(c) /\ Sheltered /\ CardTypeOK
  BY DEF ProgressInv, UnsavedInv, Preserving, TypeInv
<1>2. k \in Claims /\ req[k].pc \in {"stamp", "up"} /\ req[k].at = c
  BY <1>1 DEF Tended, IInv, StoreInv
<1>3. Stopping(t) /\ task[t].of = k
  <2>1. Stopping(t)
    BY PhaseGoes DEF StopEmulator, CannotCapture, NothingToCapture, Capture, PlayInv, PhaseInv
  <2>2. task[t].of = task'[t].of
    BY <1>1, <2>1, TaskGoes DEF Stays, Begins, Ends, GetsOn, GetsPast, Stopping
  <2> QED BY <2>1, <2>2
<1>4. task[t].at = c /\ phase[t] \in {"stop", "capture"}
  BY <1>1, <1>2, <1>3, NoneIsNoValue DEF PlayInv, AtInv, Tended
<1>5. CardOf(t) # None
  BY <1>2, <1>3, FindsCard DEF ProgressInv, KeepInv
<1>6. ~CannotCapture(t)
  BY <1>5 DEF CannotCapture, Preserving
<1>7. ~NothingToCapture(t)
  BY <1>4, ContentsAssumption DEF NothingToCapture, Unsaved
<1>8. Capture(t)
  BY <1>4, <1>6, <1>7, PhaseGoes
<1> QED BY <1>4, <1>8, FilesSlot

\* Every step keeps what nobody has saved in the hands of its session.
LEMMA StepUnsaved ==
  ASSUME IInv, LaunchInv, PlayInv, TypeInv, ProgressInv, Preserving, CardNext
  PROVE  UnsavedInv'
<1>1. CardTypeOK /\ RowInv /\ Sheltered /\ LaunchesSucceed
  BY DEF TypeInv, ProgressInv, KeepInv, Preserving, Sheltered, LaunchesSucceed
<1> SUFFICES ASSUME NEW c \in Containers, NEW x, x = slot'[c], x \in Written, ~InLibrary(x)'
             PROVE  Tended(c)'
  BY DEF UnsavedInv, Unsaved, InLibrary
<1>2. ~InLibrary(x)
  BY <1>1, LibraryGrows
<1>3. x # None /\ versions \in [Claims -> Seq(Contents \ {None})]
  BY ContentsAssumption DEF TypeInv, CardTypeOK
<1>4. \A m \in Claims : m \in ToSet(order) => x \notin ToSet(versions[m])
  <2> SUFFICES ASSUME NEW m \in Claims, m \in ToSet(order), x \in ToSet(versions[m])
               PROVE  InLibrary(x)
    BY <1>2
  <2>1. Contains(versions[m], x)
    BY <1>3, ContainsFacts
  <2> QED BY <2>1 DEF InLibrary
<1>5. ASSUME NEW k \in Claims, mounted[k] \in Claims
      PROVE  x \notin ToSet(versions[mounted[k]]) /\ x # Latest(mounted[k])
  BY <1>1, <1>3, <1>4, <1>5, LatestFacts, NoneIsNoValue DEF RowInv
<1>6. CASE slot[c] = x
  <2>1. Unsaved(c) /\ Tended(c)
    BY <1>2, <1>6 DEF Unsaved, ProgressInv, UnsavedInv
  <2>2. \A t \in Tasks : task'[t].of = store[c].by => phase'[t] \notin {"wipe", "keep"}
    BY <1>6, <2>1, TendedPhase
  <2> QED BY <1>1, <2>1, <2>2, TendedStays
<1>7. CASE Play(c) /\ running[c] \in Claims
  <2>1. Tended(c)
    BY <1>1, <1>7, GameTended DEF Play
  <2>2. UNCHANGED <<vars, phase>>
    BY <1>7 DEF Play
  <2> QED BY <2>1, <2>2 DEF Tended, vars
<1> QED BY <1>3, <1>5, <1>6, <1>7, SlotMoves

\* Where Preserving holds, every reachable state satisfies the inductive invariants.
LEMMA ProgressInvariance ==
  ASSUME Preserving
  PROVE  CardSpec => [](IInv /\ LaunchInv /\ PlayInv /\ TypeInv /\ ProgressInv)
<1>1. CardInit => RecInv /\ UnsavedInv
  BY ContentsAssumption DEF CardInit, RecInv, UnsavedInv, Unsaved
<1>2. IInv /\ LaunchInv /\ PlayInv /\ TypeInv /\ ProgressInv /\ [CardNext]_allVars =>
        RecInv' /\ UnsavedInv'
  <2>1. IInv /\ LaunchInv /\ PlayInv /\ TypeInv /\ ProgressInv /\ CardNext =>
          RecInv' /\ UnsavedInv'
    BY StepRec, StepUnsaved DEF ProgressInv
  <2>2. ProgressInv /\ UNCHANGED allVars => RecInv' /\ UnsavedInv'
    BY DEF allVars, cardVars, vars, ProgressInv, RecInv, UnsavedInv, Unsaved, InLibrary, Tended
  <2> QED BY <2>1, <2>2
<1>3. CardSpec => [](IInv /\ TypeInv /\ KeepInv)
  BY KeepInvariance DEF Preserving, Sheltered, LaunchesSucceed
<1>4. CardSpec => [](IInv /\ LaunchInv /\ PlayInv /\ TypeInv /\ CardInv)
  BY CardInvariance DEF Preserving
<1>5. ProgressInv <=> KeepInv /\ RecInv /\ UnsavedInv
  BY DEF ProgressInv
<1> QED BY <1>1, <1>2, <1>3, <1>4, <1>5, PTL DEF CardSpec, allVars, CardNext

\* Where Preserving holds, what a game wrote is overwritten in its slot only once a
\* snapshot of some card has it, whoever claims and ends what and when.
THEOREM NoProgressOverwritten ==
  ASSUME Preserving
  PROVE  CardSpec => ProgressKept
<1> DEFINE Kept == \A c \in Containers :
             Pushed(c) /\ slot[c] \in Written => InLibrary(slot[c])
<1>1. IInv /\ LaunchInv /\ PlayInv /\ TypeInv /\ ProgressInv /\ CardNext => Kept
  BY TendedUnpushed DEF ProgressInv, UnsavedInv, Unsaved, Preserving
<1>2. IInv /\ LaunchInv /\ PlayInv /\ TypeInv /\ ProgressInv /\ [CardNext]_allVars => [Kept]_allVars
  BY <1>1
<1> QED BY <1>2, ProgressInvariance, PTL DEF CardSpec, ProgressKept, allVars, CardNext

-----------------------------------------------------------------------------
(* What a claim puts back. *)

\* And no push, launch or file of a snapshot fails, and no game brings back what its
\* card held before.
Resuming == Sheltered /\ Faults \subseteq {"fetch", "store"} /\ ~Reverts

\* A claim that is over holds no key.
OverInv == \A c \in Containers : store[c].st # "free" => req[store[c].by].pc # "over"

\* What k's game wrote is no snapshot yet.
Fresh(k) == \A m \in Claims : \A x \in ToSet(versions[m]) : x \in Written => x[1] # k

\* Nothing is, of a session whose card has not been taken off.
FreshInv == \A c \in Containers : Tended(c) => Fresh(store[c].by)

\* Only the game of a launched session writes, and only what was written is kept.
PlayedInv ==
  /\ \A k \in played : req[k].pc \in {"stamp", "up"}
  /\ \A m \in Claims : \A x \in ToSet(versions[m]) : x \in Written => x[1] \in played

\* A pushed slot holds a snapshot of the claim's card, or nothing, until the game writes
UnplayedInv == \A c \in Containers :
  /\ store[c].st # "free" /\ store[c].by \notin played
  /\ req[store[c].by].pc \in {"activate", "stamp", "up"}
  => slot[c] \in {None} \cup ToSet(versions[mounted[store[c].by]])

\* and from then on what the game wrote.
WroteInv == \A c \in Containers :
  Tended(c) /\ store[c].by \in played => slot[c] \in {store[c].by} \X (1..MaxWrites)

\* What was last taken off for a card is its latest snapshot.
NewestInv == \A m \in Claims : newest[m] = Latest(m)

ResumeInv ==
  KeepInv /\ OverInv /\ FreshInv /\ PlayedInv /\ UnplayedInv /\ WroteInv /\ NewestInv

\* Every step keeps the claims that are over off the keys.
LEMMA StepOver ==
  ASSUME IInv, LaunchInv, OverInv, Sheltered, CardNext
  PROVE  OverInv'
<1> SUFFICES ASSUME NEW c \in Containers, NEW k, k = store'[c].by, store'[c].st # "free",
                    req'[k].pc = "over"
             PROVE  FALSE
  BY DEF OverInv
<1>1. k \in Claims
  BY CardSteps, StepInv DEF IInv, StoreInv
<1>2. store[c].st # "free" /\ store[c].by = k /\ req[k].at = c
  BY <1>1, KeyHeld, HolderFacts
<1>3. ~AbortClaim(k)
  BY <1>1, <1>2, AbortFrees DEF Free
<1> QED BY <1>1, <1>2, <1>3, RequestsGo, HolderFacts DEF OverInv, ReqGoes, Goes

\* A teardown that moves on from its marker, or behind the emulator, does so by its own
\* step.
LEMMA OwnSteps ==
  ASSUME IInv, Sheltered, CardNext, NEW t \in Tasks, task'[t].pc # task[t].pc,
         task[t].pc \in {"mark", "give", "let-go", "brief", "drop"}
  PROVE  TaskStep(t)
<1>1. task \in [Tasks -> TaskState]
  BY TaskFacts
<1>2. CASE SessionStep
  BY <1>2, NoCrash, TaskMoves DEF StoreStep, Stays, Begins
<1>3. ASSUME NEW u \in Tasks, NEW p, task[u].pc \in {"quiesce", "kill", "collect"},
             task' = [task EXCEPT ![u].pc = p]
      PROVE  FALSE
  BY <1>1, <1>3
<1>4. ASSUME NEW u \in Tasks, Wipe(u)
      PROVE  FALSE
  <2>1. \E p \in {"collect", "give", "let-go", "brief"} : task' = [task EXCEPT ![u].pc = p]
    BY <1>4, Zenon DEF Wipe, Quiesce, Kill
  <2>2. task[u].pc \in {"quiesce", "kill"}
    BY <1>4 DEF Wipe, Quiesce, Kill
  <2> QED BY <1>3, <2>1, <2>2
<1>5. \A u \in Tasks : ~Collect(u)
  BY <1>3 DEF Collect
<1>6. CardStep => UNCHANGED task \/ \E u \in Tasks : Wipe(u)
  BY DEF CardStep, Arrive, ArriveClaim, Settle, SettleDecided, SettleDiscard, SettleAdopt,
         SettleCard, Hydrate, Hydrated, Abort, AbortClaim, RefuseAdoption, Boot, Activate,
         Play, StopEmulator, CannotCapture, NothingToCapture, Capture, vars
<1> QED BY <1>2, <1>4, <1>5, <1>6 DEF CardNext, OtherStep

\* A marker lands by one teardown's step, on a session that is there.
LEMMA MarkLands ==
  ASSUME IInv, Sheltered, CardNext, NEW t \in Tasks, task[t].pc = "mark",
         task'[t].pc = "quiesce"
  PROVE  /\ SameClaim(store[task[t].at], task[t].of)
         /\ \A u \in Tasks : u # t => task'[u] = task[u]
<1>1. task \in [Tasks -> TaskState] /\ task[t].kind # "sweep"
  BY TaskFacts DEF TaskOK, Sheltered
<1>2. MarkReleased(t) \/ MarkAbandoned(t)
  BY OwnSteps DEF TaskStep, Reread, Give, LetGo, Brief, Drop
<1>3. ASSUME NEW f, Finish(t, f)
      PROVE  FALSE
  BY <1>1, <1>3 DEF Finish, IdleTask, Teardown
<1>4. SameClaim(store[task[t].at], task[t].of) /\ task' = Reserved(t, "quiesce")
  BY <1>2, <1>3 DEF MarkReleased, MarkAbandoned, MarkOrSkip, Contended, Sheltered
<1> QED BY <1>1, <1>4 DEF Reserved

\* A save-and-exit that ends gives the key back, or leaves a marker at it.
LEMMA ExitEnds ==
  ASSUME IInv, Sheltered, CardNext, NEW t \in Tasks,
         task[t].pc \in {"give", "let-go", "brief"}, task'[t].pc = "idle"
  PROVE  ~SameClaim(store'[task[t].at], task[t].of)
<1> DEFINE c == task[t].at
           k == task[t].of
<1>1. task \in [Tasks -> TaskState] /\ store \in [Containers -> Entry] /\ c \in Containers
  BY TaskFacts DEF TaskOK
<1>2. Give(t) \/ LetGo(t) \/ Brief(t)
  BY OwnSteps DEF TaskStep, MarkReleased, MarkAbandoned, Reread, Drop
<1>3. Free.st # "claim" /\ Marker(k).st # "claim"
  BY DEF Free, Marker
<1>4. ASSUME NEW e, e.st # "claim", Cas(c, SameClaim(store[c], k), e)
      PROVE  ~SameClaim(store'[c], k)
  <2>1. CASE SameClaim(store[c], k)
    <3>1. store' = [store EXCEPT ![c] = e]
      BY <1>4, <2>1 DEF Cas
    <3> QED BY <1>1, <1>4, <3>1 DEF SameClaim
  <2>2. CASE ~SameClaim(store[c], k)
    BY <1>4, <2>2 DEF Cas
  <2> QED BY <2>1, <2>2
<1>5. CASE Give(t)
  <2>1. task' # Reserved(t, "collect") /\ task' # Unmarked(t, "collect")
    BY <1>1 DEF Reserved, Unmarked, TaskState
  <2>2. ~SameClaim(store[c], k) /\ UNCHANGED store
    BY <1>5, <2>1 DEF Give, MarkOrSkip
  <2> QED BY <2>2
<1>6. CASE LetGo(t)
  <2>1. Cas(c, SameClaim(store[c], k), Free)
    BY <1>6 DEF LetGo, Contended, Sheltered
  <2> QED BY <1>3, <1>4, <2>1
<1>7. CASE Brief(t)
  <2>1. Cas(c, SameClaim(store[c], k), Marker(k))
    BY <1>7 DEF Brief, Contended, Sheltered
  <2> QED BY <1>3, <1>4, <2>1
<1> QED BY <1>2, <1>5, <1>6, <1>7

\* A key that a marker reserves is not won back by the session.
LEMMA DrainedKey ==
  ASSUME IInv, CardNext, NEW c \in Containers, store[c].st = "drain"
  PROVE  store'[c].st # "claim"
<1>1. KeyWrites /\ store[c] \in Entry
  BY CardSteps, NextFrom DEF StepFrom, IInv, TypeOK
<1>2. store'[c] = store[c] \/ Write(c, store'[c])
  BY <1>1 DEF KeyWrites
<1>3. Free.st = "free" /\ Marker(store[c].by).st = "drain"
  BY DEF Free, Marker
<1>4. ASSUME NEW j \in Claims
      PROVE  Merged(store[c], j).st = "drain"
  BY <1>1, <1>4, WrittenFields
<1>5. [store[c] EXCEPT !.ttl = "full"].st = "drain"
  BY <1>1 DEF Entry
<1> QED BY <1>2, <1>3, <1>4, <1>5 DEF Write

\* A container becomes one whose session's card is still to be taken off by a boot, and
\* never again.
LEMMA TendedFrom ==
  ASSUME IInv, LaunchInv, PlayInv, TypeInv, Sheltered, CardNext, NEW c \in Containers, Tended(c)',
         NEW k, k = store'[c].by
  PROVE  /\ k \in Claims /\ req[k].at = c
         /\ Boot(k) \/ (Tended(c) /\ store[c].by = k)
<1>1. IInv' /\ CardTypeOK
  BY CardSteps, StepInv DEF TypeInv
<1>2. /\ k \in Claims /\ store'[c].st # "free" /\ req'[k].pc \in {"stamp", "up"}
      /\ \A t \in Tasks : task'[t].of = k =>
           task'[t].pc \notin Ended /\ phase'[t] \in {"stop", "capture"}
      /\ store'[c].st = "drain" =>
           \E t \in Tasks : task'[t].of = k /\ task'[t].at = c /\ task'[t].pc = "quiesce"
  BY <1>1 DEF Tended, IInv, StoreInv
<1>3. store[c].st # "free" /\ store[c].by = k /\ req[k].at = c
  BY <1>2, KeyHeld, HolderFacts
<1> SUFFICES ASSUME ~Boot(k)
             PROVE  Tended(c)
  BY <1>2, <1>3
<1>4. req[k].pc \in {"stamp", "up"}
  BY <1>2, RequestsGo DEF ReqGoes, Goes
<1>5. store[c].st \in {"claim", "drain"}
  BY <1>3 DEF IInv, TypeOK, Entry
<1>6. \A t \in Tasks : task[t].of = k => task[t].at = c
  BY <1>2, <1>3, NoneIsNoValue DEF PlayInv, AtInv
<1>7. ASSUME NEW t \in Tasks, task[t].of = k, task[t].pc \in {"quiesce", "collect", "drop"}
      PROVE  task[t].token /\ store[c].st = "drain"
  <2>1. task[t].token /\ task[t].keep = "ticking"
    BY <1>7, TaskFacts DEF TaskOK, Guarded, Sheltered
  <2> QED BY <1>6, <1>7, <2>1 DEF IInv, HeldInv, ReservationHeld, HoldsToken, Sheltered
<1>8. store[c].st = "drain" =>
        \E u \in Tasks : task[u].of = k /\ task[u].at = c /\ task[u].pc = "quiesce"
  <2> SUFFICES ASSUME store[c].st = "drain"
               PROVE  \E u \in Tasks : task[u].of = k /\ task[u].at = c /\ task[u].pc = "quiesce"
    OBVIOUS
  <2>1. store'[c].st = "drain"
    BY <1>1, <1>2, DrainedKey DEF IInv, TypeOK, Entry
  <2>2. PICK u \in Tasks : task'[u].of = k /\ task'[u].at = c /\ task'[u].pc = "quiesce"
    BY <1>2, <2>1
  <2>3. CASE Stays(u)
    BY <2>2, <2>3 DEF Stays
  <2>4. CASE GetsOn(u)
    <3>1. task[u].pc = "mark" /\ task[u].at = c
      BY <2>2, <2>4 DEF GetsOn
    <3> QED BY <2>2, <3>1, MarkLands DEF SameClaim
  <2> QED BY <1>1, <2>2, <2>3, <2>4, TaskGoes DEF Begins, Ends, GetsPast
<1>9. ASSUME NEW t \in Tasks, task[t].of = k
      PROVE  task[t].pc \notin Ended /\ phase[t] \in {"stop", "capture"}
  <2>1. phase[t] \in {"stop", "capture", "wipe", "keep"}
    BY DEF TypeInv, CardTypeOK
  <2>2. task[t].pc # "idle"
    BY <1>2, <1>9, TaskFacts, NoneIsNoValue DEF TaskOK
  <2>3. phase[t] # "stop" => Stopping(t)
    BY DEF PlayInv, PhaseInv
  <2>4. CASE Stays(t)
    <3>1. task[t].pc \notin Ended /\ phase'[t] \in {"stop", "capture"}
      BY <1>2, <1>9, <2>4 DEF Stays
    <3>2. phase'[t] = "stop" => phase[t] = "stop" \/ ~Stopping(t)
      BY <2>4, PhaseGoes DEF Stays, Stopping
    <3>3. StopEmulator(t) => phase[t] = "stop"
      BY DEF StopEmulator
    <3> QED BY <2>1, <2>3, <3>1, <3>2, <3>3, PhaseGoes
  <2>5. CASE GetsOn(t)
    BY <1>2, <1>9, <2>1, <2>3, <2>5 DEF GetsOn, Ended, Stopping
  <2>6. CASE Ends(t)
    <3>1. CASE task[t].pc = "mark"
      BY <2>1, <2>3, <3>1 DEF Ended, Stopping
    <3>2. CASE task[t].pc \in {"give", "let-go", "brief"}
      <4>1. \A u \in Tasks : u = t
        BY <3>2, TaskFacts DEF TaskOK, Sheltered
      <4>2. store'[c].st # "drain"
        BY <1>2, <2>6, <4>1 DEF Ends
      <4>3. ~SameClaim(store'[c], k)
        BY <1>6, <1>9, <2>6, <3>2, ExitEnds DEF Ends
      <4> QED BY <1>1, <1>2, <4>2, <4>3 DEF SameClaim, IInv, TypeOK, Entry
    <3>3. CASE task[t].pc = "drop"
      <4>1. task[t].token /\ store[c].st = "drain"
        BY <1>7, <1>9, <3>3
      <4>2. PICK u \in Tasks : task[u].of = k /\ task[u].pc = "quiesce"
        BY <1>8, <4>1
      <4>3. task[u].token
        BY <1>7, <4>2
      <4>4. u = t
        BY <1>9, <4>1, <4>2, <4>3 DEF IInv, TokenInv
      <4> QED BY <3>3, <4>2, <4>4
    <3> QED BY <2>6, <3>1, <3>2, <3>3 DEF Ends
  <2>7. CASE GetsPast(t)
    BY <1>2, <1>9, <2>7 DEF GetsPast, Ended
  <2> QED BY <1>1, <2>2, <2>4, <2>5, <2>6, <2>7, TaskGoes DEF Begins
<1> QED BY <1>3, <1>4, <1>8, <1>9 DEF Tended

\* A teardown that is to look at the slot finds its session's container such a one.
LEMMA CaptureTended ==
  ASSUME IInv, LaunchInv, PlayInv, TypeInv, OverInv, Sheltered,
         NEW t \in Tasks, Stopping(t), phase[t] = "capture"
  PROVE  Tended(task[t].at)
<1> DEFINE c == task[t].at
           k == task[t].of
<1>1. c \in Containers /\ k \in Claims /\ store[c].st # "free" /\ store[c].by = k
  BY StopsItsOwn
<1>2. req[k].pc = "up"
  <2>1. ~Launching(k)
    BY <1>1, LaunchFacts
  <2>2. req[k].pc \notin {"idle", "try", "scan", "wait", "retry", "over"}
    BY <1>1, HolderFacts DEF OverInv
  <2>3. req[k].pc \in ReqPcs
    BY <1>1, ReqFacts
  <2> QED BY <2>1, <2>2, <2>3 DEF Launching, ReqPcs
<1>3. ASSUME NEW u \in Tasks, task[u].of = k
      PROVE  task[u].pc \notin Ended /\ phase[u] \in {"stop", "capture"}
  <2>1. phase[u] \in {"stop", "capture", "wipe", "keep"} /\ (phase[u] # "stop" => Stopping(u))
    BY DEF TypeInv, CardTypeOK, PlayInv, PhaseInv
  <2>2. CASE u = t
    BY <2>1, <2>2 DEF Stopping, Ended
  <2>3. CASE u # t
    <3>1. \A w \in Tasks : task[w].pc \notin {"kill", "give", "let-go", "brief"}
      BY <2>3, TaskFacts DEF TaskOK, Sheltered
    <3>2. \A w \in Tasks : task[w].pc \in {"quiesce", "collect", "drop"} => task[w].token
      BY TaskFacts DEF TaskOK, Guarded, Sheltered
    <3>3. task[t].token /\ ~task[u].token
      BY <1>3, <2>3, <3>1, <3>2 DEF Stopping, IInv, TokenInv
    <3> QED BY <2>1, <3>1, <3>2, <3>3 DEF Stopping, Ended
  <2> QED BY <2>2, <2>3
<1>4. store[c].st = "drain" =>
        \E u \in Tasks : task[u].of = k /\ task[u].at = c /\ task[u].pc = "quiesce"
  <2>1. task[t].pc = "kill" => store[c].st = "claim"
    BY DEF PlayInv, ExitInv, SameClaim
  <2> QED BY <2>1 DEF Stopping
<1> QED BY <1>1, <1>2, <1>3, <1>4 DEF Tended

\* A game that writes, where none reverts, writes what is its own.
LEMMA PlayWrites ==
  ASSUME IInv, PlayInv, TypeInv, ~Reverts, NEW c \in Containers, Play(c)
  PROVE  /\ Tended(c) /\ store[c].by = running[c]
         /\ slot'[c] \in {running[c]} \X (1..MaxWrites)
<1> DEFINE k == running[c]
           n == IF slot[c] \in Written /\ slot[c][1] = k THEN slot[c][2] ELSE 0
<1>1. slot \in [Containers -> Contents] /\ k # None /\ CardTypeOK
  BY DEF TypeInv, CardTypeOK, Play
<1>2. n < MaxWrites /\ slot' = [slot EXCEPT ![c] = <<k, n + 1>>]
  BY DEF Play
<1>3. n \in Nat
  BY DEF Written
<1>4. n + 1 \in 1..MaxWrites
  BY <1>2, <1>3, CardAssumption
<1>5. slot'[c] \in {k} \X (1..MaxWrites)
  <2> HIDE DEF n
  <2> QED BY <1>1, <1>2, <1>4
<1> QED BY <1>1, <1>5, GameTended

\* What a teardown takes off is what the session's game wrote, or a snapshot of its card.
LEMMA TakenOff ==
  ASSUME IInv, LaunchInv, PlayInv, TypeInv, ResumeInv, Sheltered, NEW t \in Tasks, Capture(t)
  PROVE  /\ Fresh(task[t].of)
         /\ IF task[t].of \in played
            THEN slot[task[t].at] \in {task[t].of} \X (1..MaxWrites)
            ELSE slot[task[t].at] \in ToSet(versions[CardOf(t)])
<1> DEFINE c == task[t].at
           k == task[t].of
<1>1. /\ c \in Containers /\ k \in Claims /\ store[c].st # "free" /\ store[c].by = k
      /\ Tended(c)
  BY StopsItsOwn, CaptureTended DEF Capture, ResumeInv
<1>2. slot[c] # None /\ CardOf(t) = mounted[k]
  BY CaptureTyped DEF Capture
<1>3. req[k].pc \in {"stamp", "up"}
  BY <1>1 DEF Tended
<1> QED BY <1>1, <1>2, <1>3 DEF ResumeInv, FreshInv, WroteInv, UnplayedInv

\* A step after which a game has written that had not is a step of that game.
LEMMA PlayedBy ==
  ASSUME CardNext, NEW k \in played'
  PROVE  k \in played \/ \E c \in Containers : Play(c) /\ running[c] = k
<1>1. UNCHANGED played \/ \E c \in Containers : Play(c) /\ played' = played \cup {running[c]}
  BY DEF CardNext, OtherStep, CardStep, Arrive, Settle, SettleDecided, SettleDiscard,
     SettleAdopt, Hydrate, Abort, RefuseAdoption, Boot, Play, StopEmulator, CannotCapture,
     NothingToCapture, Capture, Wipe
<1> QED BY <1>1

\* A game that has written is not forgotten.
LEMMA PlayedStays ==
  ASSUME CardNext
  PROVE  played \subseteq played'
  BY DEF CardNext, OtherStep, CardStep, Arrive, Settle, SettleDecided, SettleDiscard,
     SettleAdopt, Hydrate, Abort, RefuseAdoption, Boot, Play, StopEmulator, CannotCapture,
     NothingToCapture, Capture, Wipe

\* Nothing that a game wrote is adopted.
LEMMA AdoptsNoProgress ==
  ASSUME IInv, CardInv, NEW k \in Claims, SettleAdopt(k)
  PROVE  slot[req[k].at] \notin Written
<1>1. req[k].at \in Containers /\ decided[req[k].at] = "no"
  BY ReqFacts DEF SettleAdopt, SettleCard, ReqOK
<1> QED BY <1>1 DEF CardInv, AnswerInv

\* Every step keeps the snapshots to what launched sessions' games wrote.
LEMMA StepPlayed ==
  ASSUME IInv, LaunchInv, PlayInv, TypeInv, CardInv, ResumeInv, Resuming, CardNext
  PROVE  PlayedInv'
<1>1. Sheltered /\ ~Reverts /\ played \subseteq Claims
  BY DEF Resuming, TypeInv, CardTypeOK
<1>2. ASSUME NEW k \in played'
      PROVE  req'[k].pc \in {"stamp", "up"}
  <2>1. k \in Claims /\ req[k].pc \in {"stamp", "up"}
    <3>1. CASE k \in played
      BY <1>1, <3>1 DEF ResumeInv, PlayedInv
    <3>2. ASSUME NEW c \in Containers, Play(c), running[c] = k
          PROVE  k \in Claims /\ req[k].pc \in {"stamp", "up"}
      BY <1>1, <3>2, PlayWrites DEF Tended, IInv, StoreInv
    <3> QED BY <3>1, <3>2, PlayedBy
  <2> QED BY <1>1, <2>1, RequestsGo DEF ReqGoes, Goes, Preparing
<1>3. ASSUME NEW m \in Claims, NEW x \in ToSet(versions'[m]), x \in Written
      PROVE  x[1] \in played
  <2>1. CASE x \in ToSet(versions[m])
    BY <1>3, <2>1 DEF ResumeInv, PlayedInv
  <2>2. ASSUME NEW t \in Tasks, Capture(t), m = CardOf(t), x = slot[task[t].at]
        PROVE  x[1] \in played
    <3>1. CASE task[t].of \in played
      BY <1>1, <2>2, <3>1, TakenOff
    <3>2. CASE task[t].of \notin played
      BY <1>1, <1>3, <2>2, <3>2, TakenOff DEF ResumeInv, PlayedInv
    <3> QED BY <3>1, <3>2
  <2> QED BY <1>3, <2>1, <2>2, SnapshotsFrom, AdoptsNoProgress
<1> QED BY <1>2, <1>3, PlayedStays DEF PlayedInv

\* Every step keeps a slot that was pushed on its card until the game writes.
LEMMA StepUnplayed ==
  ASSUME IInv, LaunchInv, PlayInv, TypeInv, ResumeInv, Resuming, CardNext
  PROVE  UnplayedInv'
<1>0. Sheltered /\ ~Reverts /\ LaunchesSucceed /\ CardTypeOK /\ RowInv
  BY DEF Resuming, Sheltered, LaunchesSucceed, TypeInv, ResumeInv, KeepInv
<1> SUFFICES ASSUME NEW c \in Containers, NEW k, k = store'[c].by, store'[c].st # "free",
                    k \notin played', req'[k].pc \in {"activate", "stamp", "up"}
             PROVE  slot'[c] \in {None} \cup ToSet(versions'[mounted'[k]])
  BY DEF UnplayedInv
<1>1. k \in Claims
  BY CardSteps, StepInv DEF IInv, StoreInv
<1>2. store[c].st # "free" /\ store[c].by = k /\ req[k].at = c /\ k \notin played
  BY <1>0, <1>1, KeyHeld, HolderFacts, PlayedStays
<1>3. req[k].pc \in {"activate", "stamp", "up"} \/ Hydrate(k)
  BY <1>0, <1>1, RequestsGo DEF ReqGoes, Goes
<1>4. mounted'[k] = mounted[k] /\ mounted[k] \in Claims
  <2>1. mounted[k] \in Claims
    BY <1>1, <1>3 DEF TypeInv, HasCardInv, Hydrate, Hydrated
  <2> QED BY <1>1, <2>1, MountsGo
<1>5. mounted[k] \in ToSet(order)
  BY <1>0, <1>1, <1>4, NoneIsNoValue DEF RowInv
<1>6. ToSet(versions[mounted[k]]) \subseteq ToSet(versions'[mounted[k]])
  BY <1>0, <1>4, <1>5, SnapshotsGrow
<1>7. CASE Hydrate(k)
  <2>1. slot' = [slot EXCEPT ![c] = Latest(mounted[k])]
    BY <1>2, <1>7 DEF Hydrate, Resuming
  <2>2. slot'[c] = Latest(mounted[k])
    BY <2>1 DEF TypeInv, CardTypeOK
  <2>3. Latest(mounted[k]) \in {None} \cup ToSet(versions[mounted[k]])
    BY <1>0, <1>4, LatestFacts
  <2> QED BY <1>4, <1>6, <2>2, <2>3
<1>8. CASE ~Hydrate(k)
  <2>1. slot[c] \in {None} \cup ToSet(versions[mounted[k]])
    BY <1>2, <1>3, <1>8 DEF ResumeInv, UnplayedInv
  <2>2. ASSUME NEW j \in Claims, Hydrate(j), req[j].at = c
        PROVE  FALSE
    <3>1. SameClaim(store[c], j)
      BY <1>0, <2>2, LaunchFacts DEF Hydrate, Hydrated, Launching
    <3> QED BY <1>2, <1>8, <2>2, <3>1 DEF SameClaim
  <2>3. ~Play(c)
    <3>1. Play(c) => running[c] = k /\ played' = played \cup {running[c]}
      BY <1>0, <1>2, PlayWrites DEF Play
    <3> QED BY <3>1
  <2>4. slot'[c] \in {slot[c], None}
    BY <2>2, <2>3, SlotMoves
  <2> QED BY <1>4, <1>6, <2>1, <2>4
<1> QED BY <1>7, <1>8

\* Every step keeps what a game wrote in its slot, until it is taken off.
LEMMA StepWrote ==
  ASSUME IInv, LaunchInv, PlayInv, TypeInv, ResumeInv, Resuming, CardNext
  PROVE  WroteInv'
<1>0. Sheltered /\ ~Reverts
  BY DEF Resuming
<1> SUFFICES ASSUME NEW c \in Containers, Tended(c)', NEW k, k = store'[c].by, k \in played'
             PROVE  slot'[c] \in {k} \X (1..MaxWrites)
  BY DEF WroteInv
<1>1. k \in Claims /\ req[k].at = c /\ (Boot(k) \/ (Tended(c) /\ store[c].by = k))
  BY <1>0, TendedFrom
<1>2. ASSUME NEW d \in Containers, Play(d), running[d] = k
      PROVE  d = c
  BY <1>0, <1>1, <1>2, PlayWrites DEF Tended, IInv, StoreInv
<1>3. CASE Boot(k)
  <2>1. req[k].pc = "activate" /\ played' = played
    BY <1>3 DEF Boot, Activate
  <2> QED BY <2>1 DEF ResumeInv, PlayedInv
<1>4. CASE Tended(c) /\ store[c].by = k
  <2>1. CASE Play(c)
    BY <1>0, <1>4, <2>1, PlayWrites
  <2>2. CASE ~Play(c)
    <3>1. slot'[c] = slot[c]
      BY <1>0, <1>4, <2>2, TendedUnpushed DEF Pushed
    <3>2. k \in played
      BY <1>2, <2>2, PlayedBy
    <3> QED BY <1>4, <3>1, <3>2 DEF ResumeInv, WroteInv
  <2> QED BY <2>1, <2>2
<1> QED BY <1>1, <1>3, <1>4

\* Every step keeps what a game writes out of the library until it is taken off.
LEMMA StepFresh ==
  ASSUME IInv, LaunchInv, PlayInv, TypeInv, CardInv, ResumeInv, Resuming, CardNext
  PROVE  FreshInv'
<1>0. Sheltered
  BY DEF Resuming
<1> SUFFICES ASSUME NEW c \in Containers, Tended(c)', NEW k, k = store'[c].by,
                    NEW m \in Claims, NEW x \in ToSet(versions'[m]), x \in Written, x[1] = k
             PROVE  FALSE
  BY DEF FreshInv, Fresh
<1>1. k \in Claims /\ (Boot(k) \/ (Tended(c) /\ store[c].by = k))
  BY <1>0, TendedFrom
<1>2. Fresh(k)
  <2>1. CASE Boot(k)
    <3>1. k \notin played
      BY <2>1 DEF Boot, Activate, ResumeInv, PlayedInv
    <3> QED BY <3>1 DEF Fresh, ResumeInv, PlayedInv
  <2>2. CASE Tended(c) /\ store[c].by = k
    BY <2>2 DEF ResumeInv, FreshInv
  <2> QED BY <1>1, <2>1, <2>2
<1>3. x \notin ToSet(versions[m])
  BY <1>2 DEF Fresh
<1>4. PICK t \in Tasks : Capture(t) /\ m = CardOf(t) /\ x = slot[task[t].at]
  BY <1>3, SnapshotsFrom, AdoptsNoProgress
<1>5. task[t].of = k
  BY <1>0, <1>3, <1>4, TakenOff
<1>6. task'[t].of = k /\ phase'[t] = "wipe"
  <2>1. UNCHANGED task /\ phase' = [phase EXCEPT ![t] = "wipe"]
    BY <1>4 DEF Capture, vars
  <2> QED BY <1>5, <2>1 DEF TypeInv, CardTypeOK
<1> QED BY <1>6 DEF Tended

\* A snapshot that is new to a card becomes its latest; one it has changes nothing.
LEMMA StoredLatest ==
  ASSUME CardTypeOK, NEW m \in Claims, NEW x \in Contents \ {None}, versions' = Stored(m, x)
  PROVE  IF x \in ToSet(versions[m]) THEN UNCHANGED versions
         ELSE \A n \in Claims : Latest(n)' = IF n = m THEN x ELSE Latest(n)
<1> DEFINE s == versions[m]
<1>1. versions \in [Claims -> Seq(Contents \ {None})] /\ s \in Seq(Contents \ {None})
  BY DEF CardTypeOK
<1>2. CASE x \in ToSet(s)
  <2>1. Contains(s, x)
    BY <1>1, <1>2, ContainsFacts
  <2> QED BY <1>2, <2>1 DEF Stored
<1>3. CASE x \notin ToSet(s)
  <2>1. ~Contains(s, x)
    BY <1>1, <1>3, ContainsFacts
  <2>2. versions' = [versions EXCEPT ![m] = Append(s, x)]
    BY <2>1 DEF Stored
  <2>3. Append(s, x) # <<>> /\ Append(s, x)[Len(Append(s, x))] = x
    <3> DEFINE r == Append(s, x)
    <3>1. Len(r) = Len(s) + 1 /\ r[Len(s) + 1] = x /\ Len(s) \in Nat
      BY <1>1
    <3>2. Len(<<>>) = 0
      OBVIOUS
    <3> HIDE DEF r, s
    <3>3. r # <<>>
      BY <3>1, <3>2
    <3> QED BY <3>1, <3>3 DEF r
  <2>4. Latest(m)' = x
    <3>1. versions'[m] = Append(s, x)
      BY <1>1, <2>2
    <3> QED BY <2>3, <3>1 DEF Latest, Last
  <2>5. ASSUME NEW n \in Claims, n # m
        PROVE  Latest(n)' = Latest(n)
    <3>1. versions'[n] = versions[n]
      BY <1>1, <2>2, <2>5
    <3> QED BY <3>1 DEF Latest
  <2> QED BY <1>3, <2>4, <2>5
<1> QED BY <1>2, <1>3

\* The contents last played change by an adoption, a card given up or a card taken off.
LEMMA NewestGoes ==
  ASSUME CardNext
  PROVE  \/ UNCHANGED <<versions, newest>>
         \/ \E k \in Claims : SettleAdopt(k) \/ Abort(k)
         \/ \E t \in Tasks : Capture(t)
  BY DEF CardNext, OtherStep, CardStep, Arrive, Settle, SettleDecided, SettleDiscard, Hydrate,
     RefuseAdoption, Boot, Play, StopEmulator, CannotCapture, NothingToCapture, Wipe

\* Every step keeps the latest snapshot of a card the content last played on it.
LEMMA StepNewest ==
  ASSUME IInv, LaunchInv, PlayInv, TypeInv, CardInv, ResumeInv, Resuming, CardNext
  PROVE  NewestInv'
<1>0. /\ Sheltered /\ CardTypeOK /\ NewestInv /\ newest \in [Claims -> Contents]
      /\ versions \in [Claims -> Seq(Contents \ {None})]
  BY DEF Resuming, TypeInv, CardTypeOK, ResumeInv
<1>1. CASE UNCHANGED <<versions, newest>>
  BY <1>0, <1>1 DEF NewestInv, Latest
<1>2. ASSUME NEW m \in Claims, NEW x \in Contents \ {None}, versions' = Stored(m, x),
             newest' = [newest EXCEPT ![m] = x], x \in ToSet(versions[m]) => Latest(m) = x
      PROVE  NewestInv'
  <2>1. \A n \in Claims : newest'[n] = IF n = m THEN x ELSE newest[n]
    BY <1>0, <1>2
  <2>2. CASE x \in ToSet(versions[m])
    <3>1. UNCHANGED versions
      BY <1>0, <1>2, <2>2, StoredLatest
    <3> QED BY <1>0, <1>2, <2>1, <2>2, <3>1 DEF NewestInv, Latest
  <2>3. CASE x \notin ToSet(versions[m])
    <3>1. \A n \in Claims : Latest(n)' = IF n = m THEN x ELSE Latest(n)
      BY <1>0, <1>2, <2>3, StoredLatest
    <3> QED BY <1>0, <2>1, <3>1 DEF NewestInv
  <2> QED BY <2>2, <2>3
<1>3. ASSUME NEW k \in Claims, SettleAdopt(k)
      PROVE  NewestInv'
  <2> DEFINE m == Mount(k)
             x == slot[req[k].at]
  <2>1. m \in Claims /\ x \in Contents \ {None}
    BY <1>3, AdoptTyped
  <2>2. /\ versions' = Stored(m, x) /\ newest' = [newest EXCEPT ![m] = x]
        /\ Contains(versions[m], x) => Latest(m) = x
    BY <1>3 DEF SettleAdopt
  <2>3. x \in ToSet(versions[m]) => Latest(m) = x
    BY <1>0, <2>1, <2>2, ContainsFacts
  <2> HIDE DEF m, x
  <2> QED BY <1>2, <2>1, <2>2, <2>3
<1>4. ASSUME NEW k \in Claims, Abort(k)
      PROVE  NewestInv'
  <2>1. /\ versions' = [versions EXCEPT ![k] = <<>>]
        /\ newest' = [newest EXCEPT ![k] = None]
    BY <1>4 DEF Abort
  <2>2. \A n \in Claims : /\ versions'[n] = IF n = k THEN <<>> ELSE versions[n]
                          /\ newest'[n] = IF n = k THEN None ELSE newest[n]
    BY <1>0, <2>1
  <2> QED BY <1>0, <2>2 DEF NewestInv, Latest
<1>5. ASSUME NEW t \in Tasks, Capture(t)
      PROVE  NewestInv'
  <2> DEFINE k == task[t].of
             m == CardOf(t)
             x == slot[task[t].at]
  <2>1. m \in Claims /\ x \in Contents \ {None} /\ k \in Claims
    BY <1>5, CaptureTyped
  <2>2. /\ versions' = Stored(m, x)
        /\ newest' = IF k \in played THEN [newest EXCEPT ![m] = x] ELSE newest
    BY <1>5 DEF Capture
  <2>3. /\ Fresh(k)
        /\ IF k \in played THEN x \in {k} \X (1..MaxWrites) ELSE x \in ToSet(versions[m])
    BY <1>0, <1>5, TakenOff
  <2> HIDE DEF k, m, x
  <2>4. CASE k \in played
    <3>1. x \in Written /\ x[1] = k
      BY <2>1, <2>3, <2>4 DEF Written
    <3>2. x \notin ToSet(versions[m])
      BY <2>1, <2>3, <3>1 DEF Fresh
    <3> QED BY <1>2, <2>1, <2>2, <2>4, <3>2
  <2>5. CASE k \notin played
    <3>1. UNCHANGED <<versions, newest>>
      BY <1>0, <2>1, <2>2, <2>3, <2>5, StoredLatest
    <3> QED BY <1>1, <3>1
  <2> QED BY <2>4, <2>5
<1> QED BY <1>1, <1>3, <1>4, <1>5, NewestGoes

\* What the cards, the slots and the claims start with.
LEMMA InitResume == CardInit => OverInv /\ FreshInv /\ PlayedInv /\ UnplayedInv /\ WroteInv /\ NewestInv
<1> SUFFICES ASSUME CardInit
             PROVE  OverInv /\ FreshInv /\ PlayedInv /\ UnplayedInv /\ WroteInv /\ NewestInv
  OBVIOUS
<1>1. /\ \A c \in Containers : store[c] = Free
      /\ \A m \in Claims : versions[m] = <<>> /\ newest[m] = None
      /\ played = {}
  BY DEF CardInit, Init
<1>2. \A c \in Containers : store[c].st = "free"
  <2>1. Free.st = "free"
    BY DEF Free
  <2> QED BY <1>1, <2>1
<1>3. ToSet(<<>>) = {}
  BY DEF ToSet
<1> QED BY <1>1, <1>2, <1>3 DEF OverInv, FreshInv, Fresh, PlayedInv, UnplayedInv, WroteInv,
                                NewestInv, Latest, Tended

\* Where Resuming holds, every reachable state satisfies the inductive invariants.
LEMMA ResumeInvariance ==
  ASSUME Resuming
  PROVE  CardSpec => [](IInv /\ LaunchInv /\ PlayInv /\ TypeInv /\ CardInv /\ ResumeInv)
<1> DEFINE More == OverInv /\ FreshInv /\ PlayedInv /\ UnplayedInv /\ WroteInv /\ NewestInv
<1>1. ResumeInv <=> KeepInv /\ More
  BY DEF ResumeInv
<1>2. IInv /\ LaunchInv /\ PlayInv /\ TypeInv /\ CardInv /\ ResumeInv /\ [CardNext]_allVars =>
        More'
  <2>1. IInv /\ LaunchInv /\ PlayInv /\ TypeInv /\ CardInv /\ ResumeInv /\ CardNext => More'
    BY StepOver, StepFresh, StepPlayed, StepUnplayed, StepWrote, StepNewest
    DEF ResumeInv, Resuming
  <2>2. ResumeInv /\ UNCHANGED allVars => More'
    BY DEF allVars, cardVars, vars, ResumeInv, OverInv, FreshInv, Fresh, PlayedInv, UnplayedInv,
           WroteInv, NewestInv, Latest, Tended
  <2> QED BY <2>1, <2>2
<1>3. CardInit => More
  BY InitResume
<1>4. CardSpec => [](IInv /\ TypeInv /\ KeepInv)
  BY KeepInvariance DEF Resuming, Sheltered, LaunchesSucceed
<1>5. CardSpec => [](IInv /\ LaunchInv /\ PlayInv /\ TypeInv /\ CardInv)
  BY CardInvariance DEF Resuming
<1> HIDE DEF More
<1> QED BY <1>1, <1>2, <1>3, <1>4, <1>5, PTL DEF CardSpec, allVars, CardNext

\* Where Resuming holds, a claim puts back what was last played on its card and taken off
\* a container, by whichever of its player's sessions, however those were ended.
THEOREM ClaimsResumeTheirCard ==
  ASSUME Resuming
  PROVE  CardSpec => ResumesLastPlayed
<1> DEFINE Resumes == \A k \in Claims : Hydrate(k) => slot'[req[k].at] = newest[mounted[k]]
<1>1. IInv /\ TypeInv /\ ResumeInv => Resumes
  <2> SUFFICES ASSUME IInv, TypeInv, ResumeInv, NEW k \in Claims, Hydrate(k)
               PROVE  slot'[req[k].at] = newest[mounted[k]]
    OBVIOUS
  <2>1. req[k].pc = "hydrate" /\ slot' = [slot EXCEPT ![req[k].at] = Latest(mounted[k])]
    BY DEF Hydrate, Hydrated, Resuming
  <2>2. mounted[k] \in Claims /\ slot \in [Containers -> Contents]
    BY <2>1 DEF TypeInv, HasCardInv, CardTypeOK
  <2>3. req[k].at \in Containers
    BY <2>1, ReqFacts DEF ReqOK
  <2> QED BY <2>1, <2>2, <2>3 DEF ResumeInv, NewestInv
<1>2. IInv /\ LaunchInv /\ PlayInv /\ TypeInv /\ CardInv /\ ResumeInv /\ [CardNext]_allVars =>
        [Resumes]_allVars
  BY <1>1
<1> QED BY <1>2, ResumeInvariance, PTL DEF CardSpec, ResumesLastPlayed, allVars, CardNext
=============================================================================
