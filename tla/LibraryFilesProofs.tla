------------------------ MODULE LibraryFilesProofs ------------------------
(***************************************************************************)
(* Proofs about the files of the library: what completed uploads leave     *)
(* there, for any uploads, chunks and requests, and where the promotion of *)
(* a game to a folder leaves its file, for any requests and failures.  A   *)
(* completion asks for a promotion before it assembles its chunks; the two *)
(* share no state, and each part of this module stands by itself.          *)
(***************************************************************************)
EXTENDS ChunkedUpload, RomPromotion, TLAPS

Completing == {w \in Uploads \X UNION {Completers[u] : u \in Uploads} : w[2] \in Completers[w[1]]}

Replacing(w) == job[w[1]][w[2]].pc = "replacing"

\* A completion about to rename has its placeholder at the destination, and has read
\* enough.
OwnPlaceholder ==
  \A w \in Completing : Replacing(w) =>
    lib[Target[w[1]]] = Empty(w[1]) /\ job[w[1]][w[2]].data # "short"

\* No two completions are about to rename to one path.
SoleReplacer ==
  \A w, v \in Completing :
    Replacing(w) /\ Replacing(v) /\ Target[w[1]] = Target[v[1]] => w = v

\* A placeholder is some completion's, there or dead.
PlaceholderOwned ==
  \A p \in Paths : lib[p] # None /\ lib[p].data = "empty" =>
    \E w \in Completing :
      /\ w[1] = lib[p].by /\ Target[w[1]] = p
      /\ job[w[1]][w[2]].pc \in {"replacing", "cut"}

Landing == OwnPlaceholder /\ SoleReplacer /\ PlaceholderOwned /\ PublishedFullLength

\* The inductive invariant.
IInv == TypeOK /\ Landing

-----------------------------------------------------------------------------
(* Completions. *)

LEMMA CompletingPairs ==
  ASSUME NEW u \in Uploads, NEW r \in Completers[u]
  PROVE  <<u, r>> \in Completing
BY DEF Completing

\* A step that leaves the library alone, brings no completion to its rename and ends
\* none there but by death, leaves every placeholder its owner.
LEMMA LandingKept ==
  ASSUME Landing, lib' = lib,
         \A w \in Completing : Replacing(w)' => job'[w[1]][w[2]] = job[w[1]][w[2]],
         \A w \in Completing : job[w[1]][w[2]].pc \in {"replacing", "cut"} =>
                                 job'[w[1]][w[2]].pc \in {"replacing", "cut"}
  PROVE  Landing'
<1>1. OwnPlaceholder'
  BY DEF Landing, OwnPlaceholder, Replacing
<1>2. SoleReplacer'
  BY DEF Landing, SoleReplacer, Replacing
<1>3. PlaceholderOwned'
  BY DEF Landing, PlaceholderOwned
<1>4. PublishedFullLength'
  BY DEF Landing, PublishedFullLength
<1> QED BY <1>1, <1>2, <1>3, <1>4 DEF Landing

\* A completion in no such place goes on to no such place.
LEMMA LandingMoved ==
  ASSUME TypeOK, Landing, lib' = lib,
         NEW u \in Uploads, NEW r \in Completers[u], NEW s,
         job' = [job EXCEPT ![u][r] = s],
         s.pc # "replacing", s.pc = "cut" \/ job[u][r].pc \notin {"replacing", "cut"}
  PROVE  Landing'
<1>1. \A w \in Completing : w # <<u, r>> => job'[w[1]][w[2]] = job[w[1]][w[2]]
  BY DEF TypeOK, Completing
<1>2. job'[u][r] = s
  BY DEF TypeOK
<1> QED BY <1>1, <1>2, LandingKept DEF Replacing

\* The same for the types: the job of one completion is replaced.
LEMMA JobType ==
  ASSUME TypeOK, NEW u \in Uploads, NEW r \in Completers[u], NEW s \in JobState,
         job' = [job EXCEPT ![u][r] = s]
  PROVE  /\ DOMAIN job' = Uploads
         /\ \A v \in Uploads : job'[v] \in [Completers[v] -> JobState]
BY DEF TypeOK

\* Where a file has gone its writers keep their places.
LEMMA UnlinkedType ==
  ASSUME NEW T, NEW of \in [T -> PutState]
  PROVE  Unlinked(of) \in [T -> PutState]
BY DEF Unlinked, PutState, Writing

LEMMA RemoveTmpType ==
  ASSUME TypeOK, NEW u \in Uploads, RemoveTmp(u)
  PROVE  /\ tmp' \in [Uploads -> BOOLEAN]
         /\ DOMAIN file' = Uploads /\ DOMAIN put' = Uploads
         /\ \A v \in Uploads : /\ file'[v] \in [Chunks(v) -> Contents \cup {None}]
                               /\ put'[v] \in [Chunks(v) -> [Tries(v) -> PutState]]
<1>1. \A i \in Chunks(u) : Unlinked(put[u][i]) \in [Tries(u) -> PutState]
  BY UnlinkedType DEF TypeOK
<1> QED BY <1>1 DEF TypeOK, RemoveTmp

-----------------------------------------------------------------------------
LEMMA InitInv == Init => IInv
<1> SUFFICES ASSUME Init PROVE IInv
  OBVIOUS
<1>1. TypeOK
  BY BoundsAssumption DEF Init, TypeOK, JobState, Contents, PutState
<1>2. \A w \in Completing : job[w[1]][w[2]].pc = "idle"
  BY DEF Init, Completing
<1>3. Landing
  BY <1>2 DEF Init, Landing, OwnPlaceholder, SoleReplacer, PlaceholderOwned,
              PublishedFullLength, Replacing
<1> QED BY <1>1, <1>3 DEF IInv

-----------------------------------------------------------------------------
(* Types of what the completions and the library are not. *)

RestType ==
  /\ session \in [Uploads -> {"none", "live", "gone"}]
  /\ tmp \in [Uploads -> BOOLEAN]
  /\ cancel \in [Uploads -> {"idle", "read", "over"}] /\ mishaps \in 0..MaxMishaps
  /\ \A f \in {received, file, put} : DOMAIN f = Uploads
  /\ \A u \in Uploads :
       /\ received[u] \subseteq Chunks(u)
       /\ file[u] \in [Chunks(u) -> Contents \cup {None}]
       /\ put[u] \in [Chunks(u) -> [Tries(u) -> PutState]]

LEMMA TypeRest == TypeOK => RestType
BY DEF TypeOK, RestType

\* Steps of the chunks, the client and the clock: no completion, no library.
LEMMA RestInv ==
  ASSUME IInv, RestType', UNCHANGED <<job, lib>>
  PROVE  IInv'
<1>1. TypeOK'
  BY DEF IInv, TypeOK, RestType
<1>2. Landing'
  BY LandingKept DEF IInv
<1> QED BY <1>1, <1>2 DEF IInv

\* A step of a completion away from the library.
LEMMA JobInv ==
  ASSUME IInv, RestType', lib' = lib,
         NEW u \in Uploads, NEW r \in Completers[u], NEW s \in JobState,
         job' = [job EXCEPT ![u][r] = s],
         s.pc # "replacing", s.pc = "cut" \/ job[u][r].pc \notin {"replacing", "cut"}
  PROVE  IInv'
<1>1. TypeOK'
  BY JobType DEF IInv, TypeOK, RestType
<1>2. Landing'
  BY LandingMoved DEF IInv
<1> QED BY <1>1, <1>2 DEF IInv

LEMMA StartInv == ASSUME NEW u \in Uploads, IInv, Start(u) PROVE IInv'
<1>1. RestType'
  BY TypeRest DEF IInv, Start, RestType
<1> QED BY <1>1, RestInv DEF Start

LEMMA PutType ==
  ASSUME RestType, NEW u \in Uploads, NEW i \in Chunks(u), NEW of \in [Tries(u) -> PutState],
         put' = [put EXCEPT ![u][i] = of]
  PROVE  /\ DOMAIN put' = Uploads
         /\ \A v \in Uploads : put'[v] \in [Chunks(v) -> [Tries(v) -> PutState]]
BY DEF RestType

LEMMA FileType ==
  ASSUME RestType, NEW u \in Uploads, NEW i \in Chunks(u), NEW c \in Contents \cup {None},
         file' = [file EXCEPT ![u][i] = c]
  PROVE  /\ DOMAIN file' = Uploads
         /\ \A v \in Uploads : file'[v] \in [Chunks(v) -> Contents \cup {None}]
BY DEF RestType

LEMMA SendInv ==
  ASSUME NEW u \in Uploads, NEW i \in Chunks(u), NEW n \in Tries(u), IInv, Send(u, i, n)
  PROVE  IInv'
<1>1. RestType
  BY TypeRest DEF IInv
<1>2. put' = [put EXCEPT ![u][i] = [put[u][i] EXCEPT ![n] = "ready"]]
  BY Zenon DEF Send
<1>3. [put[u][i] EXCEPT ![n] = "ready"] \in [Tries(u) -> PutState]
  BY <1>1 DEF RestType, PutState
<1>4. RestType'
  BY <1>1, <1>2, <1>3, PutType DEF Send, RestType
<1> QED BY <1>4, RestInv DEF Send

LEMMA OpenInv ==
  ASSUME NEW u \in Uploads, NEW i \in Chunks(u), NEW n \in Tries(u), IInv, Open(u, i, n)
  PROVE  IInv'
<1> DEFINE of == [o \in Tries(u) |->
                    IF o = n THEN "open"
                    ELSE IF put[u][i][o] = "open" THEN "lag" ELSE put[u][i][o]]
<1>1. RestType
  BY TypeRest DEF IInv
<1>2. put' = [put EXCEPT ![u][i] = of] /\ file' = [file EXCEPT ![u][i] = "short"]
  BY Zenon DEF Open
<1>3. of \in [Tries(u) -> PutState]
  BY <1>1 DEF RestType, PutState, Writing
<1> HIDE DEF of
<1>4. "short" \in Contents \cup {None}
  BY DEF Contents
<1>5. RestType'
  BY <1>1, <1>2, <1>3, <1>4, PutType, FileType DEF Open, RestType
<1> QED BY <1>5, RestInv DEF Open

LEMMA FinishInv ==
  ASSUME NEW u \in Uploads, NEW i \in Chunks(u), NEW n \in Tries(u), IInv, Finish(u, i, n)
  PROVE  IInv'
<1> DEFINE was == file[u][i]
           is  == CASE put[u][i][n] = "open" -> "whole"
                    [] put[u][i][n] = "lag"  -> IF was = "short" THEN "holed" ELSE was
                    [] OTHER -> was
<1>1. RestType
  BY TypeRest DEF IInv
<1>2. /\ file' = [file EXCEPT ![u][i] = is]
      /\ put' = [put EXCEPT ![u][i] = [put[u][i] EXCEPT ![n] = "done"]]
  BY Zenon DEF Finish
<1>3. [put[u][i] EXCEPT ![n] = "done"] \in [Tries(u) -> PutState]
  BY <1>1 DEF RestType, PutState
<1>4. is \in Contents \cup {None}
  BY <1>1 DEF RestType, Contents
<1> HIDE DEF is
<1>5. RestType'
  BY <1>1, <1>2, <1>3, <1>4, PutType, FileType DEF Finish, RestType
<1> QED BY <1>5, RestInv DEF Finish

LEMMA FailInv ==
  ASSUME NEW u \in Uploads, NEW i \in Chunks(u), NEW n \in Tries(u), IInv, Fail(u, i, n)
  PROVE  IInv'
<1> DEFINE of == [Unlinked(put[u][i]) EXCEPT ![n] = "failed"]
<1>1. RestType
  BY TypeRest DEF IInv
<1>2. put' = [put EXCEPT ![u][i] = of] /\ file' = [file EXCEPT ![u][i] = None]
  BY Zenon DEF Fail
<1>3. of \in [Tries(u) -> PutState]
  BY <1>1, UnlinkedType DEF RestType, PutState
<1> HIDE DEF of
<1>4. mishaps' \in 0..MaxMishaps
  BY <1>1, BoundsAssumption DEF Fail, RestType
<1>5. /\ DOMAIN file' = Uploads /\ DOMAIN put' = Uploads
      /\ \A v \in Uploads : /\ file'[v] \in [Chunks(v) -> Contents \cup {None}]
                            /\ put'[v] \in [Chunks(v) -> [Tries(v) -> PutState]]
  BY <1>1, <1>2, <1>3, PutType, FileType
<1>6. RestType'
  BY <1>1, <1>4, <1>5 DEF Fail, RestType
<1> QED BY <1>6, RestInv DEF Fail

-----------------------------------------------------------------------------
(* A completion up to the library. *)

\* A completion that goes on.
LEMMA GoInv ==
  ASSUME NEW u \in Uploads, NEW r \in Completers[u], IInv, RestType', lib' = lib,
         NEW step \in {"counted", "claimed", "reading", "over"}, Go(u, r, step),
         job[u][r].pc \notin {"replacing", "cut"}
  PROVE  IInv'
<1> DEFINE s == [job[u][r] EXCEPT !.pc = step]
<1>1. job' = [job EXCEPT ![u][r] = s]
  BY Zenon DEF Go
<1>2. job[u][r] \in JobState
  BY DEF IInv, TypeOK
<1>3. s \in JobState /\ s.pc = step
  BY <1>2 DEF JobState
<1> HIDE DEF s
<1> QED BY <1>1, <1>3, JobInv

\* A completion that gives up or is cut short.
LEMMA QuitInv ==
  ASSUME NEW u \in Uploads, NEW r \in Completers[u], IInv, RestType', lib' = lib,
         NEW step \in {"cleaning", "over", "cut"}, Quit(u, r, step),
         step = "cut" \/ job[u][r].pc \notin {"replacing", "cut"}
  PROVE  IInv'
<1> DEFINE s == [pc |-> step, next |-> 1, data |-> "whole"]
<1>1. s \in JobState /\ s.pc = step
  BY DEF JobState, Contents
<1>2. job' = [job EXCEPT ![u][r] = s]
  BY Zenon DEF Quit
<1> HIDE DEF s
<1> QED BY <1>1, <1>2, JobInv

LEMMA CountInv ==
  ASSUME NEW u \in Uploads, NEW r \in Completers[u], IInv, Count(u, r) PROVE IInv'
<1>1. PICK step \in {"counted", "over"} : Go(u, r, step)
  BY DEF Count
<1>2. RestType'
  BY TypeRest DEF IInv, Count, RestType
<1>3. lib' = lib /\ job[u][r].pc = "idle"
  BY DEF Count, At
<1> QED BY <1>1, <1>2, <1>3, GoInv

LEMMA ClaimInv ==
  ASSUME NEW u \in Uploads, NEW r \in Completers[u], IInv, Claim(u, r) PROVE IInv'
<1>1. PICK step \in {"claimed", "over"} : Go(u, r, step)
  BY DEF Claim
<1>2. RestType'
  BY TypeRest DEF IInv, Claim, RestType
<1>3. lib' = lib /\ job[u][r].pc = "counted"
  BY DEF Claim, At
<1> QED BY <1>1, <1>2, <1>3, GoInv

LEMMA ResolveInv ==
  ASSUME NEW u \in Uploads, NEW r \in Completers[u], IInv, Resolve(u, r) PROVE IInv'
<1>1. RestType'
  BY TypeRest DEF IInv, Resolve, RestType
<1>2. lib' = lib /\ job[u][r].pc = "claimed"
  BY DEF Resolve, At
<1>3. CASE Go(u, r, "reading")
  BY <1>1, <1>2, <1>3, GoInv
<1>4. CASE \E step \in {"cleaning", "over"} : Quit(u, r, step)
  BY <1>1, <1>2, <1>4, QuitInv
<1> QED BY <1>3, <1>4 DEF Resolve

LEMMA ReadInv ==
  ASSUME NEW u \in Uploads, NEW r \in Completers[u], IInv, Read(u, r) PROVE IInv'
<1> DEFINE i == job[u][r].next
           s == [pc |-> IF i = Total[u] THEN "checked" ELSE "reading", next |-> i + 1,
                 data |-> Worse(job[u][r].data, file[u][i])]
<1>1. RestType'
  BY TypeRest DEF IInv, Read, RestType
<1>2. lib' = lib /\ job[u][r].pc = "reading" /\ job[u][r] \in JobState
  BY DEF Read, At, IInv, TypeOK
<1>3. CASE Quit(u, r, "cleaning")
  BY <1>1, <1>2, <1>3, QuitInv
<1>4. CASE ~Quit(u, r, "cleaning")
  <2>1. job' = [job EXCEPT ![u][r].data = Worse(@, file[u][i]), ![u][r].next = i + 1,
                           ![u][r].pc = IF i = Total[u] THEN "checked" ELSE @]
    BY <1>4 DEF Read
  <2>2. \A v \in Uploads : job[v] \in [Completers[v] -> JobState]
    BY DEF IInv, TypeOK
  <2>3. DOMAIN job = Uploads
    BY DEF IInv, TypeOK
  <2>4. job' = [job EXCEPT ![u][r] = s]
    BY <1>2, <2>1, <2>2, <2>3 DEF JobState
  <2>5. Worse(job[u][r].data, file[u][i]) \in Contents
    BY DEF Worse, Contents
  <2>6. s \in JobState
    BY <1>2, <2>5 DEF JobState
  <2>7. s.pc \in {"checked", "reading"}
    BY <1>2 DEF JobState
  <2> HIDE DEF s
  <2> QED BY <1>1, <1>2, <2>4, <2>6, <2>7, JobInv
<1> QED BY <1>3, <1>4

\* A body's chunk gone, or everything put away.
LEMMA CleanupStateType ==
  ASSUME IInv, NEW u \in Uploads, CleanupState(u)
  PROVE  /\ tmp' \in [Uploads -> BOOLEAN]
         /\ \A f \in {received, file, put}' : DOMAIN f = Uploads
         /\ \A v \in Uploads :
              /\ received'[v] \subseteq Chunks(v)
              /\ file'[v] \in [Chunks(v) -> Contents \cup {None}]
              /\ put'[v] \in [Chunks(v) -> [Tries(v) -> PutState]]
<1>1. RemoveTmp(u) /\ received' = [received EXCEPT ![u] = {}]
  BY DEF CleanupState
<1> QED BY <1>1, RemoveTmpType, TypeRest DEF IInv, RestType

LEMMA CleanInv ==
  ASSUME NEW u \in Uploads, NEW r \in Completers[u], IInv, Clean(u, r) PROVE IInv'
<1>1. RestType'
  BY CleanupStateType, TypeRest DEF IInv, Clean, RestType
<1>2. lib' = lib /\ job[u][r].pc = "cleaning" /\ Quit(u, r, "over")
  BY DEF Clean, At
<1> QED BY <1>1, <1>2, QuitInv

-----------------------------------------------------------------------------
(* What else happens. *)

LEMMA CancelReadInv == ASSUME NEW u \in Uploads, IInv, CancelRead(u) PROVE IInv'
<1>1. RestType'
  BY TypeRest DEF IInv, CancelRead, RestType
<1> QED BY <1>1, RestInv DEF CancelRead

LEMMA CancelCleanInv == ASSUME NEW u \in Uploads, IInv, CancelClean(u) PROVE IInv'
<1>1. RestType'
  BY CleanupStateType, TypeRest DEF IInv, CancelClean, RestType
<1> QED BY <1>1, RestInv DEF CancelClean

LEMMA ExpireInv == ASSUME NEW u \in Uploads, IInv, Expire(u) PROVE IInv'
<1>1. RestType'
  BY TypeRest DEF IInv, Expire, RestType
<1> QED BY <1>1, RestInv DEF Expire

LEMMA CleanupTaskInv == ASSUME NEW u \in Uploads, IInv, CleanupTask(u) PROVE IInv'
<1>1. RestType'
  BY RemoveTmpType, TypeRest DEF IInv, CleanupTask, RestType
<1> QED BY <1>1, RestInv DEF CleanupTask

LEMMA CrashInv == ASSUME NEW u \in Uploads, IInv, Crash(u) PROVE IInv'
<1>1. RestType
  BY TypeRest DEF IInv
<1>2. mishaps' \in 0..MaxMishaps
  BY <1>1, BoundsAssumption DEF Crash, RestType
<1>3. UNCHANGED <<session, received, tmp, file, lib>>
  BY DEF Crash
<1>4. CASE \E i \in Chunks(u), n \in Tries(u) :
             put' = [put EXCEPT ![u][i][n] = "failed"] /\ UNCHANGED <<job, cancel>>
  <2>1. PICK i \in Chunks(u), n \in Tries(u) :
          put' = [put EXCEPT ![u][i][n] = "failed"] /\ UNCHANGED <<job, cancel>>
    BY <1>4
  <2>2. put' = [put EXCEPT ![u][i] = [put[u][i] EXCEPT ![n] = "failed"]]
    BY Zenon, <2>1
  <2>3. [put[u][i] EXCEPT ![n] = "failed"] \in [Tries(u) -> PutState]
    BY <1>1 DEF RestType, PutState
  <2>4. RestType'
    BY <1>1, <1>2, <1>3, <2>1, <2>2, <2>3, PutType DEF RestType
  <2> QED BY <1>3, <2>1, <2>4, RestInv
<1>5. CASE \E r \in Completers[u] : Quit(u, r, "cut") /\ UNCHANGED <<put, cancel>>
  <2>1. RestType'
    BY <1>1, <1>2, <1>3, <1>5 DEF RestType
  <2> QED BY <1>3, <1>5, <2>1, QuitInv
<1>6. CASE cancel' = [cancel EXCEPT ![u] = "over"] /\ UNCHANGED <<put, job>>
  <2>1. RestType'
    BY <1>1, <1>2, <1>3, <1>6 DEF RestType
  <2> QED BY <1>3, <1>6, <2>1, RestInv
<1> QED BY <1>4, <1>5, <1>6 DEF Crash

-----------------------------------------------------------------------------
(* A completion at the library. *)

LEMMA EmptyInLib == ASSUME NEW u \in Uploads PROVE Empty(u) \in InLib /\ Empty(u) # None
BY NoneAssumption DEF Empty, InLib

\* The completion that finds its destination free is the only one there.
LEMMA PlaceholderLanding ==
  ASSUME TypeOK, Landing, NEW u \in Uploads, NEW r \in Completers[u], NEW s \in JobState,
         job' = [job EXCEPT ![u][r] = s], lib' = [lib EXCEPT ![Target[u]] = Empty(u)],
         s.pc = "replacing", s.data # "short", job[u][r].pc = "checked",
         lib[Target[u]] = None
  PROVE  Landing'
<1>1. /\ job'[u][r] = s /\ lib'[Target[u]] = Empty(u)
      /\ \A w \in Completing : w # <<u, r>> => job'[w[1]][w[2]] = job[w[1]][w[2]]
      /\ \A p \in Paths : p # Target[u] => lib'[p] = lib[p]
  BY DEF TypeOK, Completing, Paths
<1>2. \A w \in Completing : w[1] \in Uploads /\ Target[w[1]] \in Paths
  BY DEF Completing, Paths
<1>3. \A w \in Completing : Replacing(w) => Target[w[1]] # Target[u]
  BY <1>2, EmptyInLib DEF Landing, OwnPlaceholder
<1>4. <<u, r>> \in Completing
  BY CompletingPairs
<1>5. \A w \in Completing : Replacing(w)' => w = <<u, r>> \/ Replacing(w)
  BY <1>1 DEF Replacing
<1>6. OwnPlaceholder'
  BY <1>1, <1>2, <1>3, <1>5 DEF Landing, OwnPlaceholder
<1>7. SoleReplacer'
  BY <1>3, <1>4, <1>5 DEF Landing, SoleReplacer
<1>8. PlaceholderOwned'
  <2> SUFFICES ASSUME NEW p \in Paths, lib'[p] # None, lib'[p].data = "empty"
               PROVE  \E w \in Completing :
                        /\ w[1] = lib'[p].by /\ Target[w[1]] = p
                        /\ job'[w[1]][w[2]].pc \in {"replacing", "cut"}
    BY DEF PlaceholderOwned
  <2>1. CASE p = Target[u]
    BY <1>1, <1>4, <2>1 DEF Empty
  <2>2. CASE p # Target[u]
    <3>1. PICK w \in Completing : /\ w[1] = lib[p].by /\ Target[w[1]] = p
                                  /\ job[w[1]][w[2]].pc \in {"replacing", "cut"}
      BY <1>1, <2>2 DEF Landing, PlaceholderOwned
    <3>2. w # <<u, r>>
      BY <3>1, <2>2
    <3> QED BY <1>1, <2>2, <3>1, <3>2
  <2> QED BY <2>1, <2>2
<1>9. PublishedFullLength'
  BY <1>1 DEF Landing, PublishedFullLength, Empty
<1> QED BY <1>6, <1>7, <1>8, <1>9 DEF Landing

\* The rename, or its failure, puts an end to the placeholder.
LEMMA ReplacedLanding ==
  ASSUME TypeOK, Landing, NEW u \in Uploads, NEW r \in Completers[u], NEW s \in JobState,
         NEW e \in InLib \cup {None},
         job' = [job EXCEPT ![u][r] = s], lib' = [lib EXCEPT ![Target[u]] = e],
         s.pc = "cleaning", job[u][r].pc = "replacing",
         e # None => e.data \notin {"short", "empty"}
  PROVE  Landing'
<1>1. /\ job'[u][r] = s /\ lib'[Target[u]] = e
      /\ \A w \in Completing : w # <<u, r>> => job'[w[1]][w[2]] = job[w[1]][w[2]]
      /\ \A p \in Paths : p # Target[u] => lib'[p] = lib[p]
  BY DEF TypeOK, Completing, Paths
<1>2. <<u, r>> \in Completing /\ Replacing(<<u, r>>)
  BY CompletingPairs DEF Replacing
<1>3. \A w \in Completing : Replacing(w)' => w # <<u, r>> /\ Replacing(w)
  BY <1>1 DEF Replacing
<1>4. \A w \in Completing : Replacing(w)' => Target[w[1]] # Target[u]
  BY <1>2, <1>3 DEF Landing, SoleReplacer
<1>5. \A w \in Completing : w[1] \in Uploads /\ Target[w[1]] \in Paths
  BY DEF Completing, Paths
<1>6. OwnPlaceholder'
  BY <1>1, <1>3, <1>4, <1>5 DEF Landing, OwnPlaceholder
<1>7. SoleReplacer'
  BY <1>3 DEF Landing, SoleReplacer
<1>8. PlaceholderOwned'
  <2> SUFFICES ASSUME NEW p \in Paths, lib'[p] # None, lib'[p].data = "empty"
               PROVE  \E w \in Completing :
                        /\ w[1] = lib'[p].by /\ Target[w[1]] = p
                        /\ job'[w[1]][w[2]].pc \in {"replacing", "cut"}
    BY DEF PlaceholderOwned
  <2>1. p # Target[u]
    BY <1>1
  <2>2. PICK w \in Completing : /\ w[1] = lib[p].by /\ Target[w[1]] = p
                                /\ job[w[1]][w[2]].pc \in {"replacing", "cut"}
    BY <1>1, <2>1 DEF Landing, PlaceholderOwned
  <2>3. w # <<u, r>>
    BY <2>1, <2>2
  <2> QED BY <1>1, <2>1, <2>2, <2>3
<1>9. PublishedFullLength'
  BY <1>1 DEF Landing, PublishedFullLength
<1> QED BY <1>6, <1>7, <1>8, <1>9 DEF Landing

LEMMA LibraryType ==
  ASSUME IInv, RestType', NEW u \in Uploads, NEW r \in Completers[u], NEW s \in JobState,
         NEW e \in InLib \cup {None},
         job' = [job EXCEPT ![u][r] = s], lib' = [lib EXCEPT ![Target[u]] = e]
  PROVE  TypeOK'
<1>1. lib' \in [Paths -> InLib \cup {None}]
  BY DEF IInv, TypeOK, Paths
<1> QED BY <1>1, JobType DEF IInv, TypeOK, RestType

LEMMA ClaimDestinationInv ==
  ASSUME NEW u \in Uploads, NEW r \in Completers[u], IInv, ClaimDestination(u, r)
  PROVE  IInv'
<1> DEFINE s == [job[u][r] EXCEPT !.pc = "replacing"]
<1>1. RestType'
  BY TypeRest DEF IInv, ClaimDestination, RestType
<1>2. job[u][r].pc = "checked" /\ job[u][r] \in JobState
  BY DEF ClaimDestination, At, IInv, TypeOK
<1>3. CASE Quit(u, r, "cleaning") /\ UNCHANGED lib
  BY <1>1, <1>2, <1>3, QuitInv
<1>4. CASE /\ job[u][r].data # "short" /\ lib[Target[u]] = None
           /\ Go(u, r, "replacing") /\ lib' = [lib EXCEPT ![Target[u]] = Empty(u)]
  <2>1. job' = [job EXCEPT ![u][r] = s]
    BY Zenon, <1>4 DEF Go
  <2>2. s \in JobState /\ s.pc = "replacing" /\ s.data = job[u][r].data
    BY <1>2 DEF JobState
  <2> HIDE DEF s
  <2> QED BY <1>1, <1>2, <1>4, <2>1, <2>2, EmptyInLib, LibraryType, PlaceholderLanding DEF IInv
<1> QED BY <1>3, <1>4 DEF ClaimDestination

LEMMA ReplaceInv ==
  ASSUME NEW u \in Uploads, NEW r \in Completers[u], IInv, Replace(u, r) PROVE IInv'
<1> DEFINE s == [pc |-> "cleaning", next |-> 1, data |-> "whole"]
           f == [by |-> u, data |-> job[u][r].data]
<1>1. RestType'
  BY TypeRest DEF IInv, Replace, RestType
<1>2. job[u][r].pc = "replacing" /\ job[u][r] \in JobState
  BY DEF Replace, At, IInv, TypeOK
<1>3. job[u][r].data # "short"
  BY <1>2, CompletingPairs DEF IInv, Landing, OwnPlaceholder, Replacing
<1>4. f \in InLib /\ f.data \notin {"short", "empty"}
  BY <1>2, <1>3 DEF InLib, JobState, Contents
<1>5. job' = [job EXCEPT ![u][r] = s]
  BY Zenon DEF Replace, Quit
<1>6. s \in JobState /\ s.pc = "cleaning"
  BY DEF JobState, Contents
<1>7. \E e \in {f, None} : lib' = [lib EXCEPT ![Target[u]] = e]
  BY DEF Replace
<1> HIDE DEF s, f
<1>8. PICK e \in InLib \cup {None} : /\ lib' = [lib EXCEPT ![Target[u]] = e]
                                     /\ e # None => e.data \notin {"short", "empty"}
  BY <1>4, <1>7
<1> QED BY <1>1, <1>2, <1>5, <1>6, <1>8, LibraryType, ReplacedLanding DEF IInv

LEMMA NextInv == IInv /\ [Next]_vars => IInv'
<1> SUFFICES ASSUME IInv, [Next]_vars PROVE IInv'
  OBVIOUS
<1>1. ASSUME NEW u \in Uploads, Own(u) PROVE IInv'
  BY <1>1, OpenInv, FinishInv, FailInv, ClaimInv, ResolveInv, ReadInv, ClaimDestinationInv,
     ReplaceInv, CleanInv, CancelCleanInv, ExpireInv, CleanupTaskInv DEF Own, PutStep, JobStep
<1>2. ASSUME NEW u \in Uploads,
             \/ Start(u) \/ CancelRead(u) \/ Crash(u)
             \/ \E i \in Chunks(u), n \in Tries(u) : Send(u, i, n)
             \/ \E r \in Completers[u] : Count(u, r)
      PROVE  IInv'
  BY <1>2, StartInv, CancelReadInv, CrashInv, SendInv, CountInv
<1>3. CASE UNCHANGED vars
  <2>1. RestType'
    BY <1>3, TypeRest DEF IInv, RestType, vars
  <2> QED BY <1>3, <2>1, RestInv DEF vars
<1> QED BY <1>1, <1>2, <1>3 DEF Next

-----------------------------------------------------------------------------
\* Whatever uploads overlap, break off, are sent again, cancelled or cut short: a
\* completion at the library is alone at its path.
THEOREM UploadInvariance == Spec => []IInv
BY InitInv, NextInv, PTL DEF Spec

\* Every variable keeps to its type.
THEOREM UploadTypes == Spec => []TypeOK
<1>1. IInv => TypeOK
  BY DEF IInv
<1> QED BY <1>1, UploadInvariance, PTL

\* Nothing short of a chunk's length is published.  (complete_chunked_upload 480-497)
THEOREM UploadPublishedFullLength == Spec => []PublishedFullLength
<1>1. IInv => PublishedFullLength
  BY DEF IInv, Landing
<1> QED BY <1>1, UploadInvariance, PTL

\* A placeholder is about to be replaced, or its worker died.
\* (complete_chunked_upload 499-508)
THEOREM UploadNoPlaceholderLeft == Spec => []NoPlaceholderLeft
<1>1. IInv => NoPlaceholderLeft
  <2> SUFFICES ASSUME IInv, NEW p \in Paths, lib[p] # None, lib[p].data = "empty"
               PROVE  \E r \in Completers[lib[p].by] :
                        job[lib[p].by][r].pc \in {"replacing", "cut"}
    BY DEF NoPlaceholderLeft
  <2>1. PICK w \in Completing : /\ w[1] = lib[p].by
                                /\ job[w[1]][w[2]].pc \in {"replacing", "cut"}
    BY DEF IInv, Landing, PlaceholderOwned
  <2>2. w[2] \in Completers[w[1]]
    BY DEF Completing
  <2> QED BY <2>1, <2>2
<1> QED BY <1>1, UploadInvariance, PTL

\* No completion overwrites what another published.  (_claim_destination)
THEOREM UploadNeverOverwritten == Spec => NeverOverwritten
<1> DEFINE Kept == \A p \in Paths : lib[p] # None /\ lib[p].data # "empty" => lib'[p] = lib[p]
<1>1. IInv /\ [Next]_vars => Kept
  <2> SUFFICES ASSUME IInv, [Next]_vars, NEW p \in Paths, lib[p] # None, lib[p].data # "empty"
               PROVE  lib'[p] = lib[p]
    OBVIOUS
  <2>1. ASSUME NEW u \in Uploads, NEW r \in Completers[u], ClaimDestination(u, r)
        PROVE  lib'[p] = lib[p]
    BY <2>1 DEF ClaimDestination, IInv, TypeOK
  <2>2. ASSUME NEW u \in Uploads, NEW r \in Completers[u], Replace(u, r)
        PROVE  lib'[p] = lib[p]
    <3>1. lib[Target[u]] = Empty(u)
      BY <2>2, CompletingPairs DEF Replace, At, IInv, Landing, OwnPlaceholder, Replacing
    <3>2. p # Target[u]
      BY <3>1 DEF Empty
    <3> QED BY <2>2, <3>2 DEF Replace, IInv, TypeOK
  <2>3. CASE lib' = lib
    BY <2>3
  <2>4. \/ lib' = lib
        \/ \E u \in Uploads : \E r \in Completers[u] : ClaimDestination(u, r) \/ Replace(u, r)
    <3>1. ASSUME NEW u \in Uploads, PutStep(u) PROVE lib' = lib
      BY <3>1 DEF PutStep, Open, Finish, Fail
    <3>2. ASSUME NEW u \in Uploads, NEW r \in Completers[u],
                 Claim(u, r) \/ Resolve(u, r) \/ Read(u, r) \/ Clean(u, r) \/ Count(u, r)
          PROVE  lib' = lib
      BY <3>2 DEF Claim, Resolve, Read, Clean, Count
    <3>3. ASSUME NEW u \in Uploads, NEW i, NEW n,
                 \/ Start(u) \/ Send(u, i, n) \/ CancelRead(u) \/ CancelClean(u)
                 \/ Crash(u) \/ Expire(u) \/ CleanupTask(u)
          PROVE  lib' = lib
      BY <3>3 DEF Start, Send, CancelRead, CancelClean, Crash, Expire, CleanupTask
    <3>4. CASE UNCHANGED vars
      BY <3>4 DEF vars
    <3> QED BY <3>1, <3>2, <3>3, <3>4 DEF Next, Own, JobStep
  <2> QED BY <2>1, <2>2, <2>3, <2>4
<1>2. IInv /\ [Next]_vars => [Kept]_vars
  BY <1>1
<1>3. [][Next]_vars /\ []IInv => [][Kept]_vars
  BY <1>2, PTL
<1> QED BY <1>3, UploadInvariance, PTL DEF Spec, NeverOverwritten

-----------------------------------------------------------------------------
(* Uploads implement LibraryPaths. *)

\* Only one completion of an upload gets to assemble it, and none while its session is there.
SoleAssembler ==
  \A u \in Uploads :
    /\ \A r, s \in Completers[u] : Assembling(u, r) /\ Assembling(u, s) => r = s
    /\ session[u] # "gone" => \A r \in Completers[u] : ~Assembling(u, r)

\* A step of u that lets nobody begin to assemble.
Keeps(u) ==
  /\ \A v \in Uploads \ {u} : session'[v] = session[v] /\ job'[v] = job[v]
  /\ session'[u] # "gone" => session[u] # "gone"
  /\ \A r \in Completers[u] : Assembling(u, r)' => Assembling(u, r)

LEMMA KeepsFacts ==
  ASSUME SoleAssembler, NEW u \in Uploads, Keeps(u)
  PROVE  /\ SoleAssembler'
         /\ Entitled' \subseteq Entitled /\ Entitled \ {u} \subseteq Entitled'
<1>1. \A v \in Uploads : /\ session'[v] # "gone" => session[v] # "gone"
                         /\ \A r \in Completers[v] : Assembling(v, r)' => Assembling(v, r)
  BY DEF Keeps, Assembling
<1>2. SoleAssembler'
  BY <1>1 DEF SoleAssembler
<1>3. Entitled' \subseteq Entitled
  BY <1>1 DEF Entitled
<1>4. Entitled \ {u} \subseteq Entitled'
  BY DEF Keeps, Entitled, Assembling
<1> QED BY <1>2, <1>3, <1>4

\* One completion moves.
LEMMA MovesKeep ==
  ASSUME TypeOK, NEW u \in Uploads, NEW r \in Completers[u], NEW s,
         job' = [job EXCEPT ![u][r] = s], UNCHANGED session,
         s.pc \in {"claimed", "reading", "checked"} => Assembling(u, r)
  PROVE  Keeps(u)
<1>1. /\ \A v \in Uploads \ {u} : job'[v] = job[v]
      /\ \A o \in Completers[u] : job'[u][o] = IF o = r THEN s ELSE job[u][o]
  BY DEF TypeOK
<1> QED BY <1>1 DEF Keeps, Assembling

LEMMA GoKeeps ==
  ASSUME TypeOK, NEW u \in Uploads, NEW r \in Completers[u], NEW step, Go(u, r, step),
         UNCHANGED session, step \in {"claimed", "reading", "checked"} => Assembling(u, r)
  PROVE  Keeps(u)
<1> DEFINE s == [job[u][r] EXCEPT !.pc = step]
<1>1. job' = [job EXCEPT ![u][r] = s]
  BY Zenon DEF Go
<1>2. s.pc = step
  BY DEF TypeOK, JobState
<1> HIDE DEF s
<1> QED BY <1>1, <1>2, MovesKeep

LEMMA QuitKeeps ==
  ASSUME TypeOK, NEW u \in Uploads, NEW r \in Completers[u],
         NEW step \in {"cleaning", "over", "cut"}, Quit(u, r, step), UNCHANGED session
  PROVE  Keeps(u)
<1> DEFINE s == [pc |-> step, next |-> 1, data |-> "whole"]
<1>1. job' = [job EXCEPT ![u][r] = s] /\ s.pc = step
  BY Zenon DEF Quit
<1> HIDE DEF s
<1> QED BY <1>1, MovesKeep

LEMMA ReadKeeps ==
  ASSUME TypeOK, NEW u \in Uploads, NEW r \in Completers[u], Read(u, r)
  PROVE  Keeps(u)
<1>1. UNCHANGED session /\ Assembling(u, r)
  BY DEF Read, At, Assembling
<1>2. CASE Quit(u, r, "cleaning")
  BY <1>1, <1>2, QuitKeeps
<1>3. CASE ~Quit(u, r, "cleaning")
  <2> DEFINE i == job[u][r].next
             data == Worse(job[u][r].data, file[u][i])
             step == IF i = Total[u] THEN "checked" ELSE job[u][r].pc
  <2>1. job' = [job EXCEPT ![u][r].data = data, ![u][r].next = i + 1, ![u][r].pc = step]
    BY <1>3 DEF Read
  <2> HIDE DEF i, data, step
  <2>2. /\ \A v \in Uploads \ {u} : job'[v] = job[v]
        /\ \A o \in Completers[u] \ {r} : job'[u][o] = job[u][o]
    BY <2>1 DEF TypeOK
  <2> QED BY <1>1, <2>2 DEF Keeps, Assembling
<1> QED BY <1>2, <1>3

\* The one delete that counts.
LEMMA ClaimSole ==
  ASSUME TypeOK, SoleAssembler, NEW u \in Uploads, NEW r \in Completers[u], Claim(u, r)
  PROVE  /\ SoleAssembler' /\ lib' = lib
         /\ Entitled' \subseteq Entitled /\ Entitled \ {u} \subseteq Entitled'
<1> DEFINE step == IF session[u] = "live" THEN "claimed" ELSE "over"
<1>1. job' = [job EXCEPT ![u][r] = [job[u][r] EXCEPT !.pc = step]]
  BY Zenon DEF Claim, Go
<1>2. /\ \A v \in Uploads \ {u} : session'[v] = session[v] /\ job'[v] = job[v]
      /\ session'[u] = "gone" /\ lib' = lib
      /\ \A o \in Completers[u] \ {r} : job'[u][o] = job[u][o]
      /\ job'[u][r].pc = step
  BY <1>1 DEF Claim, TypeOK, JobState
<1>3. ASSUME NEW o \in Completers[u], Assembling(u, o)'
      PROVE  Assembling(u, o) \/ (o = r /\ session[u] # "gone")
  BY <1>2, <1>3 DEF Assembling
<1>4. SoleAssembler'
  BY <1>2, <1>3 DEF SoleAssembler, Assembling
<1>5. Entitled' \subseteq Entitled /\ Entitled \ {u} \subseteq Entitled'
  BY <1>2, <1>3 DEF Entitled, Assembling
<1> QED BY <1>2, <1>4, <1>5

\* Every other step that leaves the library alone.
LEMMA OthersKeep ==
  ASSUME TypeOK, NEW u \in Uploads,
         \/ Start(u) \/ CancelRead(u) \/ Crash(u) \/ PutStep(u) \/ CancelClean(u)
         \/ Expire(u) \/ CleanupTask(u)
         \/ \E i \in Chunks(u), n \in Tries(u) : Send(u, i, n)
         \/ \E r \in Completers[u] : Count(u, r) \/ Resolve(u, r) \/ Read(u, r) \/ Clean(u, r)
  PROVE  Keeps(u) /\ lib' = lib
<1>1. ASSUME UNCHANGED <<session, job>> PROVE Keeps(u)
  BY <1>1 DEF Keeps, Assembling
<1>2. ASSUME \E step \in {"none", "live", "gone"} : session' = [session EXCEPT ![u] = step],
             UNCHANGED job, session'[u] # "gone" => session[u] # "gone"
      PROVE  Keeps(u)
  BY <1>2 DEF Keeps, Assembling, TypeOK
<1>3. CASE Start(u) \/ CancelClean(u) \/ Expire(u)
  <2>1. session'[u] # "gone" => session[u] # "gone"
    BY <1>3 DEF Start, CancelClean, Expire, TypeOK
  <2> QED BY <1>2, <1>3, <2>1 DEF Start, CancelClean, Expire
<1>4. CASE CancelRead(u) \/ PutStep(u) \/ CleanupTask(u)
  BY <1>1, <1>4 DEF CancelRead, PutStep, Open, Finish, Fail, CleanupTask
<1>5. CASE Crash(u)
  BY <1>1, <1>5, QuitKeeps DEF Crash
<1>6. CASE \E i \in Chunks(u), n \in Tries(u) : Send(u, i, n)
  BY <1>1, <1>6 DEF Send
<1>7. ASSUME NEW r \in Completers[u], Count(u, r) \/ Resolve(u, r) \/ Clean(u, r)
      PROVE  Keeps(u) /\ lib' = lib
  BY <1>7, GoKeeps, QuitKeeps DEF Count, Resolve, Clean, At, Assembling
<1>8. ASSUME NEW r \in Completers[u], Read(u, r)
      PROVE  Keeps(u) /\ lib' = lib
  BY <1>8, ReadKeeps DEF Read
<1> QED BY <1>3, <1>4, <1>5, <1>6, <1>7, <1>8

\* A step that leaves the library alone is a stutter of the paths, or an upload that
\* will not land.
LEMMA AloneIsGiveUp ==
  ASSUME NEW u \in Uploads, lib' = lib, Entitled' \subseteq Entitled,
         Entitled \ {u} \subseteq Entitled'
  PROVE  [Library!PathsNext]_(Library!pathVars)
<1>1. Entitled' = Entitled \/ (u \in Entitled /\ Entitled' = Entitled \ {u})
  OBVIOUS
<1> QED BY <1>1 DEF Library!PathsNext, Library!GiveUp, Library!pathVars

\* The exclusive creation.
LEMMA ClaimDestinationReserves ==
  ASSUME TypeOK, SoleAssembler, NEW u \in Uploads, NEW r \in Completers[u], ClaimDestination(u, r)
  PROVE  SoleAssembler' /\ [Library!PathsNext]_(Library!pathVars)
<1>1. At(u, r, "checked") /\ UNCHANGED session /\ Assembling(u, r)
  BY DEF ClaimDestination, At, Assembling
<1>2. Keeps(u)
  BY <1>1, GoKeeps, QuitKeeps DEF ClaimDestination
<1>3. SoleAssembler' /\ Entitled' \subseteq Entitled /\ Entitled \ {u} \subseteq Entitled'
  BY <1>2, KeepsFacts
<1>4. CASE lib' = lib
  BY <1>3, <1>4, AloneIsGiveUp
<1>5. CASE lib' # lib
  <2>1. /\ lib[Target[u]] = None /\ lib' = [lib EXCEPT ![Target[u]] = Empty(u)]
        /\ Go(u, r, "replacing")
    BY <1>5 DEF ClaimDestination
  <2>2. session[u] = "gone" /\ \A o \in Completers[u] \ {r} : ~Assembling(u, o)
    BY <1>1 DEF SoleAssembler
  <2>3. ~Assembling(u, r)'
    BY <2>1 DEF Go, Assembling, TypeOK, JobState
  <2>4. u \notin Entitled'
    BY <1>1, <1>2, <2>2, <2>3 DEF Keeps, Entitled
  <2>5. u \in Entitled
    BY <1>1 DEF Entitled
  <2>6. Library!Reserve(u)
    BY <1>3, <2>1, <2>4, <2>5 DEF Library!Reserve, Library!Held, Empty
  <2> QED BY <1>3, <2>6 DEF Library!PathsNext
<1> QED BY <1>4, <1>5

\* The rename, or the placeholder's removal.
LEMMA ReplacePublishes ==
  ASSUME IInv, SoleAssembler, NEW u \in Uploads, NEW r \in Completers[u], Replace(u, r)
  PROVE  SoleAssembler' /\ [Library!PathsNext]_(Library!pathVars)
<1>1. /\ UNCHANGED session /\ Keeps(u) /\ ~Assembling(u, r)
      /\ \A o \in Completers[u] : Assembling(u, o) => Assembling(u, o)'
  <2>1. Quit(u, r, "cleaning") /\ UNCHANGED session /\ ~Assembling(u, r)
    BY DEF Replace, At, Assembling
  <2>2. \A o \in Completers[u] \ {r} : job'[u][o] = job[u][o]
    BY <2>1 DEF Quit, IInv, TypeOK
  <2> QED BY <2>1, <2>2, QuitKeeps DEF IInv, Assembling
<1>2. SoleAssembler' /\ Entitled' = Entitled
  <2>1. u \in Entitled => u \in Entitled'
    BY <1>1 DEF Entitled
  <2> QED BY <1>1, <2>1, KeepsFacts
<1>3. lib[Target[u]] = Empty(u) /\ job[u][r].data \in {"holed", "whole"}
  <2>1. Replacing(<<u, r>>) /\ <<u, r>> \in Completing
    BY CompletingPairs DEF Replace, At, Replacing
  <2>2. lib[Target[u]] = Empty(u) /\ job[u][r].data # "short"
    BY <2>1 DEF IInv, Landing, OwnPlaceholder
  <2>3. job[u][r].data \in Contents
    BY DEF IInv, TypeOK, JobState
  <2> QED BY <2>2, <2>3 DEF Contents
<1>4. \/ lib' = [lib EXCEPT ![Target[u]] = [by |-> u, data |-> job[u][r].data]]
      \/ lib' = [lib EXCEPT ![Target[u]] = None]
  BY DEF Replace
<1>5. Library!Publish(u) \/ Library!Withdraw(u)
  BY <1>2, <1>3, <1>4 DEF Library!Publish, Library!Withdraw, Library!Held, Empty
<1> QED BY <1>2, <1>5 DEF Library!PathsNext

LEMMA UploadsStepPaths ==
  ASSUME IInv, SoleAssembler, [Next]_vars
  PROVE  SoleAssembler' /\ [Library!PathsNext]_(Library!pathVars)
<1>1. ASSUME NEW u \in Uploads,
             \/ Start(u) \/ CancelRead(u) \/ Crash(u) \/ PutStep(u) \/ CancelClean(u)
             \/ Expire(u) \/ CleanupTask(u)
             \/ \E i \in Chunks(u), n \in Tries(u) : Send(u, i, n)
             \/ \E r \in Completers[u] : Count(u, r) \/ Resolve(u, r) \/ Read(u, r) \/ Clean(u, r)
      PROVE  SoleAssembler' /\ [Library!PathsNext]_(Library!pathVars)
  <2>1. Keeps(u) /\ lib' = lib
    BY <1>1, OthersKeep DEF IInv
  <2>2. SoleAssembler' /\ Entitled' \subseteq Entitled /\ Entitled \ {u} \subseteq Entitled'
    BY <2>1, KeepsFacts
  <2> QED BY <2>1, <2>2, AloneIsGiveUp
<1>2. ASSUME NEW u \in Uploads, NEW r \in Completers[u], Claim(u, r)
      PROVE  SoleAssembler' /\ [Library!PathsNext]_(Library!pathVars)
  BY <1>2, ClaimSole, AloneIsGiveUp DEF IInv
<1>3. ASSUME NEW u \in Uploads, NEW r \in Completers[u], ClaimDestination(u, r) \/ Replace(u, r)
      PROVE  SoleAssembler' /\ [Library!PathsNext]_(Library!pathVars)
  BY <1>3, ClaimDestinationReserves, ReplacePublishes DEF IInv
<1>4. CASE UNCHANGED vars
  BY <1>4 DEF vars, SoleAssembler, Assembling, Entitled, Library!pathVars
<1> QED BY <1>1, <1>2, <1>3, <1>4 DEF Next, Own, JobStep

\* Uploads implement LibraryPaths: whatever completions of whatever uploads run at once and
\* whichever workers die, an upload has one go at its path, at a time when nothing stands
\* there, and only it replaces or takes away what it put there.  (complete_chunked_upload)
THEOREM UploadsKeepPaths == Spec => PathsKept
<1>1. Init => SoleAssembler /\ Library!PathsInit
  BY DEF Init, SoleAssembler, Assembling, Entitled, Library!PathsInit, Paths
<1>2. IInv /\ SoleAssembler /\ [Next]_vars => SoleAssembler' /\ [Library!PathsNext]_(Library!pathVars)
  BY UploadsStepPaths
<1> QED BY <1>1, <1>2, UploadInvariance, PTL DEF Spec, PathsKept, Library!PathsSpec

-----------------------------------------------------------------------------
(* Promotions: where the file is. *)

\* What the undo is good for: with another process at work no step fails, and the file has
\* an extension; with steps that fail nobody else puts a game into the folder.  In every other
\* situation it moves or removes what it does not own, and NothingLost does not hold.
Contained(s) == (s.fails => ~s.two /\ ~s.shared) /\ (s.bare => ~s.two)

Home   == fs["name"] = File /\ fs["tmp"] = Absent /\ db = "file"
Staged == fs["tmp"] = File /\ db = "file"
Filed  == /\ IsFolder /\ "rom" \in InFolder /\ InFolder \subseteq {"rom", "other"}
          /\ fs["tmp"] = Absent /\ (~now.bare => fs["name"] = Absent)

\* The new folder has nothing of ours in it, or is not there unless it is another's.
Hollow == IsFolder /\ InFolder \subseteq {"other"}
Vacant == now.bare \/ fs[Folder] \in {Absent, Dir({"other"})}

\* The file is where the undo of q takes it, and at most an empty folder is left.
Spare   == fs[Folder] \in {Absent, Dir({})}
Back(q) == IF now.bare /\ q \in moved THEN Staged /\ Spare ELSE Home /\ (now.bare \/ Spare)

\* One promotion at a time, and at most one step that fails.
Place(q) ==
  /\ pc[q] = "stage"   => now.bare /\ Home /\ q \notin moved
  /\ pc[q] = "make"    => IF now.bare THEN Staged /\ fs["name"] = Absent /\ q \in moved
                                      ELSE Home /\ Vacant /\ q \notin moved
  /\ pc[q] = "move"    => Hollow /\ IF now.bare THEN Staged /\ q \in moved
                                                ELSE Home /\ q \notin moved
  /\ pc[q] = "convert" => Filed /\ db = "file" /\ q \in moved
  /\ pc[q] = "undo"    => Back(q) \/ (Filed /\ InFolder = {"rom"} /\ db = "file" /\ q \in moved)
  /\ pc[q] = "look"    => Back(q)
  /\ pc[q] = "remove"  => Back(q) /\ IsFolder
  /\ pc[q] = "return"  => Back(q) /\ now.bare /\ q \in moved /\ fs["name"] = Absent

AtRest == IF db = "folder" THEN Filed ELSE Home /\ Vacant

Placed ==
  /\ \A q \in Requests :
       /\ Working(q) => Place(q)
       /\ pc[q] = "idle" => q \notin moved
       /\ pc[q] \in {"undo", "look", "remove", "return"} => failures > 0
  /\ (\A q \in Requests : ~Working(q)) => AtRest

\* Promotions in two processes: one of them moves the file, and the others, finding it gone,
\* undo nothing.
Raced ==
  /\ fs["tmp"] = Absent
  /\ \A q \in Requests :
       /\ pc[q] \notin {"stage", "remove", "return"}
       /\ pc[q] \in {"idle", "make", "move", "undo", "look"} => q \notin moved
  /\ \/ /\ Home /\ moved = {} /\ (fs[Folder] = Absent \/ Hollow)
        /\ \A q \in Requests : pc[q] \in {"idle", "make", "move", "failed"}
        /\ fs[Folder] = Dir({}) => \E q \in Requests : pc[q] = "move"
     \/ Filed /\ (db = "file" => \E q \in Requests : pc[q] = "convert")

\* Nobody has died, and at most one step has failed.
Unhurt == failures <= 1 /\ \A q \in Requests : pc[q] # "gone"

Apart  == \A p, q \in Requests : Working(p) /\ Working(q) => p = q
Stands == \E e \in {"name", "folder", "tmp"} : Holds(fs[e])

PromotionInv ==
  /\ PromotionTypeOK
  /\ Stands
  /\ ~now.two => Apart
  /\ IF now.fails THEN ~stranger ELSE failures = 0 /\ Unhurt
  /\ \A q \in Requests : pc[q] = "remove" => now.fails /\ InFolder = {}
  /\ Unhurt => /\ stranger <=> "other" \in InFolder
               /\ IF now.two THEN Raced ELSE Placed

-----------------------------------------------------------------------------
(* What the file operations leave. *)

Names == {"name", "folder", "tmp"}

LEMMA FolderFacts ==
  ASSUME PromotionTypeOK
  PROVE  /\ now \in Situation
         /\ Folder \in Names \ {"tmp"}
         /\ now.bare <=> Folder = "name"
         /\ \A e \in Names : /\ fs[e] \in Entry
                             /\ fs[e].kind \in {"none", "file", "dir"}
                             /\ fs[e].in \subseteq Insides
                             /\ fs[e].kind = "none" => fs[e] = Absent
                             /\ fs[e].kind = "file" => fs[e] = File
                             /\ fs[e].kind = "dir" => fs[e] = Dir(fs[e].in)
<1>1. now \in Situation
  BY SituationsAssumption DEF PromotionTypeOK
<1>2. Folder \in Names \ {"tmp"} /\ (now.bare <=> Folder = "name")
  BY <1>1 DEF Situation, Folder, Names
<1>3. \A e \in Entry : /\ e.kind \in {"none", "file", "dir"} /\ e.in \subseteq Insides
                       /\ e.kind = "none" => e = Absent
                       /\ e.kind = "file" => e = File
                       /\ e.kind = "dir" => e = Dir(e.in)
  BY DEF Entry, Absent, File, Dir
<1> QED BY <1>1, <1>2, <1>3 DEF PromotionTypeOK, Names

\* An operation keeps the entries entries, and the file somewhere.
Sound(f) == f \in [Names -> Entry] /\ (Stands => \E e \in Names : Holds(f[e]))

LEMMA DirEntry == ASSUME NEW in \in SUBSET Insides PROVE Dir(in) \in Entry
BY DEF Entry

LEMMA MoveInSound ==
  ASSUME PromotionTypeOK, NEW src \in Names, src # Folder, NEW f \in MoveIn(src)
  PROVE  Sound(f)
<1> DEFINE what == IF fs[src].kind = "file" THEN "rom" ELSE "nested"
<1>1. f = [fs EXCEPT ![src] = Absent, ![Folder] = Dir(fs[Folder].in \cup {what})]
  BY DEF MoveIn, PromotionTypeOK, Names
<1>2. Folder \in Names /\ InFolder \cup {what} \in SUBSET Insides
  BY FolderFacts DEF Insides, InFolder
<1>3. f \in [Names -> Entry] /\ f[Folder] = Dir(InFolder \cup {what})
  BY <1>1, <1>2, DirEntry DEF PromotionTypeOK, Names, Entry, InFolder
<1>4. Holds(f[Folder])
  BY <1>3 DEF Holds, Dir
<1> QED BY <1>2, <1>3, <1>4 DEF Sound

LEMMA MoveOutSound ==
  ASSUME PromotionTypeOK, NEW dst \in Names, dst # Folder, NEW f \in MoveOut(dst)
  PROVE  Sound(f)
<1> DEFINE what == IF "rom" \in InFolder THEN File ELSE Dir({"rom"})
<1>1. f = [fs EXCEPT ![Folder] = Dir(fs[Folder].in \ {"rom", "nested"}), ![dst] = what]
  BY DEF MoveOut, PromotionTypeOK, Names
<1>2. Folder \in Names /\ InFolder \ {"rom", "nested"} \in SUBSET Insides
  BY FolderFacts DEF InFolder
<1>3. what \in Entry /\ Holds(what)
  BY DEF Entry, File, Dir, Insides, Holds
<1>4. f \in [Names -> Entry] /\ f[dst] = what
  BY <1>1, <1>2, <1>3, DirEntry DEF PromotionTypeOK, Names, InFolder
<1> QED BY <1>3, <1>4 DEF Sound

LEMMA MoveToSound ==
  ASSUME PromotionTypeOK, NEW src \in Names, NEW dst \in Names, src # dst, NEW f \in MoveTo(src, dst)
  PROVE  Sound(f)
<1>1. CASE fs[dst].kind = "none"
  <2>1. f = [fs EXCEPT ![src] = Absent, ![dst] = fs[src]]
    BY <1>1 DEF MoveTo
  <2>2. f \in [Names -> Entry]
    BY <2>1, FolderFacts DEF PromotionTypeOK, Names, Entry
  <2>3. f[dst] = fs[src] /\ \A e \in Names : e \notin {src, dst} => f[e] = fs[e]
    BY <2>1 DEF PromotionTypeOK, Names
  <2>4. ~Holds(fs[dst])
    BY <1>1, FolderFacts DEF Holds, Absent
  <2> QED BY <2>2, <2>3, <2>4 DEF Sound, Stands, Names
<1>2. CASE fs[dst].kind # "none"
  <2>1. f = [fs EXCEPT ![src] = Absent, ![dst] = Dir(fs[dst].in \cup {"tmp"})]
    BY <1>2 DEF MoveTo, PromotionTypeOK, Names
  <2>2. fs[dst].in \cup {"tmp"} \in SUBSET Insides
    BY FolderFacts DEF Insides
  <2>3. f \in [Names -> Entry] /\ f[dst] = Dir(fs[dst].in \cup {"tmp"})
    BY <2>1, <2>2, DirEntry DEF PromotionTypeOK, Names, Entry
  <2>4. Holds(f[dst])
    BY <2>3 DEF Holds, Dir
  <2> QED BY <2>3, <2>4 DEF Sound
<1> QED BY <1>1, <1>2

LEMMA MakeFolderSound ==
  ASSUME PromotionTypeOK, NEW f \in MakeFolder
  PROVE  Sound(f)
<1>1. CASE fs[Folder].kind = "none"
  <2>1. f = [fs EXCEPT ![Folder] = Dir({})]
    BY <1>1 DEF MakeFolder
  <2>2. f \in [Names -> Entry]
    BY <2>1, DirEntry DEF PromotionTypeOK, Names
  <2>3. \A e \in Names : e # Folder => f[e] = fs[e]
    BY <2>1 DEF PromotionTypeOK, Names
  <2>4. ~Holds(fs[Folder])
    BY <1>1, FolderFacts DEF Holds, Absent
  <2> QED BY <2>2, <2>3, <2>4, FolderFacts DEF Sound, Stands, Names
<1>2. CASE fs[Folder].kind # "none"
  BY <1>2 DEF MakeFolder, Sound, Stands, PromotionTypeOK, Names
<1> QED BY <1>1, <1>2

-----------------------------------------------------------------------------
(* The steps of one request. *)

\* A step's operation is done, or something goes wrong and it goes elsewhere.
LEMMA TryFacts ==
  ASSUME PromotionTypeOK, Stands, NEW q \in Requests, NEW results, NEW next, NEW otherwise,
         Try(q, results, next, otherwise), \A f \in results : Sound(f)
  PROVE  /\ fs' \in [Names -> Entry] /\ Stands'
         /\ failures' \in 0..MaxFailures /\ failures =< failures'
         /\ \/ fs' \in results /\ Goes(q, next) /\ failures' = failures
            \/ fs' = fs /\ Goes(q, otherwise) /\ results = {} /\ failures' = failures
            \/ fs' = fs /\ Goes(q, otherwise) /\ now.fails /\ failures' = failures + 1
<1>1. failures \in 0..MaxFailures /\ MaxFailures \in Nat /\ fs \in [Names -> Entry]
  BY SituationsAssumption DEF PromotionTypeOK, Names
<1>2. CASE \E f \in results : fs' = f /\ Goes(q, next) /\ UNCHANGED failures
  BY <1>1, <1>2 DEF Sound, Stands, Names
<1>3. CASE results = {} /\ Goes(q, otherwise) /\ UNCHANGED <<fs, failures>>
  BY <1>1, <1>3 DEF Stands
<1>4. CASE Failing /\ Goes(q, otherwise) /\ UNCHANGED fs
  BY <1>1, <1>4 DEF Failing, Stands
<1> QED BY <1>2, <1>3, <1>4 DEF Try

\* The request at work is alone, so nobody else's place matters.
LEMMA StaysAlone ==
  ASSUME PromotionTypeOK, Apart, NEW q \in Requests, NEW step \in Steps, Goes(q, step),
         Working(q) \/ \A p \in Requests : ~Working(p)
  PROVE  /\ Apart'
         /\ \A p \in Requests : p # q => pc'[p] = pc[p] /\ ~Working(p)'
         /\ pc' \in [Requests -> Steps] /\ pc'[q] = step
BY DEF Apart, Working, Goes, PromotionTypeOK

LEMMA PlacedNext ==
  ASSUME PromotionTypeOK, Apart, Placed, NEW q \in Requests, NEW step \in Steps, Goes(q, step),
         Working(q) \/ \A p \in Requests : ~Working(p),
         step # "idle", \A p \in Requests : p # q => (p \in moved' <=> p \in moved),
         Working(q)' => Place(q)', ~Working(q)' => AtRest',
         step \in {"undo", "look", "remove", "return"} => failures' > 0
  PROVE  Placed'
<1>1. /\ \A p \in Requests : p # q => pc'[p] = pc[p] /\ ~Working(p)'
      /\ pc'[q] = step
  BY StaysAlone
<1>2. \A p \in Requests : pc'[p] = "idle" => p \notin moved'
  BY <1>1 DEF Placed
<1> QED BY <1>1, <1>2 DEF Placed, Working

\* What is left to show of a step of a request that keeps to its kind of situation.
Quiet == /\ now' = now /\ stranger' = stranger
         /\ now.fails \/ failures' = failures

LEMMA InvNext ==
  ASSUME PromotionInv, PromotionTypeOK', Stands', NEW q \in Requests, NEW step \in Steps,
         Goes(q, step), ~now.two => (Working(q) \/ \A p \in Requests : ~Working(p)),
         Quiet, failures =< failures', pc[q] # "gone", step # "gone",
         step = "remove" => now.fails /\ InFolder' = {},
         Contained(now),
         Unhurt' /\ Unhurt => /\ stranger <=> "other" \in InFolder'
                              /\ IF now.two THEN Raced' ELSE Placed'
  PROVE  PromotionInv'
<1>1. /\ \A p \in Requests : p # q => pc'[p] = pc[p]
      /\ pc'[q] = step
  BY DEF PromotionInv, Goes, PromotionTypeOK
<1>2. ~now'.two => Apart'
  BY StaysAlone DEF PromotionInv, Quiet
<1>3. failures \in Nat /\ failures' \in Nat
  BY SituationsAssumption DEF PromotionInv, PromotionTypeOK
<1>4. Unhurt' => Unhurt
  BY <1>1, <1>3 DEF Unhurt, Goes
<1>5. IF now'.fails THEN ~stranger' ELSE failures' = 0 /\ Unhurt'
  BY <1>1 DEF PromotionInv, Quiet, Unhurt
<1>6. \A p \in Requests : pc'[p] = "remove" => now'.fails /\ InFolder' = {}
  <2>1. \A p \in Requests : p # q => pc[p] # "remove"
    BY DEF PromotionInv, Apart, Working, Contained
  <2> QED BY <1>1, <2>1 DEF Quiet
<1> QED BY <1>2, <1>4, <1>5, <1>6 DEF PromotionInv, Quiet

-----------------------------------------------------------------------------
(* Each step keeps the invariant. *)

LEMMA PromotionInitInv == ASSUME PromotionInit, Contained(now) PROVE PromotionInv
<1>1. PromotionTypeOK
  <2>1. fs \in [{"name", "folder", "tmp"} -> Entry]
    BY DEF PromotionInit, Entry
  <2>2. pc \in [Requests -> Steps]
    BY DEF PromotionInit, Steps
  <2>3. failures \in 0..MaxFailures
    BY SituationsAssumption DEF PromotionInit
  <2>4. stranger \in BOOLEAN
    BY Zenon DEF PromotionInit
  <2> QED BY <2>1, <2>2, <2>3, <2>4 DEF PromotionInit, PromotionTypeOK
<1>2. Stands
  BY DEF PromotionInit, Stands, Holds, File
<1>3. (\A q \in Requests : ~Working(q)) /\ Unhurt
  BY SituationsAssumption DEF PromotionInit, Working, Unhurt
<1>4. InFolder = {} /\ (now.bare \/ fs[Folder] = Absent) /\ Home
  BY SituationsAssumption, <1>1, FolderFacts
     DEF PromotionInit, InFolder, File, Absent, Folder, Home, Situation
<1>5. Placed
  BY <1>3, <1>4 DEF PromotionInit, Placed, AtRest, Vacant
<1>6. now.two => Raced
  BY <1>4 DEF PromotionInit, Raced, Home, Contained, Absent, Dir
<1> QED BY <1>1, <1>2, <1>3, <1>4, <1>5, <1>6 DEF PromotionInv, PromotionInit, Apart

LEMMA EnterInv ==
  ASSUME PromotionInv, Contained(now), NEW q \in Requests, Enter(q)
  PROVE  PromotionInv'
<1>1. /\ pc[q] = "idle" /\ UNCHANGED <<now, fs, db, moved, stranger, failures>>
      /\ ~now.two => \A p \in Requests : ~Working(p)
  BY DEF Enter
<1>2. PICK step \in {"done", "failed", "stage", "make"} :
        /\ Goes(q, step)
        /\ db = "folder" => step = "done"
        /\ step = "done" => db = "folder"
        /\ step = "make" => ~now.bare /\ fs[Folder].kind = "none"
        /\ step = "stage" => now.bare /\ ~IsFolder
  BY DEF Enter, PromotionInv, PromotionTypeOK
<1>3. \A p \in Requests : pc'[p] = IF p = q THEN step ELSE pc[p]
  BY <1>2 DEF PromotionInv, PromotionTypeOK, Goes
<1>4. PromotionTypeOK' /\ Stands'
  BY <1>1, <1>2 DEF PromotionInv, PromotionTypeOK, Goes, Steps, Stands
<1>5. ASSUME Unhurt', Unhurt
      PROVE  stranger <=> "other" \in InFolder'
  BY <1>1, <1>5 DEF PromotionInv, InFolder, Folder
<1>6. ASSUME Unhurt', Unhurt, now.two
      PROVE  Raced'
  <2>1. Raced /\ ~now.bare
    BY <1>6 DEF PromotionInv, Contained
  <2>2. CASE Home /\ moved = {} /\ (fs[Folder] = Absent \/ Hollow)
    <3>1. step \in {"failed", "make"}
      BY <1>2, <2>1, <2>2 DEF Home
    <3> QED BY <1>1, <1>3, <2>1, <2>2, <3>1
            DEF Raced, Home, Filed, Hollow, IsFolder, InFolder, Folder, Absent
  <2>3. CASE Filed /\ (db = "file" => \E p \in Requests : pc[p] = "convert")
    <3>1. step \in {"failed", "done"}
      BY <1>2, <2>1, <2>3 DEF Filed, IsFolder
    <3> QED BY <1>1, <1>2, <1>3, <2>1, <2>3, <3>1
            DEF Raced, Home, Filed, IsFolder, InFolder, Folder
  <2> QED BY <2>1, <2>2, <2>3 DEF Raced
<1>7. ASSUME Unhurt', Unhurt, ~now.two
      PROVE  Placed'
  <2>1. AtRest /\ Placed /\ \A p \in Requests : ~Working(p)
    BY <1>1, <1>7 DEF PromotionInv, Placed
  <2>2. q \notin moved
    BY <1>1, <2>1 DEF Placed
  <2>3. CASE step = "stage"
    <3>1. Place(q)' /\ Working(q)'
      BY <1>1, <1>2, <1>3, <2>1, <2>2, <2>3
         DEF Working, Place, AtRest, Home, Filed, IsFolder
    <3> QED BY <1>1, <1>2, <1>7, <2>1, <2>3, <3>1, PlacedNext DEF PromotionInv, Steps
  <2>4. CASE step = "make"
    <3>1. Place(q)' /\ Working(q)'
      BY <1>1, <1>2, <1>3, <2>1, <2>2, <2>4
         DEF Working, Place, AtRest, Home, Filed, Vacant, Folder, IsFolder
    <3> QED BY <1>1, <1>2, <1>7, <2>1, <2>4, <3>1, PlacedNext DEF PromotionInv, Steps
  <2>5. CASE step \in {"done", "failed"}
    <3>1. AtRest' /\ ~Working(q)'
      BY <1>1, <1>3, <2>1, <2>5
         DEF Working, AtRest, Home, Filed, Vacant, IsFolder, InFolder, Folder
    <3> QED BY <1>1, <1>2, <1>7, <2>1, <2>5, <3>1, PlacedNext DEF PromotionInv, Steps
  <2> QED BY <2>3, <2>4, <2>5
<1>8. Quiet /\ failures =< failures'
  BY <1>1, SituationsAssumption DEF Quiet, PromotionInv, PromotionTypeOK
<1> QED BY <1>1, <1>2, <1>4, <1>5, <1>6, <1>7, <1>8, InvNext DEF Steps

\* A step of a request at work: what is left to show.
LEMMA WorkInv ==
  ASSUME PromotionInv, Contained(now), NEW q \in Requests, Working(q),
         NEW step \in Steps \ {"idle", "gone"}, Goes(q, step),
         UNCHANGED <<now, stranger>>, fs' \in [Names -> Entry], Stands',
         db' \in {"file", "folder"}, moved' \subseteq Requests,
         \A p \in Requests : p # q => (p \in moved' <=> p \in moved),
         failures' \in 0..MaxFailures, failures =< failures', now.fails \/ failures' = failures,
         step = "remove" => now.fails /\ InFolder' = {},
         ASSUME Unhurt, failures' =< 1 PROVE stranger <=> "other" \in InFolder',
         ASSUME Unhurt, failures' =< 1, now.two, Raced PROVE Raced',
         ASSUME Unhurt, failures' =< 1, ~now.two, Placed, Place(q), pc'[q] = step
         PROVE  /\ IF step \in {"failed", "done"} THEN AtRest' ELSE Place(q)'
                /\ step \in {"undo", "look", "remove", "return"} => failures' > 0
  PROVE  PromotionInv'
<1>1. pc'[q] = step /\ pc[q] # "gone"
  BY DEF PromotionInv, PromotionTypeOK, Goes, Working
<1>2. PromotionTypeOK'
  BY DEF PromotionInv, PromotionTypeOK, Goes, Names
<1>3. ASSUME Unhurt', Unhurt, ~now.two
      PROVE  Placed'
  <2>1. Placed /\ Place(q) /\ failures' =< 1
    BY <1>3 DEF PromotionInv, Placed, Unhurt
  <2>2. Working(q)' <=> step \notin {"failed", "done"}
    BY <1>1 DEF Working
  <2> QED BY <1>1, <1>3, <2>1, <2>2, PlacedNext DEF PromotionInv
<1>4. ASSUME Unhurt', Unhurt
      PROVE  /\ stranger <=> "other" \in InFolder'
             /\ IF now.two THEN Raced' ELSE Placed'
  BY <1>3, <1>4 DEF PromotionInv, Unhurt
<1> QED BY <1>1, <1>2, <1>4, InvNext DEF Quiet

LEMMA StageInv ==
  ASSUME PromotionInv, Contained(now), NEW q \in Requests, Stage(q)
  PROVE  PromotionInv'
<1>1. /\ pc[q] = "stage" /\ UNCHANGED <<now, db, stranger>> /\ Working(q)
      /\ moved' = IF pc'[q] = "make" THEN moved \cup {q} ELSE moved
  BY DEF Stage, Working
<1>2. /\ fs' \in [Names -> Entry] /\ Stands'
      /\ failures' \in 0..MaxFailures /\ failures =< failures'
      /\ \/ fs' \in MoveTo("name", "tmp") /\ Goes(q, "make") /\ failures' = failures
         \/ fs' = fs /\ Goes(q, "undo") /\ MoveTo("name", "tmp") = {} /\ failures' = failures
         \/ fs' = fs /\ Goes(q, "undo") /\ now.fails /\ failures' = failures + 1
  BY TryFacts, MoveToSound DEF Stage, PromotionInv, Names
<1>3. PICK step \in {"make", "undo"} : Goes(q, step)
  BY <1>2
<1>4. ASSUME Placed, Place(q), ~now.two, Unhurt, pc'[q] = step
      PROVE  /\ stranger <=> "other" \in InFolder'
             /\ Place(q)' /\ (step = "undo" => failures' > 0)
  <2>1. now.bare /\ Home /\ q \notin moved
    BY <1>1, <1>4 DEF Place
  <2>2. MoveTo("name", "tmp") = {[fs EXCEPT !["name"] = Absent, !["tmp"] = File]}
    BY <2>1 DEF MoveTo, Home, File, Absent
  <2>3. CASE step = "make"
    <3>1. fs' = [fs EXCEPT !["name"] = Absent, !["tmp"] = File]
      BY <1>2, <1>4, <2>2, <2>3 DEF PromotionInv, PromotionTypeOK, Goes
    <3>2. fs'["name"] = Absent /\ fs'["tmp"] = File
      BY <3>1 DEF PromotionInv, PromotionTypeOK
    <3> QED BY <1>1, <1>4, <2>1, <2>3, <3>2
            DEF PromotionInv, InFolder, Folder, Home, Staged, Place, Absent, File
  <2>4. CASE step = "undo"
    <3>1. fs' = fs /\ failures' = failures + 1 /\ moved' = moved
      BY <1>1, <1>2, <1>4, <2>2, <2>4 DEF PromotionInv, PromotionTypeOK, Goes
    <3>2. failures' > 0
      BY <3>1, SituationsAssumption DEF PromotionInv, PromotionTypeOK
    <3> QED BY <1>1, <1>4, <2>1, <2>4, <3>1, <3>2
            DEF PromotionInv, InFolder, Folder, Home, Place, Back
  <2> QED BY <2>3, <2>4
<1>5. ASSUME Unhurt PROVE stranger <=> "other" \in InFolder'
  BY <1>1, <1>3, <1>4, <1>5 DEF PromotionInv, Raced, Placed, PromotionTypeOK, Goes
<1> QED BY <1>1, <1>2, <1>3, <1>4, <1>5, WorkInv DEF PromotionInv, PromotionTypeOK, Steps, Raced

LEMMA MakeInv ==
  ASSUME PromotionInv, Contained(now), NEW q \in Requests, Make(q)
  PROVE  PromotionInv'
<1>1. pc[q] = "make" /\ UNCHANGED <<now, db, moved, stranger>> /\ Working(q)
  BY DEF Make, Working
<1>2. /\ fs' \in [Names -> Entry] /\ Stands'
      /\ failures' \in 0..MaxFailures /\ failures =< failures'
      /\ \/ fs' \in MakeFolder /\ Goes(q, "move") /\ failures' = failures
         \/ fs' = fs /\ Goes(q, "undo") /\ MakeFolder = {} /\ failures' = failures
         \/ fs' = fs /\ Goes(q, "undo") /\ now.fails /\ failures' = failures + 1
  BY TryFacts, MakeFolderSound DEF Make, PromotionInv
<1>3. PICK step \in {"move", "undo"} : Goes(q, step)
  BY <1>2
<1>4. \A p \in Requests : pc'[p] = IF p = q THEN step ELSE pc[p]
  BY <1>3 DEF PromotionInv, PromotionTypeOK, Goes
<1>5. \/ fs' \in MakeFolder /\ step = "move" /\ failures' = failures
      \/ step = "undo" /\ fs' = fs /\ MakeFolder = {}
      \/ step = "undo" /\ fs' = fs /\ now.fails /\ failures' > 0
  BY <1>2, <1>4, SituationsAssumption DEF PromotionInv, PromotionTypeOK, Goes
\* The folder is made, or was there.
<1>6. ASSUME fs[Folder].kind # "file", fs' \in MakeFolder
      PROVE  /\ fs'[Folder] = IF fs[Folder].kind = "none" THEN Dir({}) ELSE fs[Folder]
             /\ fs'[Folder].kind = "dir" /\ fs'[Folder].in = InFolder
             /\ \A e \in Names : e # Folder => fs'[e] = fs[e]
  <2>1. Folder \in Names /\ fs \in [Names -> Entry] /\ fs[Folder].kind \in {"none", "dir"}
        /\ (fs[Folder].kind = "none" => InFolder = {})
    BY <1>6, FolderFacts DEF PromotionInv, PromotionTypeOK, Names, InFolder, Absent
  <2> QED BY <1>6, <2>1 DEF MakeFolder, Dir, InFolder
<1>7. fs[Folder].kind # "file" => MakeFolder # {}
  BY FolderFacts DEF MakeFolder, PromotionInv
<1>8. ASSUME Placed, Place(q), ~now.two, Unhurt
      PROVE  /\ stranger <=> "other" \in InFolder'
             /\ Place(q)' /\ (step = "undo" => failures' > 0)
  <2>1. fs[Folder].kind # "file" /\ fs[Folder].in \subseteq {"other"}
    BY <1>1, <1>8 DEF Place, Folder, Home, Staged, Vacant, Absent, Dir
  <2>2. CASE step = "move"
    <3>1. fs'[Folder].kind = "dir" /\ fs'[Folder].in = InFolder
          /\ \A e \in Names : e # Folder => fs'[e] = fs[e]
      BY <1>5, <1>6, <2>1, <2>2
    <3>2. Folder' = Folder
      BY <1>1 DEF Folder
    <3>3. (stranger <=> "other" \in InFolder') /\ Hollow'
      BY <1>8, <2>1, <3>1, <3>2 DEF PromotionInv, InFolder, IsFolder, Hollow
    <3> QED BY <1>1, <1>4, <1>8, <2>1, <2>2, <3>1, <3>3
            DEF Place, Home, Staged, Folder, Names
  <2>3. CASE step = "undo"
    <3>1. fs' = fs /\ failures' > 0 /\ now.fails
      BY <1>5, <1>7, <2>1, <2>3
    <3>2. ~stranger /\ "other" \notin InFolder
      BY <1>8, <3>1 DEF PromotionInv
    <3>3. Back(q)
      BY <1>1, <1>8, <3>2
         DEF Place, Back, Spare, Vacant, Home, Staged, Folder, InFolder, Dir
    <3> QED BY <1>1, <1>4, <2>3, <3>1, <3>2, <3>3
            DEF PromotionInv, InFolder, Folder, Home, Staged, Spare, Place, Back
  <2> QED BY <2>2, <2>3
<1>9. ASSUME Raced, now.two, Unhurt
      PROVE  (stranger <=> "other" \in InFolder') /\ Raced'
  <2>1. ~now.bare /\ ~now.fails /\ Folder = "folder" /\ Folder' = Folder
    BY <1>1, <1>9, FolderFacts DEF Contained, PromotionInv, Folder
  <2>2. fs[Folder].kind # "file" /\ "undo" \notin {step}
    <3>1. fs[Folder].kind # "file"
      BY <1>9 DEF Raced, Filed, Hollow, IsFolder, Absent
    <3> QED BY <1>5, <1>7, <2>1, <3>1
  <2>3. /\ step = "move" /\ fs'[Folder].kind = "dir" /\ fs'[Folder].in = InFolder
        /\ fs'["name"] = fs["name"] /\ fs'["tmp"] = fs["tmp"]
        /\ fs[Folder].kind # "none" => fs'[Folder] = fs[Folder]
    BY <1>5, <1>6, <2>1, <2>2 DEF Names
  <2>4. stranger <=> "other" \in InFolder'
    BY <1>9, <2>1, <2>3 DEF PromotionInv, InFolder
  <2>5. CASE Filed
    <3>1. Filed' /\ (db = "file" => \E p \in Requests : pc'[p] = "convert")
      <4>1. ~Home \/ db = "folder"
        BY <2>1, <2>5 DEF Home, Filed, Absent, File
      <4> QED BY <1>1, <1>4, <1>9, <2>1, <2>3, <2>5, <4>1
              DEF Raced, Filed, IsFolder, InFolder, Home
    <3> QED BY <1>1, <1>4, <1>9, <2>3, <2>4, <3>1 DEF Raced
  <2>6. CASE /\ Home /\ moved = {} /\ (fs[Folder] = Absent \/ Hollow)
             /\ \A p \in Requests : pc[p] \in {"idle", "make", "move", "failed"}
    <3>1. Home' /\ Hollow'
      BY <1>1, <2>1, <2>3, <2>6 DEF Home, Hollow, IsFolder, InFolder, Absent
    <3> QED BY <1>1, <1>4, <1>9, <2>3, <2>4, <2>6, <3>1 DEF Raced, Home
  <2> QED BY <1>9, <2>5, <2>6 DEF Raced
<1>10. ASSUME Unhurt PROVE stranger <=> "other" \in InFolder'
  BY <1>1, <1>8, <1>9, <1>10 DEF PromotionInv, Placed
<1> QED BY <1>1, <1>2, <1>3, <1>8, <1>9, <1>10, WorkInv DEF PromotionInv, PromotionTypeOK, Steps

LEMMA MoveInv ==
  ASSUME PromotionInv, Contained(now), NEW q \in Requests, Move(q)
  PROVE  PromotionInv'
<1> DEFINE src == IF now.bare THEN "tmp" ELSE "name"
<1>1. /\ pc[q] = "move" /\ UNCHANGED <<now, db, stranger>> /\ Working(q)
      /\ moved' = IF pc'[q] = "convert" THEN moved \cup {q} ELSE moved
      /\ Folder' = Folder
  BY DEF Move, Working, Folder
<1>2. src \in Names /\ src # Folder /\ Folder \in Names /\ fs \in [Names -> Entry]
  BY FolderFacts DEF Names, Folder, PromotionInv, PromotionTypeOK
<1>3. /\ fs' \in [Names -> Entry] /\ Stands'
      /\ failures' \in 0..MaxFailures /\ failures =< failures'
      /\ \/ fs' \in MoveIn(src) /\ Goes(q, "convert") /\ failures' = failures
         \/ fs' = fs /\ Goes(q, "undo") /\ MoveIn(src) = {} /\ failures' = failures
         \/ fs' = fs /\ Goes(q, "undo") /\ now.fails /\ failures' = failures + 1
  <2>1. \A f \in MoveIn(src) : Sound(f)
    BY <1>2, MoveInSound DEF PromotionInv
  <2>2. Try(q, MoveIn(src), "convert", "undo")
    BY DEF Move
  <2> HIDE DEF src
  <2> QED BY <2>1, <2>2, TryFacts DEF PromotionInv
<1>4. PICK step \in {"convert", "undo"} : Goes(q, step)
  BY <1>3
<1>5. \A p \in Requests : pc'[p] = IF p = q THEN step ELSE pc[p]
  BY <1>4 DEF PromotionInv, PromotionTypeOK, Goes
<1>6. \/ fs' \in MoveIn(src) /\ step = "convert"
      \/ step = "undo" /\ fs' = fs /\ MoveIn(src) = {}
      \/ step = "undo" /\ fs' = fs /\ now.fails /\ failures' > 0
  BY <1>3, <1>5, SituationsAssumption DEF PromotionInv, PromotionTypeOK, Goes
\* The file goes into the folder.
<1>7. ASSUME fs[src] = File, fs[Folder].kind # "file"
      PROVE  /\ MoveIn(src) # {}
             /\ fs' \in MoveIn(src) =>
                  /\ fs'[Folder].kind = "dir" /\ fs'[Folder].in = InFolder \cup {"rom"}
                  /\ fs'[src] = Absent
                  /\ \A e \in Names \ {src, Folder} : fs'[e] = fs[e]
  <2>1. MoveIn(src) = {[fs EXCEPT ![src] = Absent, ![Folder] = Dir(fs[Folder].in \cup {"rom"})]}
    BY <1>2, <1>7 DEF MoveIn, File
  <2> HIDE DEF src
  <2>2. ASSUME fs' \in MoveIn(src)
        PROVE  /\ fs'[Folder] = Dir(InFolder \cup {"rom"}) /\ fs'[src] = Absent
               /\ \A e \in Names \ {src, Folder} : fs'[e] = fs[e]
    BY <1>2, <2>1, <2>2 DEF InFolder
  <2>3. MoveIn(src) # {}
    BY <2>1
  <2> QED BY <2>2, <2>3 DEF Dir
<1>8. ASSUME Placed, Place(q), ~now.two, Unhurt
      PROVE  /\ stranger <=> "other" \in InFolder'
             /\ Place(q)' /\ (step = "undo" => failures' > 0)
  <2>1. /\ Hollow /\ fs[src] = File /\ fs[Folder].kind # "file" /\ db = "file"
        /\ IF now.bare THEN q \in moved ELSE fs["tmp"] = Absent /\ q \notin moved
    BY <1>1, <1>8 DEF Place, Home, Staged, Hollow, IsFolder
  <2>2. CASE step = "convert"
    <3>1. fs'[Folder].kind = "dir" /\ fs'[Folder].in = InFolder \cup {"rom"}
          /\ fs'[src] = Absent /\ \A e \in Names \ {src, Folder} : fs'[e] = fs[e]
      BY <1>6, <1>7, <2>1, <2>2
    <3>2. Filed' /\ q \in moved'
      BY <1>1, <1>5, <2>1, <2>2, <3>1
         DEF Filed, IsFolder, InFolder, Hollow, Folder, Names
    <3> QED BY <1>1, <1>5, <1>8, <2>1, <2>2, <3>1, <3>2 DEF PromotionInv, InFolder, Place
  <2>3. CASE step = "undo"
    <3>1. fs' = fs /\ failures' > 0 /\ now.fails
      BY <1>6, <1>7, <2>1, <2>3
    <3>2. ~stranger /\ "other" \notin InFolder
      BY <1>8, <3>1 DEF PromotionInv
    <3>3. fs[Folder] = Dir({})
      <4>1. InFolder = {} /\ IsFolder
        BY <2>1, <3>2 DEF Hollow
      <4> QED BY <1>2, <4>1, FolderFacts DEF PromotionInv, IsFolder, InFolder
    <3>4. Back(q)
      BY <1>1, <1>8, <3>3 DEF Place, Back, Spare
    <3> QED BY <1>1, <1>5, <2>3, <3>1, <3>2, <3>4
            DEF PromotionInv, InFolder, Folder, Home, Staged, Spare, Place, Back
  <2> QED BY <2>2, <2>3
<1>9. ASSUME Raced, now.two, Unhurt
      PROVE  (stranger <=> "other" \in InFolder') /\ Raced'
  <2>1. ~now.bare /\ ~now.fails /\ Folder = "folder" /\ src = "name"
    BY <1>9, FolderFacts DEF Contained, PromotionInv, Folder
  <2>2. CASE Filed /\ (db = "file" => \E p \in Requests : pc[p] = "convert")
    <3>1. fs["name"] = Absent
      BY <2>1, <2>2 DEF Filed
    <3>2. MoveIn(src) = {}
      BY <2>1, <3>1 DEF MoveIn, Absent
    <3>3. step = "undo" /\ fs' = fs
      BY <1>6, <3>2
    <3> QED BY <1>1, <1>5, <1>9, <2>2, <3>3 DEF Raced, Filed, IsFolder, InFolder, PromotionInv
  <2>3. CASE /\ Home /\ moved = {} /\ (fs[Folder] = Absent \/ Hollow)
             /\ \A p \in Requests : pc[p] \in {"idle", "make", "move", "failed"}
    <3>1. fs[src] = File /\ fs[Folder].kind # "file" /\ fs["tmp"] = Absent
          /\ InFolder \subseteq {"other"}
      BY <2>1, <2>3 DEF Home, Hollow, IsFolder, Absent, InFolder
    <3>2. /\ step = "convert" /\ fs'[Folder].kind = "dir" /\ fs'["name"] = Absent
          /\ fs'[Folder].in = InFolder \cup {"rom"} /\ fs'["tmp"] = Absent
      BY <1>6, <1>7, <2>1, <3>1 DEF Names
    <3>3. Filed'
      BY <1>1, <2>1, <3>1, <3>2 DEF Filed, IsFolder, InFolder
    <3>4. stranger <=> "other" \in InFolder'
      BY <1>1, <1>9, <3>2 DEF PromotionInv, InFolder
    <3> QED BY <1>1, <1>5, <1>9, <2>3, <3>2, <3>3, <3>4 DEF Raced
  <2> QED BY <1>9, <2>2, <2>3 DEF Raced
<1>10. ASSUME Unhurt PROVE stranger <=> "other" \in InFolder'
  BY <1>1, <1>8, <1>9, <1>10 DEF PromotionInv, Placed
<1> HIDE DEF src
<1> QED BY <1>1, <1>3, <1>4, <1>8, <1>9, <1>10, WorkInv DEF PromotionInv, PromotionTypeOK, Steps

LEMMA ConvertInv ==
  ASSUME PromotionInv, Contained(now), NEW q \in Requests, Convert(q)
  PROVE  PromotionInv'
<1>1. pc[q] = "convert" /\ UNCHANGED <<now, fs, moved, stranger>> /\ Working(q)
  BY DEF Convert, Working
<1>2. /\ failures' \in 0..MaxFailures /\ failures =< failures'
      /\ \/ Goes(q, "done") /\ db' = "folder" /\ failures' = failures
         \/ Goes(q, "undo") /\ db' = db /\ now.fails /\ failures' = failures + 1 /\ failures' > 0
  BY SituationsAssumption DEF Convert, Failing, PromotionInv, PromotionTypeOK
<1>3. PICK step \in {"done", "undo"} : Goes(q, step)
  BY <1>2
<1>4. \A p \in Requests : pc'[p] = IF p = q THEN step ELSE pc[p]
  BY <1>3 DEF PromotionInv, PromotionTypeOK, Goes
<1>5. \/ step = "done" /\ db' = "folder"
      \/ step = "undo" /\ db' = db /\ now.fails /\ failures' > 0
  BY <1>2, <1>4 DEF PromotionInv, PromotionTypeOK, Goes
<1>6. ASSUME Unhurt PROVE stranger <=> "other" \in InFolder'
  BY <1>1, <1>6 DEF PromotionInv, InFolder, Folder
<1>7. ASSUME Placed, Place(q), ~now.two, Unhurt
      PROVE  IF step = "done" THEN AtRest' ELSE Place(q)' /\ failures' > 0
  <2>1. Filed /\ db = "file" /\ q \in moved
    BY <1>1, <1>7 DEF Place
  <2>2. CASE step = "done"
    BY <1>1, <1>5, <2>1, <2>2 DEF AtRest, Filed, IsFolder, InFolder, Folder
  <2>3. CASE step = "undo"
    <3>1. InFolder = {"rom"}
      BY <1>5, <1>7, <2>1, <2>3 DEF PromotionInv, Filed
    <3> QED BY <1>1, <1>4, <1>5, <2>1, <2>3, <3>1 DEF Place, Filed, IsFolder, InFolder, Folder
  <2> QED BY <2>2, <2>3
<1>8. ASSUME Raced, now.two, Unhurt
      PROVE  Raced'
  <2>1. step = "done" /\ db' = "folder"
    BY <1>5, <1>8 DEF Contained
  <2>2. Filed
    BY <1>1, <1>8 DEF Raced
  <2> QED BY <1>1, <1>4, <1>8, <2>1, <2>2 DEF Raced, Filed, IsFolder, InFolder, Folder
<1>9. Stands' /\ fs' \in [Names -> Entry] /\ db' \in {"file", "folder"}
  BY <1>1, <1>2 DEF PromotionInv, PromotionTypeOK, Stands, Names
<1> QED BY <1>1, <1>2, <1>3, <1>6, <1>7, <1>8, <1>9, WorkInv DEF PromotionInv, PromotionTypeOK, Steps

LEMMA UndoInv ==
  ASSUME PromotionInv, Contained(now), NEW q \in Requests, Undo(q)
  PROVE  PromotionInv'
<1> DEFINE dst == IF now.bare THEN "tmp" ELSE "name"
<1>1. /\ pc[q] = "undo" /\ UNCHANGED <<now, db, stranger>> /\ Working(q)
      /\ Folder' = Folder
  BY DEF Undo, Working, Folder
<1>2. dst \in Names /\ dst # Folder /\ Folder \in Names /\ fs \in [Names -> Entry]
  BY FolderFacts DEF Names, Folder, PromotionInv, PromotionTypeOK
<1>3. /\ moved' \subseteq moved /\ moved \ {q} \subseteq moved'
      /\ ~(q \in moved /\ InFinal) => moved' = IF fs["tmp"].kind = "none" THEN moved \ {q} ELSE moved
      /\ q \in moved /\ InFinal => moved' = moved
  BY DEF Undo, IsMoved, PromotionInv, PromotionTypeOK
<1>4. /\ fs' \in [Names -> Entry] /\ Stands'
      /\ failures' \in 0..MaxFailures /\ failures =< failures'
      /\ \/ ~(q \in moved /\ InFinal) /\ fs' = fs /\ Goes(q, "look") /\ failures' = failures
         \/ q \in moved /\ InFinal /\ fs' \in MoveOut(dst) /\ Goes(q, "look") /\ failures' = failures
         \/ q \in moved /\ InFinal /\ fs' = fs /\ Goes(q, "failed") /\ MoveOut(dst) = {}
            /\ failures' = failures
         \/ q \in moved /\ InFinal /\ fs' = fs /\ Goes(q, "failed") /\ now.fails
            /\ failures' = failures + 1
  <2>1. CASE q \in moved /\ InFinal
    <3>1. \A f \in MoveOut(dst) : Sound(f)
      BY <1>2, MoveOutSound DEF PromotionInv
    <3>2. Try(q, MoveOut(dst), "look", "failed")
      BY <2>1 DEF Undo, IsMoved
    <3> HIDE DEF dst
    <3> QED BY <2>1, <3>1, <3>2, TryFacts DEF PromotionInv
  <2>2. CASE ~(q \in moved /\ InFinal)
    <3>1. fs' = fs /\ Goes(q, "look") /\ failures' = failures
      BY <2>2 DEF Undo, IsMoved
    <3>2. failures \in 0..MaxFailures /\ failures =< failures
      BY SituationsAssumption DEF PromotionInv, PromotionTypeOK
    <3> QED BY <1>2, <2>2, <3>1, <3>2 DEF PromotionInv, Stands
  <2> QED BY <2>1, <2>2
<1>5. PICK step \in {"look", "failed"} : Goes(q, step)
  BY <1>4
<1>6. \A p \in Requests : pc'[p] = IF p = q THEN step ELSE pc[p]
  BY <1>5 DEF PromotionInv, PromotionTypeOK, Goes
<1>7. ASSUME Placed, Place(q), ~now.two, Unhurt, failures' =< 1
      PROVE  (stranger <=> "other" \in InFolder') /\ step = "look" /\ Place(q)' /\ failures' > 0
  <2>1. /\ failures \in Nat /\ failures > 0 /\ now.fails /\ ~stranger
        /\ "other" \notin InFolder
    BY <1>1, <1>7, SituationsAssumption DEF PromotionInv, PromotionTypeOK, Placed
  <2>2. CASE q \in moved /\ InFinal
    <3>1. Filed /\ InFolder = {"rom"} /\ db = "file"
      BY <1>1, <1>7, <2>2
         DEF Place, Back, Spare, InFinal, InFolder, Absent, Dir, Home, Folder, File
    <3>2. fs[dst] = Absent
      BY <3>1 DEF Filed
    <3>3. MoveOut(dst) = {[fs EXCEPT ![Folder] = Dir({}), ![dst] = File]}
      BY <1>2, <3>1, <3>2 DEF MoveOut, Absent, InFolder
    <3>4. fs' \in MoveOut(dst) /\ step = "look" /\ failures' > 0
      <4>1. MoveOut(dst) # {}
        BY <3>3
      <4>2. failures' # failures + 1
        BY <1>7, <2>1
      <4>3. fs' \in MoveOut(dst) /\ Goes(q, "look") /\ failures' = failures
        BY <1>4, <2>2, <4>1, <4>2
      <4>4. step = "look"
        BY <1>6, <4>3 DEF PromotionInv, PromotionTypeOK, Goes
      <4> QED BY <2>1, <4>3, <4>4
    <3>5. fs'[Folder] = Dir({}) /\ fs'[dst] = File /\ \A e \in Names \ {dst, Folder} : fs'[e] = fs[e]
      BY <1>2, <3>3, <3>4
    <3>6. Back(q)'
      BY <1>1, <1>3, <2>2, <3>1, <3>5
         DEF Back, Staged, Spare, Home, Filed, Folder, Names
    <3> QED BY <1>1, <1>6, <2>1, <3>4, <3>5, <3>6 DEF Place, InFolder, Dir
  <2>3. CASE ~(q \in moved /\ InFinal)
    <3>1. Back(q)
      BY <1>1, <1>7, <2>3 DEF Place, InFinal
    <3>2. fs' = fs /\ step = "look" /\ failures' > 0
      BY <1>4, <1>6, <2>1, <2>3 DEF PromotionInv, PromotionTypeOK, Goes
    <3>3. now.bare /\ q \in moved => q \in moved'
      BY <1>3, <2>3, <3>1 DEF Back, Staged, File
    <3>4. Back(q)'
      BY <1>1, <1>3, <3>1, <3>2, <3>3 DEF Back, Staged, Spare, Home
    <3> QED BY <1>1, <1>6, <2>1, <3>2, <3>4 DEF Place, InFolder
  <2> QED BY <2>2, <2>3
<1>8. ASSUME Raced, now.two, Unhurt
      PROVE  (stranger <=> "other" \in InFolder') /\ Raced'
  <2>1. q \notin moved /\ Filed
    BY <1>1, <1>8 DEF Raced
  <2>2. fs' = fs /\ step = "look" /\ moved' = moved
    BY <1>3, <1>4, <1>6, <2>1 DEF PromotionInv, PromotionTypeOK, Goes
  <2>3. db = "file" => \E p \in Requests : pc'[p] = "convert"
    BY <1>1, <1>6, <1>8, <2>1 DEF Raced, Filed, Home, Contained, Absent, File
  <2> QED BY <1>1, <1>6, <1>8, <2>1, <2>2, <2>3 DEF Raced, Filed, IsFolder, InFolder, PromotionInv
<1>9. ASSUME Unhurt, failures' =< 1 PROVE stranger <=> "other" \in InFolder'
  BY <1>1, <1>7, <1>8, <1>9 DEF PromotionInv, Placed
<1>10. /\ moved' \subseteq Requests
       /\ now.fails \/ failures' = failures
       /\ \A p \in Requests : p # q => (p \in moved' <=> p \in moved)
  BY <1>3, <1>4 DEF PromotionInv, PromotionTypeOK
<1> HIDE DEF dst
<1> QED BY <1>1, <1>4, <1>5, <1>7, <1>8, <1>9, <1>10, WorkInv DEF PromotionInv, PromotionTypeOK, Steps

LEMMA LookInv ==
  ASSUME PromotionInv, Contained(now), NEW q \in Requests, Look(q)
  PROVE  PromotionInv'
<1>1. /\ pc[q] = "look" /\ UNCHANGED <<now, fs, db, moved, stranger, failures>> /\ Working(q)
      /\ Folder' = Folder /\ InFolder' = InFolder
  BY DEF Look, Working, Folder, InFolder
<1>2. PICK step \in {"remove", "return", "failed"} :
        /\ Goes(q, step)
        /\ step = "remove" <=> IsFolder /\ InFolder = {}
        /\ step = "return" => now.bare /\ q \in moved
        /\ step = "failed" => ~(now.bare /\ q \in moved)
  BY Zenon DEF Look, Dropped
<1>3. \A p \in Requests : pc'[p] = IF p = q THEN step ELSE pc[p]
  BY <1>2 DEF PromotionInv, PromotionTypeOK, Goes
<1>4. ASSUME Placed, Place(q), ~now.two
      PROVE  failures' > 0 /\ IF step = "failed" THEN AtRest' ELSE Place(q)'
  <2>1. Back(q) /\ failures' > 0
    BY <1>1, <1>4 DEF Placed, Place
  <2>2. Back(q)'
    BY <1>1, <2>1 DEF Back, Staged, Spare, Home
  <2>3. CASE step = "remove"
    BY <1>1, <1>2, <1>3, <2>1, <2>2, <2>3 DEF Place, IsFolder
  <2>4. CASE step = "return"
    <3>1. fs["name"] = Absent
      BY <1>2, <2>1, <2>4 DEF Back, Spare, Folder, IsFolder, InFolder, Dir
    <3> QED BY <1>1, <1>2, <1>3, <2>1, <2>2, <2>4, <3>1 DEF Place
  <2>5. CASE step = "failed"
    <3>1. Home /\ Vacant
      BY <1>2, <2>1, <2>5 DEF Back, Spare, Vacant, Folder, IsFolder, InFolder, Dir
    <3> QED BY <1>1, <2>1, <2>5, <3>1 DEF AtRest, Home, Vacant
  <2> QED BY <2>3, <2>4, <2>5
<1>5. ASSUME Raced, now.two
      PROVE  step = "failed" /\ Raced'
  <2>1. Filed /\ ~now.bare
    BY <1>1, <1>5 DEF Raced, Contained
  <2>2. step = "failed"
    BY <1>2, <2>1 DEF Filed
  <2>3. db = "file" => \E p \in Requests : pc'[p] = "convert"
    BY <1>1, <1>3, <1>5, <2>1 DEF Raced, Filed, Home, Absent, File
  <2> QED BY <1>1, <1>3, <1>5, <2>1, <2>2, <2>3 DEF Raced, Filed, IsFolder, InFolder
<1>6. step = "remove" => now.fails /\ InFolder' = {}
  <2>1. ASSUME ~now.fails PROVE step # "remove"
    <3>1. Unhurt /\ failures = 0
      BY <2>1 DEF PromotionInv
    <3> QED BY <1>1, <1>5, <3>1 DEF PromotionInv, Placed, Working
  <2> QED BY <1>1, <1>2, <2>1
<1>7. Stands' /\ fs' \in [Names -> Entry] /\ db' \in {"file", "folder"} /\ moved' \subseteq Requests
      /\ failures' \in 0..MaxFailures /\ failures =< failures'
  BY <1>1, SituationsAssumption DEF PromotionInv, PromotionTypeOK, Stands, Names
<1> QED BY <1>1, <1>2, <1>4, <1>5, <1>6, <1>7, WorkInv DEF PromotionInv, PromotionTypeOK, Steps

LEMMA RemoveInv ==
  ASSUME PromotionInv, Contained(now), NEW q \in Requests, Remove(q)
  PROVE  PromotionInv'
<1> DEFINE results == IF IsFolder THEN {[fs EXCEPT ![Folder] = Absent]} ELSE {}
<1> DEFINE next == Dropped(q)
<1>1. /\ pc[q] = "remove" /\ UNCHANGED <<now, db, moved, stranger>> /\ Working(q)
      /\ Folder' = Folder /\ next \in {"return", "failed"}
      /\ next = "return" <=> now.bare /\ q \in moved
  BY DEF Remove, Working, Folder, Dropped
<1>2. /\ InFolder = {} /\ now.fails /\ ~now.two /\ ~stranger
      /\ Folder \in Names /\ fs \in [Names -> Entry]
  BY <1>1, FolderFacts DEF Contained, PromotionInv, PromotionTypeOK, Names
<1>3. \A f \in results : Sound(f)
  <2>1. SUFFICES ASSUME IsFolder PROVE Sound([fs EXCEPT ![Folder] = Absent])
    OBVIOUS
  <2>2. ~Holds(fs[Folder])
    BY <1>2, <2>1 DEF Holds, IsFolder, InFolder
  <2>3. Absent \in Entry
    BY DEF Entry
  <2> QED BY <1>2, <2>2, <2>3 DEF Sound, Stands, Names
<1>4. /\ fs' \in [Names -> Entry] /\ Stands'
      /\ failures' \in 0..MaxFailures /\ failures =< failures'
      /\ \/ fs' \in results /\ Goes(q, next) /\ failures' = failures
         \/ fs' = fs /\ Goes(q, "failed") /\ results = {} /\ failures' = failures
         \/ fs' = fs /\ Goes(q, "failed") /\ now.fails /\ failures' = failures + 1
  <2>1. Try(q, results, next, "failed")
    BY DEF Remove
  <2> HIDE DEF results, next
  <2> QED BY <1>3, <2>1, TryFacts DEF PromotionInv
<1>5. PICK step \in {"return", "failed"} : Goes(q, step)
  BY <1>1, <1>4
<1>6. \A p \in Requests : pc'[p] = IF p = q THEN step ELSE pc[p]
  BY <1>5 DEF PromotionInv, PromotionTypeOK, Goes
<1>7. "other" \notin InFolder'
  <2>1. fs' = fs \/ fs'[Folder] = Absent
    BY <1>2, <1>4
  <2> QED BY <1>1, <1>2, <2>1 DEF InFolder, Absent
<1>8. ASSUME Placed, Place(q), failures' =< 1
      PROVE  failures' > 0 /\ IF step = "failed" THEN AtRest' ELSE Place(q)'
  <2>1. Back(q) /\ IsFolder /\ failures \in Nat /\ failures > 0
    BY <1>1, <1>8, SituationsAssumption DEF Placed, Place, PromotionInv, PromotionTypeOK
  <2>2. results = {[fs EXCEPT ![Folder] = Absent]} /\ failures' # failures + 1
    BY <1>8, <2>1
  <2>3. fs' \in results /\ Goes(q, next) /\ failures' > 0
    BY <1>4, <2>1, <2>2
  <2>4. fs'[Folder] = Absent /\ \A e \in Names \ {Folder} : fs'[e] = fs[e]
    BY <1>2, <2>2, <2>3
  <2>5. step = next
    BY <1>6, <2>3 DEF PromotionInv, PromotionTypeOK, Goes
  <2>6. CASE now.bare /\ q \in moved
    BY <1>1, <1>6, <2>1, <2>3, <2>4, <2>5, <2>6 DEF Place, Back, Staged, Spare, Folder, Names
  <2>7. CASE ~(now.bare /\ q \in moved)
    <3>1. ~now.bare
      BY <2>1, <2>7 DEF Back, Home, IsFolder, Folder, File
    <3> QED BY <1>1, <2>1, <2>3, <2>4, <2>5, <2>7, <3>1
            DEF Back, AtRest, Home, Vacant, Folder, Names
  <2> QED BY <2>6, <2>7
<1>9. db' \in {"file", "folder"} /\ moved' \subseteq Requests
  BY <1>1 DEF PromotionInv, PromotionTypeOK
<1> HIDE DEF results, next
<1> QED BY <1>1, <1>2, <1>4, <1>5, <1>7, <1>8, <1>9, WorkInv DEF Steps

LEMMA ReturnInv ==
  ASSUME PromotionInv, Contained(now), NEW q \in Requests, Return(q)
  PROVE  PromotionInv'
<1>1. /\ pc[q] = "return" /\ UNCHANGED <<now, db, moved, stranger>> /\ Working(q)
      /\ Folder' = Folder
  BY DEF Return, Working, Folder
<1>2. /\ fs' \in [Names -> Entry] /\ Stands'
      /\ failures' \in 0..MaxFailures /\ failures =< failures'
      /\ \/ fs' \in MoveTo("tmp", "name") /\ Goes(q, "failed") /\ failures' = failures
         \/ fs' = fs /\ Goes(q, "failed") /\ MoveTo("tmp", "name") = {} /\ failures' = failures
         \/ fs' = fs /\ Goes(q, "failed") /\ now.fails /\ failures' = failures + 1
  BY TryFacts, MoveToSound DEF Return, PromotionInv, Names
<1>3. Goes(q, "failed") /\ (now.fails \/ failures' = failures)
  BY <1>2
<1>4. ASSUME Placed, Place(q), ~now.two, Unhurt, failures' =< 1
      PROVE  (stranger <=> "other" \in InFolder') /\ AtRest'
  <2>1. /\ Staged /\ fs["name"] = Absent /\ now.bare
        /\ failures \in Nat /\ failures > 0 /\ ~stranger
    BY <1>1, <1>4, SituationsAssumption
       DEF Placed, Place, Back, PromotionInv, PromotionTypeOK
  <2>2. MoveTo("tmp", "name") = {[fs EXCEPT !["tmp"] = Absent, !["name"] = File]}
    BY <2>1 DEF MoveTo, Staged, File, Absent
  <2>3. fs' = [fs EXCEPT !["tmp"] = Absent, !["name"] = File]
    <3>1. failures' # failures + 1
      BY <1>4, <2>1
    <3>2. fs' \in MoveTo("tmp", "name")
      BY <1>2, <2>2, <3>1
    <3> QED BY <2>2, <3>2
  <2>4. fs'["tmp"] = Absent /\ fs'["name"] = File
    BY <2>3 DEF PromotionInv, PromotionTypeOK
  <2> QED BY <1>1, <2>1, <2>4 DEF AtRest, Home, Staged, Vacant, InFolder, Folder, File
<1>5. ASSUME Unhurt, now.two PROVE ~Raced
  BY <1>1 DEF Raced
<1>6. ASSUME Unhurt, failures' =< 1 PROVE stranger <=> "other" \in InFolder'
  BY <1>1, <1>4, <1>5, <1>6 DEF PromotionInv, Placed
<1> QED BY <1>1, <1>2, <1>3, <1>4, <1>5, <1>6, WorkInv DEF PromotionInv, PromotionTypeOK, Steps

LEMMA DieInv ==
  ASSUME PromotionInv, Contained(now), NEW q \in Requests, Die(q)
  PROVE  PromotionInv'
<1>1. /\ Working(q) /\ Goes(q, "gone") /\ UNCHANGED <<now, fs, db, moved, stranger>>
      /\ now.fails /\ failures' \in 0..MaxFailures
      /\ Folder' = Folder /\ InFolder' = InFolder
  BY SituationsAssumption DEF Die, Failing, PromotionInv, PromotionTypeOK, Folder, InFolder
<1>2. \A p \in Requests : pc'[p] = IF p = q THEN "gone" ELSE pc[p]
  BY <1>1 DEF PromotionInv, PromotionTypeOK, Goes
<1>3. Apart'
  BY <1>1, StaysAlone DEF PromotionInv, Contained, Steps
<1>4. PromotionTypeOK' /\ Stands'
  BY <1>1 DEF PromotionInv, PromotionTypeOK, Goes, Steps, Stands
<1>5. ~Unhurt'
  BY <1>2 DEF Unhurt
<1> QED BY <1>1, <1>2, <1>3, <1>4, <1>5 DEF PromotionInv

LEMMA IntrudeInv ==
  ASSUME PromotionInv, Contained(now), Intrude
  PROVE  PromotionInv'
<1>1. /\ fs[Folder].kind # "file" /\ (now.bare => IsFolder) /\ ~stranger /\ stranger' = TRUE
      /\ fs' = [fs EXCEPT ![Folder] = Dir(fs[Folder].in \cup {"other"})]
      /\ UNCHANGED <<now, db, pc, moved, failures>> /\ Folder' = Folder
      /\ now.shared
  BY DEF Intrude, Folder
<1>2. Folder \in Names /\ fs \in [Names -> Entry] /\ InFolder \cup {"other"} \in SUBSET Insides
  BY FolderFacts DEF PromotionInv, PromotionTypeOK, Names, InFolder, Insides
<1>3. /\ fs'[Folder] = Dir(InFolder \cup {"other"}) /\ InFolder' = InFolder \cup {"other"} /\ IsFolder'
      /\ \A e \in Names \ {Folder} : fs'[e] = fs[e]
  BY <1>1, <1>2 DEF InFolder, IsFolder, Dir
<1>4. fs' \in [Names -> Entry]
  BY <1>1, <1>2, DirEntry DEF InFolder
<1>5. PromotionTypeOK'
  <2>1. stranger' \in BOOLEAN
    BY <1>1, Zenon
  <2> QED BY <1>1, <1>4, <2>1 DEF PromotionInv, PromotionTypeOK, Names
<1>6. Stands'
  <2>1. Holds(fs[Folder]) => Holds(fs'[Folder])
    BY <1>1, <1>3 DEF Holds, Dir, InFolder
  <2> QED BY <1>2, <1>3, <2>1 DEF PromotionInv, Stands, Names
<1>7. ~now.fails /\ failures = 0 /\ Unhurt /\ Unhurt'
  BY <1>1 DEF Contained, PromotionInv, Unhurt
<1>8. ~now.two => Apart'
  BY <1>1 DEF PromotionInv, Apart, Working
<1>9. ASSUME now.two PROVE Raced'
  <2>1. Raced /\ ~now.bare /\ Folder = "folder"
    BY <1>7, <1>9 DEF PromotionInv, Contained, Folder
  <2>2. fs'["name"] = fs["name"] /\ fs'["tmp"] = fs["tmp"]
    BY <1>3, <2>1 DEF Names
  <2>3. CASE Filed
    BY <1>1, <1>3, <2>1, <2>2, <2>3 DEF Raced, Filed, Home, Absent, File
  <2>4. CASE /\ Home /\ moved = {} /\ (fs[Folder] = Absent \/ Hollow)
             /\ \A p \in Requests : pc[p] \in {"idle", "make", "move", "failed"}
    <3>1. Hollow' /\ fs'[Folder] # Dir({})
      BY <1>3, <2>4 DEF Hollow, InFolder, Absent, Dir
    <3> QED BY <1>1, <2>1, <2>2, <2>4, <3>1 DEF Raced, Home
  <2> QED BY <2>1, <2>3, <2>4 DEF Raced
<1>10. ASSUME ~now.two PROVE Placed'
  <2>1. Placed
    BY <1>7, <1>10 DEF PromotionInv
  <2>2. ASSUME AtRest PROVE AtRest'
    <3>1. CASE db = "folder"
      BY <1>1, <1>3, <2>2, <3>1 DEF AtRest, Filed, Folder, Names
    <3>2. CASE db # "folder"
      <4>1. ~now.bare /\ Home /\ InFolder \subseteq {"other"}
        BY <1>1, <2>2, <3>2 DEF AtRest, Home, Vacant, IsFolder, InFolder, Folder, Absent, Dir, File
      <4>2. InFolder \cup {"other"} = {"other"}
        BY <4>1
      <4> QED BY <1>1, <1>3, <3>2, <4>1, <4>2 DEF AtRest, Home, Vacant, Folder, Names
    <3> QED BY <3>1, <3>2
  <2>3. ASSUME NEW q \in Requests, Working(q) PROVE Place(q)'
    <3>1. Place(q) /\ pc[q] \notin {"undo", "look", "remove", "return"}
      BY <1>7, <2>1, <2>3 DEF Placed
    <3>2. CASE now.bare
      BY <1>1, <1>3, <3>1, <3>2
         DEF Place, Home, Staged, Hollow, Filed, IsFolder, Folder, Names, File, Absent
    <3>3. CASE ~now.bare
      BY <1>1, <1>3, <3>1, <3>3
         DEF Place, Home, Vacant, Hollow, Filed, IsFolder, InFolder, Folder, Names, File, Absent, Dir
    <3> QED BY <3>2, <3>3
  <2> QED BY <1>1, <1>7, <2>1, <2>2, <2>3 DEF Placed, Working
<1> QED BY <1>1, <1>3, <1>5, <1>6, <1>7, <1>8, <1>9, <1>10 DEF PromotionInv

LEMMA PromotionNextInv ==
  ASSUME PromotionInv, [PromotionNext]_promotionVars, Contained(now)
  PROVE  PromotionInv'
<1>1. CASE Intrude
  BY <1>1, IntrudeInv
<1>2. ASSUME NEW q \in Requests, Promote(q)
      PROVE  PromotionInv'
  BY <1>2, EnterInv, StageInv, MakeInv, MoveInv, ConvertInv, UndoInv, LookInv, RemoveInv, ReturnInv
     DEF Promote
<1>3. ASSUME NEW q \in Requests, Die(q)
      PROVE  PromotionInv'
  BY <1>3, DieInv
<1>4. CASE UNCHANGED promotionVars
  BY <1>4 DEF promotionVars, PromotionInv, PromotionTypeOK, Stands, Apart, Working, Unhurt, Raced, Placed,
              Place, AtRest, Home, Staged, Filed, Hollow, Vacant, Spare, Back, IsFolder, InFolder, Folder
<1> QED BY <1>1, <1>2, <1>3, <1>4 DEF PromotionNext

\* In the situations a promotion withstands, for any number of requests, failures and deaths.
LEMMA PromotionInvariance ==
  ASSUME \A s \in Situations : Contained(s)
  PROVE  PromotionSpec => []PromotionInv
<1>1. PromotionInit => PromotionInv
  BY PromotionInitInv DEF PromotionInit
<1>2. PromotionInv /\ [PromotionNext]_promotionVars => PromotionInv'
  BY PromotionNextInv DEF PromotionInv, PromotionTypeOK
<1> QED BY <1>1, <1>2, PTL DEF PromotionSpec

-----------------------------------------------------------------------------
\* In the contained situations, and there however many requests come, steps fail and processes
\* die, the game's file is somewhere, and a game that somebody else has put into the folder is
\* not removed with it.  (_promote, _restore, _drop_dir)
THEOREM PromotionsLoseNothing ==
  ASSUME \A s \in Situations : Contained(s)
  PROVE  PromotionSpec => []NothingLost
<1>1. ASSUME PromotionInv PROVE NothingLost
  <2>1. stranger => "other" \in InFolder
    BY <1>1 DEF PromotionInv
  <2>2. Folder \in {"name", "folder", "tmp"}
    BY <1>1, FolderFacts DEF PromotionInv, Names
  <2> QED BY <1>1, <2>1, <2>2 DEF PromotionInv, NothingLost, Stands, InFolder
<1> QED BY <1>1, PromotionInvariance, PTL

\* As long as at most one step has failed, the row says where the file is whenever no
\* promotion is at work: what a failing one has done is undone, and a second failure, that
\* of the undo itself, is all that can leave the file astray.  (_promote, _restore)
THEOREM RowsMatchTheDisk ==
  ASSUME \A s \in Situations : Contained(s)
  PROVE  PromotionSpec => [](failures =< 1 => RowMatchesDisk)
<1>1. ASSUME PromotionInv, failures =< 1 PROVE RowMatchesDisk
  <2> SUFFICES ASSUME \A q \in Requests : pc[q] \in {"idle", "failed", "done"}
               PROVE  IF db = "folder" THEN "rom" \in InFolder /\ fs["tmp"] = Absent
                      ELSE /\ fs["name"] = File /\ fs["tmp"] = Absent
                           /\ IsFolder => InFolder = {"other"}
    BY DEF RowMatchesDisk
  <2>1. Unhurt /\ \A q \in Requests : ~Working(q)
    BY <1>1 DEF Unhurt, Working
  <2>2. CASE now.two
    <3>1. Raced
      BY <1>1, <2>1, <2>2 DEF PromotionInv
    <3>2. CASE Filed /\ (db = "file" => \E q \in Requests : pc[q] = "convert")
      BY <1>1, <3>2 DEF Filed, PromotionInv, PromotionTypeOK
    <3>3. CASE Home /\ (fs[Folder] = Absent \/ Hollow) /\ fs[Folder] # Dir({})
      <4>1. ASSUME IsFolder PROVE InFolder # {}
        BY <1>1, <3>3, <4>1, FolderFacts DEF PromotionInv, IsFolder, InFolder
      <4> QED BY <3>3, <4>1 DEF Home, Hollow, IsFolder, Absent
    <3> QED BY <3>1, <3>2, <3>3 DEF Raced
  <2>3. CASE ~now.two
    <3>1. AtRest
      BY <1>1, <2>1, <2>3 DEF PromotionInv, Placed
    <3> QED BY <1>1, <3>1
            DEF AtRest, Filed, Home, Vacant, IsFolder, InFolder, Folder, File, Absent, Dir
  <2> QED BY <2>2, <2>3
<1> QED BY <1>1, PromotionInvariance, PTL
=============================================================================
