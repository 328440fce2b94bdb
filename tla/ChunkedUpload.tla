--------------------------- MODULE ChunkedUpload ---------------------------
(***************************************************************************)
(* Uploading a ROM in chunks: a session and a set of received chunks in    *)
(* Redis, the chunks as files in a temporary directory, and a completion   *)
(* that assembles them into the library.  Requests of one upload run on    *)
(* several workers at once: a chunk the client gave up on and sent again   *)
(* is still being written by the first request, completions and            *)
(* cancellations overlap, and a worker may die in any of them.             *)
(*   endpoints/roms/upload.py, tasks/scheduled/cleanup_upload_tmp.py;      *)
(*   the client's part: uploadRomChunked in frontend services/api/rom.ts   *)
(* A step is what a request does between two points at which another       *)
(* request can get in; the length of a chunk is abstracted to whether it   *)
(* is all there.                                                           *)
(***************************************************************************)
EXTENDS Integers, FiniteSets

CONSTANTS
  Uploads,      \* upload ids
  Completers,   \* upload -> its complete requests
  Cancelling,   \* uploads whose client cancels, at any moment
  Total,        \* upload -> total_chunks
  Target,       \* upload -> the path in the library it lands at
  None,         \* no file
  MaxTries,     \* upload -> bounds how often the client sends one chunk of it
  MaxLingering, \* bounds an upload's abandoned requests that still run
  MaxMishaps    \* bounds the streams that break off and the workers that die

ASSUME UploadsAssumption == IsFiniteSet(Uploads) /\ Cancelling \subseteq Uploads
ASSUME CompletersAssumption == \A u \in Uploads : IsFiniteSet(Completers[u])
ASSUME TotalAssumption   == Total \in [Uploads -> Nat \ {0}]
ASSUME BoundsAssumption  == MaxTries \in [Uploads -> Nat] /\ MaxLingering \in Nat /\ MaxMishaps \in Nat

Paths     == {Target[u] : u \in Uploads}
Chunks(u) == 1..Total[u]
Tries(u)  == 1..MaxTries[u]

VARIABLES
  session,   \* upload -> its session key: "none" yet, "live", "gone"
  received,  \* upload -> the set of chunks in Redis
  tmp,       \* upload -> whether its temporary directory exists
  file,      \* upload -> chunk -> what its file holds
  put,       \* upload -> chunk -> attempt -> where that request is
  job,       \* upload -> completer -> where that complete request is
  cancel,    \* upload -> where its cancellation is
  lib,       \* path -> what is in the library
  mishaps

vars == <<session, received, tmp, file, put, job, cancel, lib, mishaps>>

(* "short": less than the whole chunk; "holed": of the right length, with zeros
   in the middle. *)
Contents == {"short", "holed", "whole"}

(* A request that writes a chunk: "ready" has read the session, "open" is the last
   to have opened the file, "lag" had it open before that and writes on at its own
   position, "stale" writes to a file that has been unlinked. *)
Writing  == {"open", "lag", "stale"}
PutState == {"idle", "ready", "done", "failed"} \cup Writing

JobState ==
  [pc : {"idle", "counted", "claimed", "reading", "checked", "replacing", "cleaning", "over", "cut"},
   next : Nat, data : Contents]

Empty(u) == [by |-> u, data |-> "empty"]   \* the placeholder of _claim_destination

InLib == [by : Uploads, data : Contents \cup {"empty"}]

ASSUME NoneAssumption == None \notin InLib

TypeOK ==
  /\ session \in [Uploads -> {"none", "live", "gone"}]
  /\ tmp \in [Uploads -> BOOLEAN]
  /\ cancel \in [Uploads -> {"idle", "read", "over"}] /\ mishaps \in 0..MaxMishaps
  /\ lib \in [Paths -> InLib \cup {None}]
  /\ \A f \in {job, received, file, put} : DOMAIN f = Uploads
  /\ \A u \in Uploads :
       /\ job[u] \in [Completers[u] -> JobState]
       /\ received[u] \subseteq Chunks(u)
       /\ file[u] \in [Chunks(u) -> Contents \cup {None}]
       /\ put[u] \in [Chunks(u) -> [Tries(u) -> PutState]]

Init ==
  /\ session = [u \in Uploads |-> "none"]
  /\ received = [u \in Uploads |-> {}]
  /\ tmp = [u \in Uploads |-> FALSE]
  /\ file = [u \in Uploads |-> [i \in Chunks(u) |-> None]]
  /\ put = [u \in Uploads |-> [i \in Chunks(u) |-> [n \in Tries(u) |-> "idle"]]]
  /\ job = [u \in Uploads |-> [r \in Completers[u] |-> [pc |-> "idle", next |-> 1, data |-> "whole"]]]
  /\ cancel = [u \in Uploads |-> "idle"]
  /\ lib = [p \in Paths |-> None]
  /\ mishaps = 0

-----------------------------------------------------------------------------
(* Files. *)

\* The requests of `of` that had a file open keep it when its name is gone.
Unlinked(of) == [n \in DOMAIN of |-> IF of[n] \in Writing THEN "stale" ELSE of[n]]

\* _cleanup_tmp: the directory goes with every chunk in it.
RemoveTmp(u) ==
  /\ tmp' = [tmp EXCEPT ![u] = FALSE]
  /\ file' = [file EXCEPT ![u] = [i \in Chunks(u) |-> None]]
  /\ put' = [put EXCEPT ![u] = [i \in Chunks(u) |-> Unlinked(put[u][i])]]

\* _cleanup_upload_state
CleanupState(u) == RemoveTmp(u) /\ received' = [received EXCEPT ![u] = {}]

-----------------------------------------------------------------------------
(* The client, which sends one chunk after the other and each up to MaxTries times. *)

Sent(u, i)   == {n \in Tries(u) : put[u][i][n] # "idle"}
Acked(u, i)  == \E n \in Sent(u, i) : put[u][i][n] = "done" /\ \A o \in Sent(u, i) : o <= n
Lingering(u) == {s \in Chunks(u) \X Tries(u) : put[u][s[1]][s[2]] \in Writing \cup {"ready"}}

Start(u) ==
  /\ session[u] = "none"
  /\ lib[Target[u]] = None
  /\ session' = [session EXCEPT ![u] = "live"]
  /\ tmp' = [tmp EXCEPT ![u] = TRUE]
  /\ UNCHANGED <<received, file, put, job, cancel, lib, mishaps>>

\* A chunk arrives, for the first time or again because the answer to the attempt
\* before did not: the session is there.
Send(u, i, n) ==
  /\ session[u] = "live" /\ cancel[u] = "idle"
  /\ put[u][i][n] = "idle"
  /\ \A o \in 1..(n - 1) : o \in Sent(u, i)
  /\ \A j \in 1..(i - 1) : Acked(u, j)
  /\ \A j \in Chunks(u) : j > i => Sent(u, j) = {}
  /\ \A r \in Completers[u] : job[u][r].pc = "idle"
  /\ Cardinality(Lingering(u)) <= MaxLingering
  /\ put' = [put EXCEPT ![u][i][n] = "ready"]
  /\ UNCHANGED <<session, received, tmp, file, job, cancel, lib, mishaps>>

-----------------------------------------------------------------------------
(* upload_chunk, from its read of the session on. *)

\* The file is opened for writing and thereby truncated, whoever else has it open.
Open(u, i, n) ==
  /\ put[u][i][n] = "ready"
  /\ tmp[u]
  /\ file' = [file EXCEPT ![u][i] = "short"]
  /\ put' = [put EXCEPT ![u][i] = [o \in Tries(u) |->
               IF o = n THEN "open" ELSE IF @[o] = "open" THEN "lag" ELSE @[o]]]
  /\ UNCHANGED <<session, received, tmp, job, cancel, lib, mishaps>>

\* The body is written out and the chunk recorded.  A request that lost its file to
\* a later one leaves the length of a whole chunk with a gap before its position.
Finish(u, i, n) ==
  /\ put[u][i][n] \in Writing
  /\ file' = [file EXCEPT ![u][i] =
       CASE put[u][i][n] = "open" -> "whole"
         [] put[u][i][n] = "lag"  -> IF @ = "short" THEN "holed" ELSE @
         [] OTHER -> @]
  /\ put' = [put EXCEPT ![u][i][n] = "done"]
  /\ received' = [received EXCEPT ![u] = @ \cup {i}]
  /\ UNCHANGED <<session, tmp, job, cancel, lib, mishaps>>

\* The directory is gone, or the stream breaks off: whatever is at the chunk's path by
\* now is unlinked.
Fail(u, i, n) ==
  /\ put[u][i][n] \in Writing \cup {"ready"}
  /\ IF put[u][i][n] = "ready" /\ ~tmp[u] THEN UNCHANGED mishaps
                                         ELSE mishaps < MaxMishaps /\ mishaps' = mishaps + 1
  /\ file' = [file EXCEPT ![u][i] = None]
  /\ put' = [put EXCEPT ![u][i] = [Unlinked(@) EXCEPT ![n] = "failed"]]
  /\ UNCHANGED <<session, received, tmp, job, cancel, lib>>

-----------------------------------------------------------------------------
(* complete_chunked_upload *)

At(u, r, pc) == job[u][r].pc = pc
Go(u, r, pc) == job' = [job EXCEPT ![u][r].pc = pc]

\* What was read so far no longer matters.
Quit(u, r, pc) == job' = [job EXCEPT ![u][r] = [pc |-> pc, next |-> 1, data |-> "whole"]]

Count(u, r) ==
  /\ At(u, r, "idle") /\ session[u] = "live" /\ cancel[u] = "idle"
  /\ \A i \in Chunks(u) : Acked(u, i)
  /\ Go(u, r, IF received[u] = Chunks(u) THEN "counted" ELSE "over")
  /\ UNCHANGED <<session, received, tmp, file, put, cancel, lib, mishaps>>

\* Mutated: whether the delete deleted anything is not looked at.
ClaimUnasked(u, r) ==
  /\ At(u, r, "counted")
  /\ Go(u, r, "claimed")
  /\ session' = [session EXCEPT ![u] = "gone"]
  /\ UNCHANGED <<received, tmp, file, put, cancel, lib, mishaps>>

\* Deleting the session key is the claim: only one delete reports that it deleted.
Claim(u, r) ==
  /\ At(u, r, "counted")
  /\ Go(u, r, IF session[u] = "live" THEN "claimed" ELSE "over")
  /\ session' = [session EXCEPT ![u] = "gone"]
  /\ UNCHANGED <<received, tmp, file, put, cancel, lib, mishaps>>

\* _resolve_destination and make_directory.  A destination that is taken by now ends
\* the upload; a directory that cannot be made ends the request and leaves the chunks.
Resolve(u, r) ==
  /\ At(u, r, "claimed")
  /\ \/ Go(u, r, "reading")
     \/ lib[Target[u]] # None /\ Quit(u, r, "cleaning")
     \/ Quit(u, r, "over")
  /\ UNCHANGED <<session, received, tmp, file, put, cancel, lib, mishaps>>

Worse(a, b) == IF "short" \in {a, b} THEN "short" ELSE IF "holed" \in {a, b} THEN "holed" ELSE "whole"

\* The next chunk is appended as it is at this moment; one that is missing ends it.
Read(u, r) ==
  /\ At(u, r, "reading")
  /\ LET i == job[u][r].next
     IN IF file[u][i] = None THEN Quit(u, r, "cleaning")
        ELSE job' = [job EXCEPT ![u][r].data = Worse(@, file[u][i]), ![u][r].next = i + 1,
                                ![u][r].pc = IF i = Total[u] THEN "checked" ELSE @]
  /\ UNCHANGED <<session, received, tmp, file, put, cancel, lib, mishaps>>

\* Mutated: the assembled size is not compared.
ClaimDestinationUnsized(u, r) ==
  /\ At(u, r, "checked")
  /\ IF lib[Target[u]] = None
       THEN Go(u, r, "replacing") /\ lib' = [lib EXCEPT ![Target[u]] = Empty(u)]
       ELSE Quit(u, r, "cleaning") /\ UNCHANGED lib
  /\ UNCHANGED <<session, received, tmp, file, put, cancel, mishaps>>

\* Mutated: without O_EXCL.
ClaimDestinationShared(u, r) ==
  /\ At(u, r, "checked")
  /\ IF job[u][r].data # "short"
       THEN Go(u, r, "replacing") /\ lib' = [lib EXCEPT ![Target[u]] = Empty(u)]
       ELSE Quit(u, r, "cleaning") /\ UNCHANGED lib
  /\ UNCHANGED <<session, received, tmp, file, put, cancel, mishaps>>

\* The size is compared with the declared one, and the final path created exclusively.
ClaimDestination(u, r) ==
  /\ At(u, r, "checked")
  /\ IF job[u][r].data # "short" /\ lib[Target[u]] = None
       THEN Go(u, r, "replacing") /\ lib' = [lib EXCEPT ![Target[u]] = Empty(u)]
       ELSE Quit(u, r, "cleaning") /\ UNCHANGED lib
  /\ UNCHANGED <<session, received, tmp, file, put, cancel, mishaps>>

\* Mutated: a failed rename leaves the placeholder.
ReplaceForgetting(u, r) ==
  /\ At(u, r, "replacing")
  /\ Quit(u, r, "cleaning")
  /\ lib' \in {[lib EXCEPT ![Target[u]] = [by |-> u, data |-> job[u][r].data]], lib}
  /\ UNCHANGED <<session, received, tmp, file, put, cancel, mishaps>>

\* The rename onto the placeholder, or its failure, which takes the placeholder away.
Replace(u, r) ==
  /\ At(u, r, "replacing")
  /\ Quit(u, r, "cleaning")
  /\ lib' \in {[lib EXCEPT ![Target[u]] = [by |-> u, data |-> job[u][r].data]],
               [lib EXCEPT ![Target[u]] = None]}
  /\ UNCHANGED <<session, received, tmp, file, put, cancel, mishaps>>

Clean(u, r) ==
  /\ At(u, r, "cleaning")
  /\ CleanupState(u)
  /\ Quit(u, r, "over")
  /\ UNCHANGED <<session, cancel, lib, mishaps>>

-----------------------------------------------------------------------------
(* cancel_chunked_upload, and what happens on its own. *)

CancelRead(u) ==
  /\ u \in Cancelling /\ cancel[u] = "idle" /\ session[u] = "live"
  /\ cancel' = [cancel EXCEPT ![u] = "read"]
  /\ UNCHANGED <<session, received, tmp, file, put, job, lib, mishaps>>

CancelClean(u) ==
  /\ cancel[u] = "read"
  /\ cancel' = [cancel EXCEPT ![u] = "over"]
  /\ session' = [session EXCEPT ![u] = "gone"]
  /\ CleanupState(u)
  /\ UNCHANGED <<job, lib, mishaps>>

\* The session's TTL counts from the start and no chunk renews it.
Expire(u) ==
  /\ session[u] = "live"
  /\ session' = [session EXCEPT ![u] = "gone"]
  /\ UNCHANGED <<received, tmp, file, put, job, cancel, lib, mishaps>>

\* Mutated: a directory whose chunks are still recorded is spared.
CleanupTaskUnrecorded(u) ==
  /\ tmp[u] /\ session[u] = "gone"
  /\ received[u] = {}
  /\ RemoveTmp(u)
  /\ UNCHANGED <<session, received, job, cancel, lib, mishaps>>

\* CleanupUploadTmpTask: a directory nothing was added to for as long as a session
\* lives.  By then its session is gone, but a slow request, or a completion that got its
\* session in time, may still be at work in it.
CleanupTask(u) ==
  /\ tmp[u] /\ session[u] = "gone"
  /\ RemoveTmp(u)
  /\ UNCHANGED <<session, received, job, cancel, lib, mishaps>>

\* A worker dies in the middle of a request, which cleans nothing up.
Crash(u) ==
  /\ mishaps < MaxMishaps
  /\ mishaps' = mishaps + 1
  /\ \/ \E i \in Chunks(u), n \in Tries(u) :
          /\ put[u][i][n] \in Writing \cup {"ready"}
          /\ put' = [put EXCEPT ![u][i][n] = "failed"]
          /\ UNCHANGED <<job, cancel>>
     \/ \E r \in Completers[u] :
          /\ job[u][r].pc \notin {"idle", "over", "cut"}
          /\ Quit(u, r, "cut")
          /\ UNCHANGED <<put, cancel>>
     \/ /\ cancel[u] = "read"
        /\ cancel' = [cancel EXCEPT ![u] = "over"]
        /\ UNCHANGED <<put, job>>
  /\ UNCHANGED <<session, received, tmp, file, lib>>

-----------------------------------------------------------------------------

PutStep(u) == \E i \in Chunks(u), n \in Tries(u) : Open(u, i, n) \/ Finish(u, i, n) \/ Fail(u, i, n)

JobStep(u, r) ==
  \/ Claim(u, r) \/ Resolve(u, r) \/ Read(u, r)
  \/ ClaimDestination(u, r) \/ Replace(u, r) \/ Clean(u, r)

\* What goes on without the client.
Own(u) ==
  \/ PutStep(u) \/ (\E r \in Completers[u] : JobStep(u, r))
  \/ CancelClean(u) \/ Expire(u) \/ CleanupTask(u)

Next ==
  \E u \in Uploads :
    \/ Start(u) \/ CancelRead(u) \/ Crash(u) \/ Own(u)
    \/ \E i \in Chunks(u), n \in Tries(u) : Send(u, i, n)
    \/ \E r \in Completers[u] : Count(u, r)

Spec == Init /\ [][Next]_vars

\* Requests that run end, Redis forgets the session, and the hourly task runs.  Nobody
\* has to send, complete or cancel anything.
Fairness == WF_vars(\E u \in Uploads : Own(u))

FairSpec == Spec /\ Fairness

-----------------------------------------------------------------------------
(* Properties. *)

\* What the library holds under an upload's name has every chunk at its full length,
\* although a chunk sent again is truncated under a completion (upload.py 480-497).
PublishedFullLength ==
  \A p \in Paths : lib[p] # None => lib[p].data # "short"

\* Two completions for one path, of one upload or of two, do not overwrite each
\* other's bytes (_claim_destination).
NeverOverwritten ==
  [][\A p \in Paths : lib[p] # None /\ lib[p].data # "empty" => lib'[p] = lib[p]]_vars

\* An empty file stands in the library only while the completion that put it there
\* is about to replace it, or if its worker died at that very point (499-508).
NoPlaceholderLeft ==
  \A p \in Paths : lib[p] # None /\ lib[p].data = "empty" =>
    \E r \in Completers[lib[p].by] : job[lib[p].by][r].pc \in {"replacing", "cut"}

\* Uploads are a library that gives every upload one go at its path.  Who may still get
\* it: an upload whose session is there, and a completion that deleted it and has not come
\* to the path yet (the one delete that counts, upload.py 453-456).
Assembling(u, r) == job[u][r].pc \in {"claimed", "reading", "checked"}
Entitled ==
  {u \in Uploads : session[u] # "gone" \/ \E r \in Completers[u] : Assembling(u, r)}

Library == INSTANCE LibraryPaths WITH content <- lib, entitled <- Entitled
PathsKept == Library!PathsSpec

\* Chunks do not stay on disk for ever, however the upload ends.
TmpReclaimed == <>[](\A u \in Uploads : ~tmp[u])
=============================================================================
