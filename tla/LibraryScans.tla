---------------------------- MODULE LibraryScans ----------------------------
(***************************************************************************)
(* Keeping the library in step with the files: a watcher process gets      *)
(* batches of changes and schedules delayed scans, users and the clock     *)
(* queue scans, one worker runs them one after the other, a user stops     *)
(* them.                                                                   *)
(*   watcher.py, handler/scan_jobs.py, endpoints/sockets/scan.py           *)
(* watchfiles and the RQ worker and scheduler are outside the repository:  *)
(* batches are handed over one at a time, a delayed scan joins the queue   *)
(* some time, the scan queue is worked off in order.                       *)
(***************************************************************************)
EXTENDS Integers, Sequences, FiniteSets, SequencesExt

CONSTANTS
  Platforms,
  Known,       \* those with a row in the database at first
  Asked,       \* the types of the scans users ask for
  Env,         \* what else may happen, see Events
  MaxChanges,  \* bounds the changes on disk
  MaxAsked,    \* bounds the scans asked for and those the clock queues
  MaxStops,    \* bounds the stop requests
  MaxFailures  \* bounds the files, platforms and scans that fail

(* "folders": platform folders appear; "impatient": watchfiles ends a watcher that is
   still at work when the next batch is ready. *)
Events == {"folders", "impatient"}
Types  == {"new_platforms", "quick", "update", "unmatched", "complete", "hashes", "roms"}

ASSUME PlatformsAssumption == IsFiniteSet(Platforms) /\ Known \subseteq Platforms
ASSUME TypesAssumption     == Asked \subseteq Types /\ Env \subseteq Events
ASSUME BoundsAssumption    == MaxChanges \in Nat /\ MaxAsked \in Nat
                            /\ MaxStops \in Nat /\ MaxFailures \in Nat

VARIABLES
  unseen,     \* changes on disk the database does not show: [id, on, kind]
  changes,    \* how many there were
  folders,    \* the platforms with a folder
  known,      \* the platforms with a row
  inbox,      \* changes watchfiles has not handed over: [on, kind]
  watcher,    \* the watcher process: pc, its batch, and the scans it found pending
  scheduled,  \* scans waiting out their delay
  queue,      \* the scan queue
  running,    \* the worker's scan, and how far it got
  flag,       \* STOP_SCAN_FLAG
  stopping,   \* a stop has seen a running scan and not set the flag yet
  asked, stops, failures,
  excused     \* history: changes made before a stop was done, or lost by a failure

vars == <<unseen, changes, folders, known, inbox, watcher, scheduled, queue, running,
          flag, stopping, asked, stops, failures, excused>>

Job(type, full, on) == [type |-> type, full |-> full, on |-> on]
Jobs  == [type : Types, full : BOOLEAN, on : SUBSET Platforms]
NoRun == [pc |-> "none", job |-> Job("quick", FALSE, {}), todo |-> {}, at |-> {}, seen |-> {}, hit |-> FALSE]

TypeOK ==
  /\ unseen \cup excused \subseteq [id : 1..MaxChanges, on : Platforms, kind : {"added", "removed"}]
  /\ changes \in 0..MaxChanges /\ asked \in 0..MaxAsked /\ stops \in 0..MaxStops
  /\ failures \in 0..MaxFailures
  /\ known \cup folders \subseteq Platforms
  /\ inbox \subseteq [on : Platforms, kind : {"rom", "folder"}]
  /\ watcher.pc \in {"idle", "queued", "scheduled", "enqueue"}
  /\ watcher.batch \subseteq [on : Platforms, kind : {"rom", "folder"}]
  /\ watcher.found \subseteq Jobs /\ scheduled \subseteq Jobs /\ queue \in Seq(Jobs)
  /\ running.pc \in {"none", "taken", "next", "listed"} /\ running.job \in Jobs
  /\ running.todo \cup running.at \subseteq Platforms
  /\ {flag, stopping, running.hit} \subseteq BOOLEAN

Init ==
  /\ unseen = {} /\ changes = 0 /\ excused = {}
  /\ folders = Known /\ known = Known
  /\ inbox = {} /\ watcher = [pc |-> "idle", batch |-> {}, found |-> {}]
  /\ scheduled = {} /\ queue = <<>> /\ running = NoRun
  /\ flag = FALSE /\ stopping = FALSE
  /\ asked = 0 /\ stops = 0 /\ failures = 0

-----------------------------------------------------------------------------
(* The disk. *)

\* A game comes or goes in a platform's folder, or comes with the folder.
Change(p, kind) ==
  /\ p \in folders \/ ("folders" \in Env /\ kind = "added")
  /\ changes < MaxChanges
  /\ changes' = changes + 1
  /\ unseen' = unseen \cup {[id |-> changes', on |-> p, kind |-> kind]}
  /\ folders' = folders \cup {p}
  /\ inbox' = inbox \cup {[on |-> p, kind |-> "rom"]}
                    \cup (IF p \in folders THEN {} ELSE {[on |-> p, kind |-> "folder"]})
  /\ UNCHANGED <<known, watcher, scheduled, queue, running, flag, stopping, asked, stops, failures, excused>>

-----------------------------------------------------------------------------
(* The watcher. *)

\* A batch starts a watcher of its own.
Deliver ==
  /\ inbox # {}
  /\ watcher.pc = "idle" \/ "impatient" \in Env
  /\ watcher' = [pc |-> "queued", batch |-> inbox, found |-> {}]
  /\ inbox' = {}
  /\ UNCHANGED <<unseen, changes, folders, known, scheduled, queue, running, flag, stopping, asked, stops, failures, excused>>

\* Mutant: a running scan counts as pending.
PendingOrRunning(in) == in \cup (IF running.pc = "none" THEN {} ELSE {running.job})

\* get_pending_scan_jobs reads the queue, then what waits out a delay.
Pending(in) == in

ReadQueued ==
  /\ watcher.pc = "queued"
  /\ watcher' = [watcher EXCEPT !.pc = "scheduled", !.found = Pending(ToSet(queue))]
  /\ UNCHANGED <<unseen, changes, folders, known, inbox, scheduled, queue, running, flag, stopping, asked, stops, failures, excused>>

ReadScheduled ==
  /\ watcher.pc = "scheduled"
  /\ watcher' = [watcher EXCEPT !.pc = "enqueue", !.found = @ \cup scheduled]
  /\ UNCHANGED <<unseen, changes, folders, known, inbox, scheduled, queue, running, flag, stopping, asked, stops, failures, excused>>

\* What process_changes schedules for a batch, given the scans it found: nothing if one
\* of the whole library is among them.  A scan of named roms covers nothing.
Covering(found) == {j \in found : j.type # "roms"}
Rescans(batch, found) ==
  IF \E j \in Covering(found) : j.full THEN {}
  ELSE IF \E c \in batch : c.kind = "folder" THEN {Job("update", TRUE, {})}
  ELSE {Job("quick", FALSE, {p}) :
          p \in ({c.on : c \in batch} \cap known) \ UNION {j.on : j \in Covering(found)}}

Schedule ==
  /\ watcher.pc = "enqueue"
  /\ scheduled' = scheduled \cup Rescans(watcher.batch, watcher.found)
  /\ watcher' = [pc |-> "idle", batch |-> {}, found |-> {}]
  /\ UNCHANGED <<unseen, changes, folders, known, inbox, queue, running, flag, stopping, asked, stops, failures, excused>>

Release(j) ==
  /\ j \in scheduled
  /\ scheduled' = scheduled \ {j}
  /\ queue' = Append(queue, j)
  /\ UNCHANGED <<unseen, changes, folders, known, inbox, watcher, running, flag, stopping, asked, stops, failures, excused>>

-----------------------------------------------------------------------------
(* scan_handler and enqueue_scheduled_scan. *)

Library(j) == j.type # "roms"

\* A library scan is refused while another is running or queued; named roms go ahead.
Ask(type, full, on) ==
  /\ type \in Asked /\ asked < MaxAsked
  /\ full = (on = {}) /\ (type = "roms" => ~full)
  /\ type # "roms" =>
       /\ running.pc = "none" \/ ~Library(running.job)
       /\ \A j \in ToSet(queue) : ~Library(j)
  /\ asked' = asked + 1
  /\ queue' = IF type = "roms" THEN <<Job(type, full, on)>> \o queue
              ELSE Append(queue, Job(type, full, on))
  /\ UNCHANGED <<unseen, changes, folders, known, inbox, watcher, scheduled, running, flag, stopping, stops, failures, excused>>

Cron ==
  /\ asked < MaxAsked
  /\ asked' = asked + 1
  /\ queue' = Append(queue, Job("quick", TRUE, {}))
  /\ UNCHANGED <<unseen, changes, folders, known, inbox, watcher, scheduled, running, flag, stopping, stops, failures, excused>>

-----------------------------------------------------------------------------
(* scan_platforms, on the worker. *)

\* The worker takes the next job: from here on it is the running one, and a stop that
\* is not done yet may still set its flag against it.
Take ==
  /\ running.pc = "none" /\ queue # <<>>
  /\ running' = [NoRun EXCEPT !.pc = "taken", !.job = Head(queue), !.hit = stopping]
  /\ queue' = Tail(queue)
  /\ UNCHANGED <<unseen, changes, folders, known, inbox, watcher, scheduled, flag, stopping, asked, stops, failures, excused>>

Selected == IF running.job.full THEN folders ELSE running.job.on

\* Mutant: a flag left over is not cleared.
BeginKeepingFlag ==
  /\ running.pc = "taken"
  /\ running' = [running EXCEPT !.pc = "next", !.todo = Selected]
  /\ UNCHANGED <<unseen, changes, folders, known, inbox, watcher, scheduled, queue, flag, stopping, asked, stops, failures, excused>>

\* The scan clears the flag, also one set against this very job.
Begin ==
  /\ running.pc = "taken"
  /\ running' = [running EXCEPT !.pc = "next", !.todo = Selected]
  /\ flag' = FALSE
  /\ UNCHANGED <<unseen, changes, folders, known, inbox, watcher, scheduled, queue, stopping, asked, stops, failures, excused>>

\* Between platforms the scan looks at the flag.  Then it lists the folder.
Skips(j, p) == j.type = "roms" \/ (j.type = "new_platforms" /\ p \in known)

List(p) ==
  /\ running.pc = "next" /\ p \in running.todo /\ ~flag
  /\ running' = [running EXCEPT !.pc = "listed", !.todo = @ \ {p}, !.at = {p},
       !.seen = IF Skips(running.job, p) THEN {} ELSE {c \in unseen : c.on = p}]
  /\ known' = IF running.job.type = "roms" THEN known ELSE known \cup {p}
  /\ UNCHANGED <<unseen, changes, folders, inbox, watcher, scheduled, queue, flag, stopping, asked, stops, failures, excused>>

\* The entries of files that are gone are marked; new files only get one from the types
\* that look at files without an entry.
Adopting == {"new_platforms", "quick", "complete", "hashes"}
Recorded(j, c) == c.kind = "removed" \/ j.type \in Adopting
Found == {c \in running.seen : Recorded(running.job, c)}
Files == {c \in Found : c.kind = "added"}

\* Each file is skipped once the flag is set; one whose scan raises is logged and passed
\* over.
Record ==
  /\ running.pc = "listed"
  /\ \E skipped \in SUBSET Files : \E failed \in SUBSET Files :
       /\ (skipped # {} => flag) /\ (failed # {} => failures < MaxFailures)
       /\ failures' = IF failed = {} THEN failures ELSE failures + 1
       /\ unseen' = unseen \ (Found \ (skipped \cup failed))
       /\ excused' = excused \cup failed
  /\ running' = [running EXCEPT !.pc = "next", !.at = {}, !.seen = {}]
  /\ UNCHANGED <<changes, folders, known, inbox, watcher, scheduled, queue, flag, stopping, asked, stops>>

\* The running scan has this platform still before it.
Ahead(p) == Library(running.job) /\
  \/ running.pc = "taken" /\ p \in Selected
  \/ running.pc \in {"next", "listed"} /\ p \in running.todo

\* RomsNotFoundException: a platform whose folder cannot be listed is passed over.
PassOver(p) ==
  /\ running.pc = "next" /\ p \in running.todo /\ ~flag /\ ~Skips(running.job, p)
  /\ failures < MaxFailures /\ failures' = failures + 1
  /\ running' = [running EXCEPT !.todo = @ \ {p}]
  /\ known' = known \cup {p}
  /\ excused' = excused \cup {c \in unseen : c.on = p}
  /\ UNCHANGED <<unseen, changes, folders, inbox, watcher, scheduled, queue, flag, stopping, asked, stops>>

\* Any other exception, the job's timeout included: the scan reports it and is over,
\* whatever it had still before it.  A platform it was at may have its row by then.
\* Nobody asks for the scan again.
Break ==
  /\ running.pc # "none"
  /\ failures < MaxFailures /\ failures' = failures + 1
  /\ \E done \in SUBSET Found : unseen' = unseen \ done
  /\ excused' = excused \cup {c \in unseen : c \in running.seen \/ Ahead(c.on)}
  /\ known' \in {known} \cup {known \cup {p} : p \in {q \in running.todo : running.pc = "next" /\ Library(running.job)}}
  /\ running' = NoRun
  /\ UNCHANGED <<changes, folders, inbox, watcher, scheduled, queue, flag, stopping, asked, stops>>

Finish ==
  /\ running.pc = "next" /\ running.todo = {}
  /\ running' = NoRun
  /\ UNCHANGED <<unseen, changes, folders, known, inbox, watcher, scheduled, queue, flag, stopping, asked, stops, failures, excused>>

\* ScanStoppedException
Unwind ==
  /\ running.pc = "next" /\ running.todo # {} /\ flag
  /\ running' = NoRun
  /\ flag' = FALSE
  /\ UNCHANGED <<unseen, changes, folders, known, inbox, watcher, scheduled, queue, stopping, asked, stops, failures, excused>>

-----------------------------------------------------------------------------
(* stop_scan_handler: pending scans are cancelled, a running one is flagged. *)

Stop ==
  /\ stops < MaxStops /\ ~stopping
  /\ stops' = stops + 1
  /\ queue' = <<>> /\ scheduled' = {}
  /\ excused' = excused \cup unseen
  /\ IF running.pc = "none" THEN UNCHANGED <<running, stopping>>
     ELSE running' = [running EXCEPT !.hit = TRUE] /\ stopping' = TRUE
  /\ UNCHANGED <<unseen, changes, folders, known, inbox, watcher, flag, asked, failures>>

SetFlag ==
  /\ stopping /\ stopping' = FALSE /\ flag' = TRUE
  /\ excused' = excused \cup unseen
  /\ UNCHANGED <<unseen, changes, folders, known, inbox, watcher, scheduled, queue, running, asked, stops, failures>>

-----------------------------------------------------------------------------

Watch == Deliver \/ ReadQueued \/ ReadScheduled \/ Schedule
Scan  == Take \/ Begin \/ (\E p \in Platforms : List(p)) \/ Record \/ Finish \/ Unwind

Next ==
  \/ \E p \in Platforms, kind \in {"added", "removed"} : Change(p, kind)
  \/ Watch \/ Scan \/ Stop \/ SetFlag \/ Cron \/ Break
  \/ \E p \in Platforms : PassOver(p)
  \/ \E j \in scheduled : Release(j)
  \/ \E type \in Asked, on \in SUBSET Platforms : Ask(type, on = {}, on)

Spec == Init /\ [][Next]_vars

\* Batches are handed over and dealt with, delays run out, the worker works.
Fairness ==
  /\ WF_vars(Watch) /\ WF_vars(Scan)
  /\ WF_vars(\E j \in scheduled : Release(j))

FairSpec == Spec /\ Fairness

-----------------------------------------------------------------------------
(* Properties. *)

\* Every change on disk gets into the database, unless a user stopped the scan that
\* would have brought it there, or its file, its platform or that scan failed ("a duplicate scan costs less than a rescan that never
\* happens", watcher.py 99-100).
EveryChangeSeen == <>[](unseen \subseteq excused)

\* A change nobody has brought into the database yet is in a batch still to be dealt
\* with, or before a scan that has not passed its folder, unless a stop or a failure
\* excuses it: a running scan that has passed is no reason not to schedule another
\* (scan_jobs.py 133-140).
Visits(p) ==
  \/ \E j \in scheduled \cup ToSet(queue) : Library(j) /\ (j.full \/ p \in j.on)
  \/ Ahead(p)

Accounted ==
  \A c \in unseen \ excused :
    \/ \E b \in inbox \cup watcher.batch : b.on = c.on
    \/ Visits(c.on)
    \/ c \in running.seen

\* A stop ends no scan that the worker takes after the stop is done ("one set against a
\* scan that ended first would otherwise stop this one before it began", scan.py
\* 1104-1106).  One taken between the stop's look at the worker and its flag may be ended.
StopEndsNoLaterScan == [][Unwind => running.hit]_vars
=============================================================================
