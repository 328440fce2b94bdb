------------------------- MODULE LibraryScansProofs -------------------------
(* Changes and scans, for any platforms and bounds. *)
EXTENDS LibraryScans, TLAPS

-----------------------------------------------------------------------------
(* A stop ends only a scan that was on the worker while it was under way. *)

FlagHits ==
  /\ DOMAIN running = {"pc", "job", "todo", "at", "seen", "hit"}
  /\ flag /\ running.pc \in {"next", "listed"} => running.hit
  /\ stopping /\ running.pc # "none" => running.hit

LEMMA InitHits == Init => FlagHits
BY DEF Init, FlagHits, NoRun

LEMMA ScanHits == ASSUME FlagHits, Scan PROVE FlagHits'
<1>1. DOMAIN NoRun = {"pc", "job", "todo", "at", "seen", "hit"} /\ NoRun.pc = "none"
  BY DEF NoRun
<1>2. CASE Take
  BY <1>2 DEF Take, FlagHits, NoRun
<1>3. CASE Begin
  BY <1>3 DEF Begin, FlagHits
<1>4. ASSUME NEW p \in Platforms, List(p) PROVE FlagHits'
  BY <1>4 DEF List, FlagHits
<1>5. CASE Record
  BY <1>5 DEF Record, FlagHits
<1>6. CASE Finish \/ Unwind
  BY <1>1, <1>6 DEF Finish, Unwind, FlagHits
<1> QED BY <1>2, <1>3, <1>4, <1>5, <1>6 DEF Scan

LEMMA FailHits ==
  ASSUME FlagHits, Break \/ \E p \in Platforms : PassOver(p)
  PROVE  FlagHits'
<1>1. CASE Break
  <2>1. DOMAIN NoRun = {"pc", "job", "todo", "at", "seen", "hit"} /\ NoRun.pc = "none"
    BY DEF NoRun
  <2>2. running' = NoRun /\ UNCHANGED <<flag, stopping>>
    BY <1>1 DEF Break
  <2> QED BY <2>1, <2>2 DEF FlagHits
<1>2. ASSUME NEW p \in Platforms, PassOver(p) PROVE FlagHits'
  BY <1>2 DEF PassOver, FlagHits
<1> QED BY <1>1, <1>2

LEMMA NextHits == ASSUME FlagHits, [Next]_vars PROVE FlagHits'
<1>1. CASE Stop
  BY <1>1 DEF Stop, FlagHits
<1>2. CASE SetFlag
  BY <1>2 DEF SetFlag, FlagHits
<1>3. CASE UNCHANGED <<running, flag, stopping>>
  BY <1>3 DEF FlagHits
<1>4. ASSUME NEW p \in Platforms, NEW kind, Change(p, kind) PROVE UNCHANGED <<running, flag, stopping>>
  BY <1>4 DEF Change
<1>5. ASSUME NEW j, NEW type, NEW full, NEW on, Release(j) \/ Ask(type, full, on) \/ Cron
      PROVE  UNCHANGED <<running, flag, stopping>>
  BY <1>5 DEF Release, Ask, Cron
<1>6. CASE Watch \/ UNCHANGED vars
  BY <1>3, <1>6 DEF Watch, Deliver, ReadQueued, ReadScheduled, Schedule, vars
<1> QED BY <1>1, <1>2, <1>3, <1>4, <1>5, <1>6, ScanHits, FailHits DEF Next

\* No stop ends a scan that the worker takes after that stop is done, for any scans,
\* stops and failures: the flag of one that came too late for its scan is cleared.
\* (scan_platforms 1104-1113, stop_scan_handler)
THEOREM LaterScansAreNotStopped == Spec => StopEndsNoLaterScan
<1> DEFINE Ended == Unwind => running.hit
<1>1. FlagHits => Ended
  BY DEF FlagHits, Unwind
<1>2. FlagHits /\ [Next]_vars => FlagHits'
  BY NextHits
<1>3. FlagHits /\ [Next]_vars => [Ended]_vars
  BY <1>1
<1> QED BY <1>2, <1>3, InitHits, PTL DEF Spec, StopEndsNoLaterScan

-----------------------------------------------------------------------------
(* No change is forgotten. *)

\* The types that look at every file of the folders they walk, and those that walk none.
Wide     == {"quick", "complete", "hashes", "roms"}
WideJobs == [type : Wide, full : BOOLEAN, on : SUBSET Platforms]
Batches  == SUBSET [on : Platforms, kind : {"rom"}]

Covers(in, p) == \E j \in in : Library(j) /\ (j.full \/ p \in j.on)

Shape ==
  /\ inbox \in Batches
  /\ watcher \in [pc : {"idle", "queued", "scheduled", "enqueue"}, batch : Batches,
                  found : SUBSET WideJobs]
  /\ scheduled \subseteq WideJobs /\ queue \in Seq(WideJobs) /\ running.job \in WideJobs
  /\ DOMAIN running = {"pc", "job", "todo", "at", "seen", "hit"}
  /\ running.pc \in {"none", "taken", "next", "listed"}
  /\ folders \subseteq known /\ folders \subseteq Platforms
  /\ \A c \in unseen : c.on \in folders
  /\ watcher.pc = "idle" => watcher.batch = {}
  /\ running.pc # "listed" => running.seen = {}
  /\ running.seen # {} => Library(running.job)

\* A change is in a batch still to come or one whose watcher has found nothing that
\* covers it, or a scan will see it, or has.
Heard(c) ==
  \/ \E b \in inbox : b.on = c.on
  \/ (\E b \in watcher.batch : b.on = c.on) /\ ~Covers(watcher.found, c.on)
  \/ Covers(scheduled \cup ToSet(queue), c.on)
  \/ running.pc = "taken" /\ Library(running.job) /\ c.on \in Selected
  \/ running.pc \in {"next", "listed"} /\ Library(running.job) /\ c.on \in running.todo /\ ~flag
  \/ c \in running.seen /\ ~flag

IInv == Shape /\ \A c \in unseen \ excused : Heard(c)

LEMMA ToSetAppend ==
  ASSUME NEW S, NEW s \in Seq(S), NEW e \in S
  PROVE  Append(s, e) \in Seq(S) /\ ToSet(Append(s, e)) = ToSet(s) \cup {e}
<1>1. /\ Append(s, e) \in Seq(S) /\ Len(Append(s, e)) = Len(s) + 1
      /\ \A i \in 1..Len(s) : Append(s, e)[i] = s[i]
      /\ Append(s, e)[Len(s) + 1] = e
  OBVIOUS
<1> QED BY <1>1 DEF ToSet

LEMMA ToSetPrepend ==
  ASSUME NEW S, NEW s \in Seq(S), NEW e \in S
  PROVE  <<e>> \o s \in Seq(S) /\ ToSet(<<e>> \o s) = ToSet(s) \cup {e}
<1>1. \A i \in 1..(Len(s) + 1) : i = 1 \/ \E k \in 1..Len(s) : i = k + 1
  <2> TAKE i \in 1..(Len(s) + 1)
  <2>1. i # 1 => i - 1 \in 1..Len(s) /\ i = (i - 1) + 1
    OBVIOUS
  <2> QED BY <2>1
<1> DEFINE t == <<e>> \o s
<1>2. t \in Seq(S) /\ Len(t) = Len(s) + 1 /\ t[1] = e /\ \A i \in 1..Len(s) : t[i + 1] = s[i]
  OBVIOUS
<1> HIDE DEF t
<1>3. DOMAIN t = 1..(Len(s) + 1) /\ DOMAIN s = 1..Len(s)
  BY <1>2
<1>4. ToSet(t) \subseteq ToSet(s) \cup {e}
  <2> SUFFICES ASSUME NEW i \in DOMAIN t, t[i] # e PROVE t[i] \in ToSet(s)
    BY DEF ToSet
  <2>1. PICK k \in 1..Len(s) : i = k + 1
    BY <1>1, <1>2, <1>3
  <2> QED BY <2>1, <1>2, <1>3 DEF ToSet
<1>5. ToSet(s) \cup {e} \subseteq ToSet(t)
  BY <1>2, <1>3 DEF ToSet
<1> QED BY <1>2, <1>4, <1>5 DEF t

LEMMA ToSetHead ==
  ASSUME NEW S, NEW s \in Seq(S), s # <<>>
  PROVE  /\ Head(s) \in S /\ Tail(s) \in Seq(S)
         /\ ToSet(s) \subseteq ToSet(Tail(s)) \cup {Head(s)}
<1>1. /\ Head(s) \in S /\ Tail(s) \in Seq(S) /\ Len(s) \in Nat /\ Len(s) > 0
      /\ Len(Tail(s)) = Len(s) - 1 /\ Head(s) = s[1]
      /\ \A i \in 1..(Len(s) - 1) : Tail(s)[i] = s[i + 1]
  OBVIOUS
<1>2. ASSUME NEW i \in 1..Len(s), i # 1 PROVE s[i] \in ToSet(Tail(s))
  <2>1. i - 1 \in 1..(Len(s) - 1) /\ (i - 1) + 1 = i
    BY <1>1, <1>2
  <2>2. Tail(s)[i - 1] = s[i] /\ i - 1 \in DOMAIN Tail(s)
    BY <1>1, <2>1
  <2> QED BY <2>2 DEF ToSet
<1>3. ToSet(s) \subseteq ToSet(Tail(s)) \cup {Head(s)}
  BY <1>1, <1>2 DEF ToSet
<1> QED BY <1>1, <1>3

-----------------------------------------------------------------------------
(* Each step keeps it. *)

LEMMA NoRunShape ==
  /\ NoRun.pc = "none" /\ NoRun.seen = {} /\ NoRun.job \in WideJobs
  /\ DOMAIN NoRun = {"pc", "job", "todo", "at", "seen", "hit"}
BY DEF NoRun, WideJobs, Wide, Job

LEMMA InitInv == Init => IInv
<1> SUFFICES ASSUME Init PROVE IInv
  OBVIOUS
<1>1. queue \in Seq(WideJobs) /\ folders \subseteq known /\ folders \subseteq Platforms
  BY PlatformsAssumption DEF Init
<1>2. Shape
  BY <1>1, NoRunShape DEF Init, Shape, Batches
<1> QED BY <1>2 DEF Init, IInv

LEMMA ChangeInv ==
  ASSUME IInv, Env = {}, NEW p \in Platforms, NEW kind \in {"added", "removed"}, Change(p, kind)
  PROVE  IInv'
<1>1. p \in folders /\ folders' = folders /\ inbox' = inbox \cup {[on |-> p, kind |-> "rom"]}
  BY DEF Change, IInv, Shape
<1> DEFINE new == [id |-> changes', on |-> p, kind |-> kind]
<1>2. /\ unseen' = unseen \cup {new} /\ new.on = p
      /\ UNCHANGED <<known, watcher, scheduled, queue, running, flag, excused>>
  BY DEF Change
<1> HIDE DEF new
<1>3. Shape'
  BY <1>1, <1>2 DEF IInv, Shape, Batches
<1>4. ASSUME NEW c \in unseen' \ excused' PROVE Heard(c)'
  <2>1. CASE c.on = p
    <3>1. [on |-> p, kind |-> "rom"] \in inbox'
      BY <1>1
    <3> QED BY <2>1, <3>1 DEF Heard
  <2>2. CASE c \in unseen \ excused
    BY <1>1, <1>2, <2>2 DEF IInv, Heard, Covers, Selected
  <2> QED BY <1>2, <2>1, <2>2
<1> QED BY <1>3, <1>4 DEF IInv

LEMMA WatchInv == ASSUME IInv, Env = {}, Watch PROVE IInv'
<1>1. CASE Deliver
  <2>1. Shape'
    BY <1>1 DEF Deliver, IInv, Shape
  <2>2. ASSUME NEW c \in unseen \ excused PROVE Heard(c)'
    BY <1>1 DEF Deliver, IInv, Shape, Heard, Covers, Selected
  <2> QED BY <1>1, <2>1, <2>2 DEF Deliver, IInv
<1>2. CASE ReadQueued
  <2>1. ToSet(queue) \subseteq WideJobs
    BY DEF IInv, Shape, ToSet
  <2>2. Shape'
    BY <1>2, <2>1 DEF ReadQueued, Pending, IInv, Shape
  <2>3. ASSUME NEW c \in unseen \ excused PROVE Heard(c)'
    BY <1>2 DEF ReadQueued, Pending, IInv, Shape, Heard, Covers, Selected
  <2> QED BY <1>2, <2>2, <2>3 DEF ReadQueued, IInv
<1>3. CASE ReadScheduled
  <2>1. Shape'
    BY <1>3 DEF ReadScheduled, IInv, Shape
  <2>2. ASSUME NEW c \in unseen \ excused PROVE Heard(c)'
    BY <1>3 DEF ReadScheduled, IInv, Shape, Heard, Covers, Selected
  <2> QED BY <1>3, <2>1, <2>2 DEF ReadScheduled, IInv
<1>4. CASE Schedule
  <2> DEFINE new == Rescans(watcher.batch, watcher.found)
  <2>1. \A b \in watcher.batch : b.on \in Platforms /\ b.kind = "rom"
    BY DEF IInv, Shape, Batches
  <2>2. new \subseteq WideJobs
    <3>1. \A q \in Platforms : Job("quick", FALSE, {q}) \in WideJobs
      BY DEF Job, WideJobs, Wide
    <3>2. ~\E b \in watcher.batch : b.kind = "folder"
      BY <2>1
    <3>3. \A j \in new : \E q \in Platforms : j = Job("quick", FALSE, {q})
      BY <2>1, <3>2 DEF Rescans
    <3> QED BY <3>1, <3>3
  <2>3. Shape'
    BY <1>4, <2>2 DEF Schedule, IInv, Shape, Batches
  <2>4. ASSUME NEW c \in unseen \ excused PROVE Heard(c)'
    <3>1. CASE (\E b \in watcher.batch : b.on = c.on) /\ ~Covers(watcher.found, c.on)
      <4>1. ~\E j \in Covering(watcher.found) : j.full \/ c.on \in j.on
        BY <3>1 DEF Covers, Covering, Library
      <4>2. c.on \in known
        BY DEF IInv, Shape
      <4>3. Job("quick", FALSE, {c.on}) \in new
        BY <2>1, <3>1, <4>1, <4>2 DEF Rescans
      <4>4. Covers(new, c.on)
        BY <4>3 DEF Covers, Library, Job
      <4> QED BY <1>4, <4>4 DEF Schedule, Heard, Covers
    <3>2. CASE ~((\E b \in watcher.batch : b.on = c.on) /\ ~Covers(watcher.found, c.on))
      BY <1>4, <3>2 DEF Schedule, IInv, Heard, Covers, Selected
    <3> QED BY <3>1, <3>2
  <2> QED BY <1>4, <2>3, <2>4 DEF Schedule, IInv
<1> QED BY <1>1, <1>2, <1>3, <1>4 DEF Watch

\* A scan joins the queue, new or off the delayed ones.
LEMMA JoinsInv ==
  ASSUME IInv, NEW j \in WideJobs, queue' = Append(queue, j) \/ queue' = <<j>> \o queue,
         scheduled' \in {scheduled, scheduled \ {j}},
         UNCHANGED <<unseen, folders, known, inbox, watcher, running, flag, excused>>
  PROVE  IInv'
<1>1. queue' \in Seq(WideJobs) /\ ToSet(queue') = ToSet(queue) \cup {j}
  <2>1. queue \in Seq(WideJobs)
    BY DEF IInv, Shape
  <2>2. CASE queue' = Append(queue, j)
    BY <2>1, <2>2, ToSetAppend
  <2>3. CASE queue' = <<j>> \o queue
    BY <2>1, <2>3, ToSetPrepend
  <2> QED BY <2>2, <2>3
<1>2. Shape'
  BY <1>1 DEF IInv, Shape
<1>3. scheduled \cup ToSet(queue) \subseteq scheduled' \cup ToSet(queue')
  BY <1>1
<1>4. ASSUME NEW c \in unseen \ excused PROVE Heard(c)'
  BY <1>3 DEF IInv, Heard, Covers, Selected
<1> QED BY <1>2, <1>4 DEF IInv

LEMMA StopInv == ASSUME IInv, Stop \/ SetFlag PROVE IInv'
<1>1. <<>> \in Seq(WideJobs) /\ unseen' \ excused' = {}
  BY DEF Stop, SetFlag
<1>2. CASE Stop
  <2>1. Shape'
    BY <1>1, <1>2 DEF Stop, IInv, Shape
  <2> QED BY <1>1, <2>1 DEF IInv
<1>3. CASE SetFlag
  <2>1. Shape'
    BY <1>3 DEF SetFlag, IInv, Shape
  <2> QED BY <1>1, <2>1 DEF IInv
<1> QED BY <1>2, <1>3

LEMMA TakeInv == ASSUME IInv, Take PROVE IInv'
<1>1. /\ Head(queue) \in WideJobs /\ Tail(queue) \in Seq(WideJobs)
      /\ ToSet(queue) \subseteq ToSet(Tail(queue)) \cup {Head(queue)}
  BY ToSetHead DEF Take, IInv, Shape
<1>2. running'.pc = "taken" /\ running'.job = Head(queue) /\ running'.seen = {}
  BY NoRunShape DEF Take, NoRun
<1>3. Shape'
  BY <1>1, <1>2, NoRunShape DEF Take, IInv, Shape
<1>4. ASSUME NEW c \in unseen \ excused PROVE Heard(c)'
  <2>1. CASE Covers(scheduled \cup ToSet(queue), c.on) /\ ~Covers(scheduled \cup ToSet(queue'), c.on)
    <3>1. Library(Head(queue)) /\ (Head(queue).full \/ c.on \in Head(queue).on)
      BY <1>1, <2>1 DEF Take, Covers
    <3>2. c.on \in Selected'
      BY <1>2, <3>1 DEF Take, Selected, IInv, Shape
    <3> QED BY <1>2, <3>1, <3>2 DEF Heard
  <2>2. CASE ~(Covers(scheduled \cup ToSet(queue), c.on) /\ ~Covers(scheduled \cup ToSet(queue'), c.on))
    BY <2>2 DEF Take, IInv, Shape, Heard, Covers
  <2> QED BY <2>1, <2>2
<1> QED BY <1>3, <1>4 DEF Take, IInv

LEMMA BeginInv == ASSUME IInv, Begin PROVE IInv'
<1>1. Shape'
  BY DEF Begin, IInv, Shape
<1>2. ASSUME NEW c \in unseen \ excused PROVE Heard(c)'
  BY DEF Begin, IInv, Shape, Heard, Covers
<1> QED BY <1>1, <1>2 DEF Begin, IInv

LEMMA ListInv == ASSUME IInv, NEW p \in Platforms, List(p) PROVE IInv'
<1>1. /\ running.job \in WideJobs /\ running'.job = running.job /\ running'.pc = "listed"
      /\ running'.todo = running.todo \ {p}
      /\ running'.seen = IF Library(running.job) THEN {c \in unseen : c.on = p} ELSE {}
  BY DEF List, Skips, Library, IInv, Shape, WideJobs, Wide
<1>2. Shape'
  BY <1>1 DEF List, IInv, Shape, Library
<1>3. ASSUME NEW c \in unseen \ excused PROVE Heard(c)'
  BY <1>1 DEF List, IInv, Shape, Heard, Covers
<1> QED BY <1>2, <1>3 DEF List, IInv

LEMMA RecordInv == ASSUME IInv, Record PROVE IInv'
<1>1. /\ running.pc = "listed" /\ unseen' \subseteq unseen
      /\ running' = [running EXCEPT !.pc = "next", !.at = {}, !.seen = {}]
      /\ UNCHANGED <<folders, known, inbox, watcher, scheduled, queue, flag>>
  BY DEF Record
<1>2. PICK skipped \in SUBSET Files, failed \in SUBSET Files :
        /\ skipped # {} => flag
        /\ unseen' = unseen \ (Found \ (skipped \cup failed))
        /\ excused' = excused \cup failed
  BY DEF Record
<1>3. ~flag => (unseen' \ excused') \cap running.seen = {}
  <2> SUFFICES ASSUME ~flag, NEW c \in running.seen PROVE c \notin unseen' \ excused'
    OBVIOUS
  <2>1. running.job.type \in Adopting
    BY DEF IInv, Shape, Library, WideJobs, Wide, Adopting
  <2>2. c \in Found
    BY <2>1 DEF Found, Recorded
  <2> QED BY <1>2, <2>2
<1>4. Shape'
  BY <1>1 DEF IInv, Shape
<1>5. ASSUME NEW c \in unseen' \ excused' PROVE Heard(c)'
  <2>1. c \in unseen \ excused
    BY <1>1, <1>2
  <2> QED BY <1>1, <1>3, <1>5, <2>1 DEF IInv, Shape, Heard, Covers
<1> QED BY <1>4, <1>5 DEF IInv

LEMMA PassOverInv == ASSUME IInv, NEW p \in Platforms, PassOver(p) PROVE IInv'
<1>1. /\ running.pc = "next" /\ running' = [running EXCEPT !.todo = @ \ {p}]
      /\ known' = known \cup {p} /\ excused' = excused \cup {c \in unseen : c.on = p}
      /\ UNCHANGED <<unseen, folders, inbox, watcher, scheduled, queue, flag>>
  BY DEF PassOver
<1>2. Shape'
  BY <1>1 DEF IInv, Shape
<1>3. ASSUME NEW c \in unseen \ excused' PROVE Heard(c)'
  <2>1. c \in unseen \ excused /\ c.on # p
    BY <1>1, <1>3
  <2> QED BY <1>1, <2>1 DEF IInv, Shape, Heard, Covers
<1> QED BY <1>1, <1>2, <1>3 DEF IInv

\* What only the scan that broke off would have brought is excused.
LEMMA BreakInv == ASSUME IInv, Break PROVE IInv'
<1>1. /\ running' = NoRun /\ unseen' \subseteq unseen
      /\ excused' = excused \cup {c \in unseen : c \in running.seen \/ Ahead(c.on)}
      /\ UNCHANGED <<folders, inbox, watcher, scheduled, queue, flag>>
  BY DEF Break
<1>2. known \subseteq known'
  BY DEF Break
<1>3. Shape'
  BY <1>1, <1>2, NoRunShape DEF IInv, Shape
<1>4. ASSUME NEW c \in unseen' \ excused' PROVE Heard(c)'
  <2>1. c \in unseen \ excused /\ c \notin running.seen /\ ~Ahead(c.on)
    BY <1>1, <1>4
  <2> QED BY <1>1, <2>1, NoRunShape DEF IInv, Heard, Covers, Ahead
<1> QED BY <1>3, <1>4 DEF IInv

LEMMA EndInv == ASSUME IInv, Finish \/ Unwind PROVE IInv'
<1>1. /\ running.pc = "next" /\ running' = NoRun /\ (running.todo = {} \/ flag)
      /\ UNCHANGED <<unseen, folders, known, inbox, watcher, scheduled, queue, excused>>
  BY DEF Finish, Unwind
<1>2. Shape'
  BY <1>1, NoRunShape DEF IInv, Shape
<1>3. ASSUME NEW c \in unseen \ excused PROVE Heard(c)'
  BY <1>1, NoRunShape DEF IInv, Shape, Heard, Covers
<1> QED BY <1>1, <1>2, <1>3 DEF IInv

LEMMA NextInv == ASSUME IInv, Env = {}, Asked \subseteq Wide, [Next]_vars PROVE IInv'
<1>1. CASE UNCHANGED vars
  BY <1>1 DEF vars, IInv, Shape, Heard, Covers, Selected
<1>2. CASE Scan
  BY <1>2, TakeInv, BeginInv, ListInv, RecordInv, EndInv DEF Scan
<1>3. ASSUME NEW type \in Asked, NEW on \in SUBSET Platforms, Ask(type, on = {}, on) PROVE IInv'
  <2>1. Job(type, on = {}, on) \in WideJobs
    BY DEF Job, WideJobs
  <2> QED BY <1>3, <2>1, JoinsInv DEF Ask
<1>4. CASE Cron
  <2>1. Job("quick", TRUE, {}) \in WideJobs
    BY DEF Job, WideJobs, Wide
  <2> QED BY <1>4, <2>1, JoinsInv DEF Cron
<1>5. ASSUME NEW j \in scheduled, Release(j) PROVE IInv'
  BY <1>5, JoinsInv DEF Release, IInv, Shape
<1> QED BY <1>1, <1>2, <1>3, <1>4, <1>5, ChangeInv, WatchInv, StopInv, BreakInv, PassOverInv
    DEF Next

\* Between a change on disk and the database there is at every moment a batch still to
\* be dealt with, a scan that will reach the folder, or one that is in it, unless a user
\* stopped it, its file or its folder failed, or that scan broke off: while no platform
\* is new, no watcher is cut short and users ask for no scan that passes files over.
\* (process_changes 205-305, get_pending_scan_jobs, _identify_platform, scan_platforms)
THEOREM ScansAccountForChanges ==
  ASSUME Env = {}, Asked \subseteq Wide PROVE Spec => []Accounted
<1>1. IInv => Accounted
  BY DEF IInv, Heard, Accounted, Visits, Ahead, Covers
<1>2. IInv /\ [Next]_vars => IInv'
  BY NextInv
<1> QED BY <1>1, <1>2, InitInv, PTL DEF Spec
=============================================================================
