------------------------------ MODULE SaveSync ------------------------------
(***************************************************************************)
(* Synchronising the save of one game and slot between a user's devices.   *)
(* Every upload to a slot becomes a row of its own, its file tagged with   *)
(* the second it arrived in; the newest row is the slot's save.  What a    *)
(* device has seen is a time per device and row.  A device negotiates,     *)
(* then uploads or downloads; an upload checks for a conflict, writes a    *)
(* file, and adds its row, with other devices' requests in between.        *)
(*   endpoints/sync.py, endpoints/saves.py, handler/sync/comparison.py,    *)
(*   handler/database/{saves,device_save_sync}_handler.py                  *)
(* The devices are outside the repository: they act as the routes ask,     *)
(* negotiate when not playing, and settle a conflict one way or the other. *)
(***************************************************************************)
EXTENDS Integers, FiniteSets, FiniteSetsExt

CONSTANTS
  Devices,
  Confirming,  \* devices that download with optimistic=False and confirm
  None,
  Limit,       \* autocleanup_limit, at least 1
  Env,         \* what else may happen, see Events
  MaxPlays,    \* bounds the contents a device produces
  MaxMishaps   \* bounds the saves the user deletes and the answers that get lost

(* "overlap": requests of several devices at once; "second": two writes within one
   second of the clock; "lost": the answer to a download does not arrive;
   "early": an optimistic one does not; "skew": a device's clock is behind; "restamp":
   a device dates what it downloads by its own clock, not by the server's. *)
Events == {"overlap", "second", "lost", "early", "skew", "restamp"}

ASSUME DevicesAssumption == IsFiniteSet(Devices) /\ Confirming \subseteq Devices
ASSUME EnvAssumption     == Env \subseteq Events
ASSUME BoundsAssumption  == Limit \in Nat \ {0} /\ MaxPlays \in Nat /\ MaxMishaps \in Nat

VARIABLES
  clock,   \* the server's, in seconds
  rows,    \* the saves of the slot: id, content hash, updated_at, tag in the file name
  next,    \* the next row id
  disk,    \* the files of those saves: a set of [tag, data]
  sync,    \* device -> the rows it is on record for: a set of [id, at]
  local,   \* device -> its own save: data and modification time
  held,    \* device -> every content it ever had
  act,     \* device -> what negotiation told it to do: [op, id]
  req,     \* device -> its upload, or the content of a download to confirm
  plays, mishaps,
  stored   \* history: every content the slot ever had

vars == <<clock, rows, next, disk, sync, local, held, act, req, plays, mishaps, stored>>

Data == {None} \cup (Devices \X (1..MaxPlays))

TypeOK ==
  /\ clock \in Nat /\ next \in Nat
  /\ rows \subseteq [id : Nat, data : Data, at : Nat, tag : Nat]
  /\ disk \subseteq [tag : Nat, data : Data]
  /\ sync \in [Devices -> SUBSET [id : Nat, at : Nat]]
  /\ local \in [Devices -> [data : Data, mtime : Int]]
  /\ act \in [Devices -> [op : {"none", "upload", "download", "conflict"}, id : Nat]]
  /\ req \in [Devices -> [pc : {"idle", "checked", "written", "cleaning", "got"},
                          tag : Nat, over : BOOLEAN, row : Nat, seen : Data, doomed : SUBSET Nat]]

NoAct == [op |-> "none", id |-> 0]
NoReq == [pc |-> "idle", tag |-> 0, over |-> FALSE, row |-> 0, seen |-> None, doomed |-> {}]

Init ==
  /\ clock = 1 /\ next = 1
  /\ rows = {} /\ disk = {}
  /\ sync = [d \in Devices |-> {}]
  /\ local = [d \in Devices |-> [data |-> None, mtime |-> 0]]
  /\ held = [d \in Devices |-> {}]
  /\ act = [d \in Devices |-> NoAct]
  /\ req = [d \in Devices |-> NoReq]
  /\ plays = [d \in Devices |-> 0]
  /\ mishaps = 0
  /\ stored = {}

-----------------------------------------------------------------------------
(* The tables. *)

Row(id)  == {r \in rows : r.id = id}
FileAt(tag, in) == {f \in in : f.tag = tag}
Written(tag, data, in) == (in \ FileAt(tag, in)) \cup {[tag |-> tag, data |-> data]}

\* The first of the rows a query sorted by updated_at returns: rows of one second
\* come in any order.
Newest(in) == {r \in in : \A o \in in : o.at <= r.at}

LastSynced(d, id) == {s \in sync[d] : s.id = id}

\* upsert_sync
Upserted(d, id, at) == [sync EXCEPT ![d] = (@ \ LastSynced(d, id)) \cup {[id |-> id, at |-> at]}]

\* Deleting a save takes the sync rows that point to it along.
Forget(ids, in) == [d \in Devices |-> {s \in in[d] : s.id \notin ids}]

\* The clock at the next write of a time: within the same second only if admitted.
Tick == clock' \in {clock + 1} \cup (IF "second" \in Env THEN {clock} ELSE {})

\* Mutant: uploads keep the client's file name.
Untagged == {1}

\* The tag of an upload: the second it arrives in, which no other save has or had unless
\* admitted.
Taken == {f.tag : f \in disk} \cup {r.tag : r \in rows}
         \cup {req[d].tag : d \in {e \in Devices : req[e].pc \in {"checked", "written"}}}
Tags == {Min((1..Cardinality(Taken) + 1) \ Taken)} \cup (IF "second" \in Env THEN Taken ELSE {})

Alone(d) == "overlap" \in Env \/ \A e \in Devices \ {d} : req[e].pc \in {"idle", "got"}

-----------------------------------------------------------------------------
(* The devices. *)

Idle(d) == req[d].pc = "idle" /\ act[d].op = "none"

Play(d) ==
  /\ Idle(d) /\ plays[d] < MaxPlays
  /\ plays' = [plays EXCEPT ![d] = @ + 1]
  /\ Tick
  /\ \E late \in IF "skew" \in Env THEN {0, 3} ELSE {0} :
       local' = [local EXCEPT ![d] = [data |-> <<d, plays'[d]>>, mtime |-> clock' - late]]
  /\ held' = [held EXCEPT ![d] = @ \cup {<<d, plays'[d]>>}]
  /\ UNCHANGED <<rows, next, disk, sync, act, req, mishaps, stored>>

\* The user deletes a save and its file on the server.
Delete(r) ==
  /\ r \in rows /\ mishaps < MaxMishaps
  /\ mishaps' = mishaps + 1
  /\ rows' = rows \ {r}
  /\ disk' = disk \ FileAt(r.tag, disk)
  /\ sync' = Forget({r.id}, sync)
  /\ UNCHANGED <<clock, next, local, held, act, req, plays, stored>>

-----------------------------------------------------------------------------
(* compare_save_state and negotiate_sync. *)

\* Mutant: a save without history is taken for in sync.
CompareHistory(mine, row, synced) ==
  IF mine.data = row.data \/ synced = {} THEN "no_op"
  ELSE LET at == (CHOOSE s \in synced : TRUE).at
       IN CASE mine.mtime > at /\ row.at > at -> "conflict"
            [] mine.mtime > at /\ row.at <= at -> "upload"
            [] mine.mtime <= at /\ row.at > at -> "download"
            [] OTHER -> "no_op"

Compare(mine, row, synced) ==
  IF mine.data = row.data THEN "no_op"
  ELSE IF synced # {} THEN
    LET at == (CHOOSE s \in synced : TRUE).at
    IN CASE mine.mtime > at /\ row.at > at -> "conflict"
         [] mine.mtime > at /\ row.at <= at -> "upload"
         [] mine.mtime <= at /\ row.at > at -> "download"
         [] OTHER -> "no_op"
  ELSE CASE mine.mtime > row.at -> "upload"
         [] mine.mtime < row.at -> "download"
         [] OTHER -> "conflict"

\* What the server proposes for row r, the newest of the slot.
Proposed(d, r) ==
  IF local[d].data # None THEN Compare(local[d], r, LastSynced(d, r.id))
  ELSE IF \E s \in LastSynced(d, r.id) : r.at <= s.at THEN "no_op" ELSE "download"

Negotiate(d) ==
  /\ Idle(d)
  /\ \/ /\ rows = {} /\ local[d].data # None
        /\ act' = [act EXCEPT ![d] = [op |-> "upload", id |-> 0]]
     \/ \E r \in Newest(rows) :
          /\ Proposed(d, r) # "no_op"
          /\ act' = [act EXCEPT ![d] = [op |-> Proposed(d, r), id |-> r.id]]
  /\ UNCHANGED <<clock, rows, next, disk, sync, local, held, req, plays, mishaps, stored>>

-----------------------------------------------------------------------------
(* add_save *)

\* The row whose file has the name this upload gets.
Named(tag) == {r \in rows : r.tag = tag}

\* "Slot has a newer save since your last sync."
Refused(d, r) == ~ \E s \in LastSynced(d, r.id) : s.at >= r.at

\* What an upload that passes the check was compared with, None if with nothing.
Passed(d, over) ==
  IF over \/ rows = {} THEN {None} ELSE {r.data : r \in {n \in Newest(rows) : ~Refused(d, n)}}

\* The check of an upload, which overwrite skips.
Check(d, over) ==
  /\ act[d].op \in {"upload", "conflict"} /\ req[d].pc = "idle" /\ Alone(d)
  /\ over = (act[d].op = "conflict")
  /\ \/ /\ ~over
        /\ \E r \in Newest(rows) : Refused(d, r)
        /\ act' = [act EXCEPT ![d].op = "conflict"]
        /\ UNCHANGED req
     \/ /\ \E tag \in Tags, seen \in Passed(d, over) :
             req' = [req EXCEPT ![d] = [NoReq EXCEPT !.pc = "checked", !.tag = tag, !.over = over,
                       !.seen = seen, !.row = Max({0} \cup {r.id : r \in Named(tag)})]]
        /\ UNCHANGED act
  /\ UNCHANGED <<clock, rows, next, disk, sync, local, held, plays, mishaps, stored>>

Write(d) ==
  /\ req[d].pc = "checked"
  /\ disk' = Written(req[d].tag, local[d].data, disk)
  /\ req' = [req EXCEPT ![d].pc = "written"]
  /\ UNCHANGED <<clock, rows, next, sync, local, held, act, plays, mishaps, stored>>

\* Mutant: the saves come in ascending order.
SurplusNewest(in) ==
  {in \ K : K \in {S \in SUBSET in :
     /\ Cardinality(S) = IF Cardinality(in) < Limit THEN Cardinality(in) ELSE Limit
     /\ \A k \in S, o \in in \ S : o.at >= k.at}}

\* What autocleanup keeps: the newest, as many as the limit says.
Surplus(in) ==
  {in \ K : K \in {S \in SUBSET in :
     /\ Cardinality(S) = IF Cardinality(in) < Limit THEN Cardinality(in) ELSE Limit
     /\ \A k \in S, o \in in \ S : o.at <= k.at}}

Finish(d) == act' = [act EXCEPT ![d] = NoAct]
Quit(d)   == req' = [req EXCEPT ![d] = NoReq] /\ Finish(d)

\* The file is read back for its hash.  A content the slot already has is not stored
\* again; a row of the same file is brought up to date; otherwise a row is added.
Store(d) ==
  /\ req[d].pc = "written"
  /\ LET q    == req[d]
         file == FileAt(q.tag, disk)
         data == (CHOOSE f \in file : TRUE).data
         mine == IF q.row # 0 THEN Row(q.row) ELSE {r \in Named(q.tag) : r.data # data}
         gone == q.row # 0 /\ mine = {}
     IN \/ /\ (file = {} \/ gone) /\ Quit(d)
           /\ UNCHANGED <<clock, rows, next, disk, sync>>
        \/ /\ file # {} /\ ~q.over /\ \E r \in rows : r.data = data
           /\ disk' = disk \ file
           /\ Quit(d)
           /\ UNCHANGED <<clock, rows, next, sync>>
        \/ /\ file # {} /\ (q.over \/ ~ \E r \in rows : r.data = data)
           /\ ~gone /\ Tick
           /\ \E id \in IF mine = {} THEN {next} ELSE {r.id : r \in mine} :
                /\ rows' = (rows \ Row(id)) \cup {[id |-> id, data |-> data, at |-> clock', tag |-> q.tag]}
                /\ sync' = Upserted(d, id, clock')
           /\ next' = IF mine = {} THEN next + 1 ELSE next
           /\ \E S \in Surplus(rows') :
                req' = [req EXCEPT ![d].pc = "cleaning", ![d].doomed = {r.id : r \in S}]
           /\ UNCHANGED <<disk, act>>
  /\ stored' = stored \cup {r.data : r \in rows'}
  /\ UNCHANGED <<local, held, plays, mishaps>>

\* Autocleanup deletes the surplus it found, row and file.
Clean(d) ==
  /\ req[d].pc = "cleaning"
  /\ LET gone == {r \in rows : r.id \in req[d].doomed}
     IN /\ rows' = rows \ gone
        /\ disk' = {f \in disk : \A r \in gone : f.tag # r.tag}
  /\ sync' = Forget(req[d].doomed, sync)
  /\ Quit(d)
  /\ UNCHANGED <<clock, next, local, held, plays, mishaps, stored>>

-----------------------------------------------------------------------------
(* download_save and confirm_download. *)

Lose == mishaps < MaxMishaps /\ mishaps' = mishaps + 1

\* The device's save becomes what it received.
Install(d, r, data) ==
  /\ Tick
  /\ \E mtime \in IF "restamp" \in Env THEN {clock', r.at} ELSE {r.at} :
       local' = [local EXCEPT ![d] = [data |-> data, mtime |-> mtime]]
  /\ held' = [held EXCEPT ![d] = @ \cup {data}]

\* A device told of a conflict may also give in and download.
Wanted(d) == {r \in rows : act[d].op = "download" /\ r.id = act[d].id}
             \cup {r \in Newest(rows) : act[d].op = "conflict"}

\* The row or its file is gone.
DownloadMissing(d) ==
  /\ act[d].op = "download" /\ req[d].pc = "idle"
  /\ \A r \in Wanted(d) : FileAt(r.tag, disk) = {}
  /\ Finish(d)
  /\ UNCHANGED <<clock, rows, next, disk, sync, local, held, req, plays, mishaps, stored>>

\* The device is on record before the answer is sent.
DownloadOptimistic(d) ==
  /\ d \notin Confirming /\ req[d].pc = "idle"
  /\ \E r \in Wanted(d) : \E f \in FileAt(r.tag, disk) :
       /\ sync' = Upserted(d, r.id, r.at)
       /\ \/ Install(d, r, f.data) /\ UNCHANGED mishaps
          \/ "early" \in Env /\ Lose /\ UNCHANGED <<clock, local, held>>
  /\ Finish(d)
  /\ UNCHANGED <<rows, next, disk, req, plays, stored>>

\* Mutant: every download is on record at once.
DownloadOnRecord(d) ==
  /\ d \in Confirming /\ req[d].pc = "idle"
  /\ \E r \in Wanted(d) : \E f \in FileAt(r.tag, disk) :
       /\ sync' = Upserted(d, r.id, r.at)
       /\ \/ /\ Install(d, r, f.data)
             /\ req' = [req EXCEPT ![d] = [NoReq EXCEPT !.pc = "got", !.row = r.id]]
             /\ UNCHANGED <<act, mishaps>>
          \/ "lost" \in Env /\ Lose /\ Finish(d) /\ UNCHANGED <<clock, local, held, req>>
  /\ UNCHANGED <<rows, next, disk, plays, stored>>

Download(d) ==
  /\ d \in Confirming /\ req[d].pc = "idle"
  /\ \E r \in Wanted(d) : \E f \in FileAt(r.tag, disk) :
       \/ /\ Install(d, r, f.data)
          /\ req' = [req EXCEPT ![d] = [NoReq EXCEPT !.pc = "got", !.row = r.id]]
          /\ UNCHANGED <<act, mishaps>>
       \/ "lost" \in Env /\ Lose /\ Finish(d) /\ UNCHANGED <<clock, local, held, req>>
  /\ UNCHANGED <<rows, next, disk, sync, plays, stored>>

\* The device is on record for the row as it is when it confirms.
Confirm(d) ==
  /\ req[d].pc = "got"
  /\ sync' = IF Row(req[d].row) = {} THEN sync
             ELSE Upserted(d, req[d].row, (CHOOSE r \in Row(req[d].row) : TRUE).at)
  /\ Quit(d)
  /\ UNCHANGED <<clock, rows, next, disk, local, held, plays, mishaps, stored>>

-----------------------------------------------------------------------------

Exchange(d) ==
  \/ (\E over \in BOOLEAN : Check(d, over)) \/ Write(d) \/ Store(d) \/ Clean(d)
  \/ DownloadMissing(d) \/ DownloadOptimistic(d) \/ Download(d) \/ Confirm(d)

Next ==
  \/ \E d \in Devices : Play(d) \/ Negotiate(d) \/ Exchange(d)
  \/ \E r \in rows : Delete(r)

Spec == Init /\ [][Next]_vars

\* Devices keep negotiating and do what they are told.
Fairness == \A d \in Devices : WF_vars(Negotiate(d)) /\ WF_vars(Exchange(d))

FairSpec == Spec /\ Fairness

-----------------------------------------------------------------------------
(* Properties. *)

\* An upload that passed the check follows a save its device has had: what a device is
\* on record for, it really holds (endpoints/saves.py 219-237, 534-541, 549-569).
SeenBeforeReplaced ==
  \A d \in Devices : req[d].pc # "idle" /\ req[d].seen # None => req[d].seen \in held[d]

\* A row's file is there, with the content the row has the hash of, whatever other
\* requests wrote, deduplicated and cleaned up (endpoints/saves.py 252-323).
RowHasFile == \A r \in rows : [tag |-> r.tag, data |-> r.data] \in disk

\* Autocleanup never takes the slot's current save: at least the newest upload stays
\* ("Keep at least the save just uploaded", endpoints/saves.py 179).
NewestStays ==
  [][mishaps' = mishaps /\ rows # {} => \E r \in rows' : \A o \in rows : o.at <= r.at]_vars

\* When nobody plays any more the devices end up with the slot's newest save.
Converges ==
  <>[](\A d \in Devices : rows = {} \/ \E r \in Newest(rows) : local[d].data = r.data)

\* A device that has synced the slot before, and has been played on since, is never told
\* to drop what was played ("conflict: both sides changed, needs resolution",
\* handler/sync/comparison.py 30).
NothingDiscarded ==
  \A d \in Devices :
    act[d].op = "download" /\ sync[d] # {} => local[d].data \in stored \cup {None}
=============================================================================
