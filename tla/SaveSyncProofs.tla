--------------------------- MODULE SaveSyncProofs ---------------------------
(* Rows and files of a slot, and what devices are on record for, for any devices and *)
(* bounds, as long as no two uploads to the slot arrive within one second.           *)
EXTENDS SaveSync, FiniteSetTheorems, WellFoundedInduction, TLAPS

-----------------------------------------------------------------------------
(* The tag of an upload is fresh. *)

LEMMA LeastExists == ASSUME NEW S \in SUBSET Nat, S # {} PROVE \E x \in S : \A y \in S : x <= y
<1> DEFINE R == OpToRel(<, Nat)
<1>1. \A x, y \in Nat : <<y, x>> \in R <=> y < x
  BY DEF OpToRel
<1>2. IsWellFoundedOn(R, Nat)
  BY NatLessThanWellFounded
<1> HIDE DEF R
<1>3. PICK x \in S : \A y \in S : ~ (<<y, x>> \in R)
  BY <1>2, WFMin
<1>4. \A y \in S : x <= y
  <2> TAKE y \in S
  <2>1. x \in Nat /\ y \in Nat
    OBVIOUS
  <2>2. ~ (y < x)
    BY Zenon, <1>1, <1>3, <2>1
  <2> QED BY <2>1, <2>2
<1> QED BY <1>4

LEMMA MinIsMember == ASSUME NEW S \in SUBSET Nat, S # {} PROVE Min(S) \in S
BY LeastExists DEF Min

LEMMA MaxOfOne == Max({0} \cup {}) = 0
BY DEF Max

\* A set given by the values of a finite one is finite.
LEMMA ImageFinite ==
  ASSUME NEW S, IsFiniteSet(S), NEW f, DOMAIN f = S
  PROVE  IsFiniteSet({f[x] : x \in S})
<1> DEFINE T == {f[x] : x \in S}
           g == [x \in S |-> f[x]]
<1>1. g \in Surjection(S, T)
  BY DEF Surjection
<1> QED BY <1>1, FS_Surjection

LEMMA FreshMember ==
  ASSUME NEW T, IsFiniteSet(T)
  PROVE  Min((1..Cardinality(T) + 1) \ T) \in Nat \ T
<1> DEFINE n == Cardinality(T) + 1
<1>1. Cardinality(T) \in Nat
  BY FS_CardinalityType
<1>2. (1..n) \ T # {}
  <2> SUFFICES ASSUME (1..n) \ T = {} PROVE FALSE
    OBVIOUS
  <2>1. (1..n) \in SUBSET T
    OBVIOUS
  <2>2. Cardinality(1..n) = n
    BY <1>1, FS_Interval
  <2>3. Cardinality(1..n) <= Cardinality(T)
    BY <2>1, FS_Subset
  <2> QED BY <1>1, <2>2, <2>3
<1>3. (1..n) \ T \in SUBSET Nat
  BY <1>1
<1> QED BY <1>2, <1>3, MinIsMember

-----------------------------------------------------------------------------
(* The inductive invariant: rows, files and uploads under way keep out of each *)
(* other's way.                                                                *)

Active(d) == req[d].pc \in {"checked", "written"}
File(tag, data) == [tag |-> tag, data |-> data]

Shape ==
  /\ IsFiniteSet(rows) /\ IsFiniteSet(disk) /\ next \in Nat \ {0}
  /\ \A r \in rows : r.id \in 0..(next - 1) /\ r.tag \in Nat
  /\ \A f \in disk : f = File(f.tag, f.data)
  /\ \A f \in {req, sync, local, held} : DOMAIN f = Devices
  /\ \A d \in Devices : {"pc", "doomed"} \subseteq DOMAIN req[d]

\* A row is known by its id and by its tag, and has the one file of that tag.
RowsApart ==
  /\ \A r, o \in rows : r.id = o.id \/ r.tag = o.tag => r = o
  /\ \A r \in rows : FileAt(r.tag, disk) = {File(r.tag, r.data)}

\* An upload under way has a tag of its own, and is about to add a row.
UploadsApart ==
  /\ \A d \in Devices : Active(d) =>
       req[d].row = 0 /\ req[d].tag \in Nat /\ \A r \in rows : r.tag # req[d].tag
  /\ \A d, e \in Devices : Active(d) /\ Active(e) /\ req[d].tag = req[e].tag => d = e
  /\ \A d \in Devices :
       /\ req[d].pc = "checked" => FileAt(req[d].tag, disk) = {}
       /\ req[d].pc = "written" => FileAt(req[d].tag, disk) = {File(req[d].tag, local[d].data)}

IInv == Shape /\ RowsApart /\ UploadsApart

LEMMA InitInv == Init => IInv
BY FS_EmptySet DEF Init, IInv, Shape, RowsApart, UploadsApart, Active, NoReq

\* Rows go, each with its file, and uploads under way stay as they are.
LEMMA Removed ==
  ASSUME IInv, NEW gone \in SUBSET rows,
         rows' = rows \ gone, disk' = {f \in disk : \A r \in gone : f.tag # r.tag},
         next' = next, \A f \in {req, sync, local, held}' : DOMAIN f = Devices,
         \A d \in Devices : {"pc", "doomed"} \subseteq DOMAIN req'[d],
         \A d \in Devices : Active(d)' => req'[d] = req[d] /\ local'[d] = local[d]
  PROVE  IInv'
<1>1. rows' \in SUBSET rows /\ disk' \in SUBSET disk
  OBVIOUS
<1>2. Shape'
  BY <1>1, FS_Subset DEF IInv, Shape
<1>3. \A tag : (\A r \in gone : r.tag # tag) => FileAt(tag, disk') = FileAt(tag, disk)
  BY DEF FileAt
<1>4. RowsApart'
  <2>1. \A r \in rows' : \A o \in gone : o.tag # r.tag
    BY DEF IInv, RowsApart
  <2> QED BY <1>1, <1>3, <2>1 DEF IInv, RowsApart
<1>5. UploadsApart'
  <2>1. \A d \in Devices : Active(d)' => Active(d) /\ \A o \in gone : o.tag # req[d].tag
    BY DEF IInv, UploadsApart, Active
  <2>2. \A d \in Devices : Active(d)' => FileAt(req'[d].tag, disk') = FileAt(req[d].tag, disk)
    BY <1>3, <2>1
  <2>3. ASSUME NEW d \in Devices
        PROVE  /\ req'[d].pc = "checked" => FileAt(req'[d].tag, disk') = {}
               /\ req'[d].pc = "written" =>
                    FileAt(req'[d].tag, disk') = {File(req'[d].tag, local'[d].data)}
    BY <2>1, <2>2 DEF IInv, UploadsApart, Active
  <2>4. \A d \in Devices : Active(d)' =>
          req'[d].row = 0 /\ req'[d].tag \in Nat /\ \A r \in rows' : r.tag # req'[d].tag
    BY <1>1, <2>1 DEF IInv, UploadsApart
  <2>5. \A d, e \in Devices : Active(d)' /\ Active(e)' /\ req'[d].tag = req'[e].tag => d = e
    BY <2>1 DEF IInv, UploadsApart
  <2> QED BY <2>3, <2>4, <2>5 DEF UploadsApart
<1> QED BY <1>2, <1>4, <1>5 DEF IInv

\* The same with nothing removed.
LEMMA Untouched ==
  ASSUME IInv, UNCHANGED <<rows, disk, next>>,
         \A f \in {req, sync, local, held}' : DOMAIN f = Devices,
         \A d \in Devices : {"pc", "doomed"} \subseteq DOMAIN req'[d],
         \A d \in Devices : Active(d)' => req'[d] = req[d] /\ local'[d] = local[d]
  PROVE  IInv'
<1>1. {} \in SUBSET rows /\ rows' = rows \ {} /\ disk' = {f \in disk : \A r \in {} : f.tag # r.tag}
  OBVIOUS
<1> QED BY <1>1, Removed

LEMMA PlayInv == ASSUME IInv, NEW d \in Devices, Play(d) PROVE IInv'
<1>1. \A e \in Devices : Active(e)' => local'[e] = local[e]
  BY DEF Play, Idle, Active, IInv, Shape
<1> QED BY <1>1, Untouched DEF Play, IInv, Shape

LEMMA DeleteInv == ASSUME IInv, NEW r \in rows, Delete(r) PROVE IInv'
<1>1. /\ {r} \in SUBSET rows /\ rows' = rows \ {r}
      /\ disk' = {f \in disk : \A o \in {r} : f.tag # o.tag}
  BY DEF Delete, FileAt
<1>2. DOMAIN sync' = Devices
  BY DEF Delete, Forget
<1> QED BY <1>1, <1>2, Removed DEF Delete, IInv, Shape

LEMMA NegotiateInv == ASSUME IInv, NEW d \in Devices, Negotiate(d) PROVE IInv'
BY Untouched DEF Negotiate, IInv, Shape

LEMMA DownloadInv ==
  ASSUME IInv, NEW d \in Devices,
         DownloadMissing(d) \/ DownloadOptimistic(d) \/ Download(d) \/ Confirm(d)
  PROVE  IInv'
<1>1. UNCHANGED <<rows, disk, next>>
  BY DEF DownloadMissing, DownloadOptimistic, Download, Confirm
<1>2. /\ req' = req \/ \E q : /\ req' = [req EXCEPT ![d] = q]
                              /\ q.pc \in {"idle", "got"} /\ {"pc", "doomed"} \subseteq DOMAIN q
      /\ sync' = sync \/ \E q : sync' = [sync EXCEPT ![d] = q]
  <2>1. DOMAIN NoReq = {"pc", "tag", "over", "row", "seen", "doomed"} /\ NoReq.pc = "idle"
    BY DEF NoReq
  <2>2. \A id : LET q == [NoReq EXCEPT !.pc = "got", !.row = id]
                IN q.pc = "got" /\ {"pc", "doomed"} \subseteq DOMAIN q
    BY DEF NoReq
  <2> HIDE DEF NoReq
  <2>3. CASE DownloadMissing(d)
    BY <2>3 DEF DownloadMissing
  <2>4. CASE DownloadOptimistic(d)
    BY <2>4 DEF DownloadOptimistic, Upserted
  <2>5. CASE Download(d)
    <3>1. req' = req \/ \E id : req' = [req EXCEPT ![d] = [NoReq EXCEPT !.pc = "got", !.row = id]]
      BY <2>5 DEF Download
    <3>2. sync' = sync
      BY <2>5 DEF Download
    <3> QED BY <2>2, <3>1, <3>2
  <2>6. CASE Confirm(d)
    BY <2>1, <2>6 DEF Confirm, Quit, Upserted
  <2> QED BY <2>3, <2>4, <2>5, <2>6
<1>3. /\ local' = local \/ \E x : local' = [local EXCEPT ![d] = x]
      /\ held' = held \/ \E x : held' = [held EXCEPT ![d] = x]
      /\ local' = local \/ req'[d].pc \in {"idle", "got"}
  <2>1. CASE DownloadMissing(d) \/ Confirm(d)
    BY <2>1 DEF DownloadMissing, Confirm
  <2>2. ASSUME NEW r, NEW data, Install(d, r, data)
        PROVE  /\ \E x : local' = [local EXCEPT ![d] = x]
               /\ \E x : held' = [held EXCEPT ![d] = x]
    BY <2>2 DEF Install
  <2>3. CASE DownloadOptimistic(d)
    BY <2>2, <2>3 DEF DownloadOptimistic
  <2>4. CASE Download(d)
    <3>1. req'[d].pc \in {"idle", "got"}
      BY <2>4 DEF Download, NoReq, IInv, Shape
    <3>2. UNCHANGED <<local, held>> \/ \E r, data : Install(d, r, data)
      BY <2>4 DEF Download
    <3> QED BY <2>2, <3>1, <3>2
  <2> QED BY <2>1, <2>3, <2>4
<1>4. \A f \in {req, sync, local, held}' : DOMAIN f = Devices
  BY <1>2, <1>3 DEF IInv, Shape
<1>5. \A e \in Devices : {"pc", "doomed"} \subseteq DOMAIN req'[e]
  BY <1>2 DEF IInv, Shape
<1>6. \A e \in Devices : Active(e)' => req'[e] = req[e] /\ local'[e] = local[e]
  BY <1>2, <1>3 DEF Active, IInv, Shape
<1> QED BY <1>1, <1>4, <1>5, <1>6, Untouched

-----------------------------------------------------------------------------
(* An upload. *)

LEMMA TakenFinite == ASSUME IInv PROVE IsFiniteSet(Taken)
<1> DEFINE U == {e \in Devices : req[e].pc \in {"checked", "written"}}
           file == [f \in disk |-> f.tag]
           row  == [r \in rows |-> r.tag]
           up   == [d \in U |-> req[d].tag]
<1>1. IsFiniteSet(disk) /\ IsFiniteSet(rows) /\ IsFiniteSet(U)
  BY DevicesAssumption, FS_Subset DEF IInv, Shape
<1>2. DOMAIN file = disk /\ DOMAIN row = rows /\ DOMAIN up = U
  OBVIOUS
<1>3. Taken = ({file[f] : f \in disk} \cup {row[r] : r \in rows}) \cup {up[d] : d \in U}
  BY DEF Taken
<1> HIDE DEF U, file, row, up
<1>4. /\ IsFiniteSet({file[f] : f \in disk}) /\ IsFiniteSet({row[r] : r \in rows})
      /\ IsFiniteSet({up[d] : d \in U})
  BY <1>1, <1>2, ImageFinite
<1> QED BY <1>3, <1>4, FS_Union

LEMMA TagFresh ==
  ASSUME IInv, "second" \notin Env, NEW tag \in Tags
  PROVE  /\ tag \in Nat
         /\ FileAt(tag, disk) = {} /\ Named(tag) = {}
         /\ \A d \in Devices : Active(d) => req[d].tag # tag
<1>1. tag = Min((1..Cardinality(Taken) + 1) \ Taken)
  BY DEF Tags
<1>2. tag \in Nat \ Taken
  BY <1>1, TakenFinite, FreshMember
<1> QED BY <1>2 DEF Taken, FileAt, Named, Active

LEMMA CheckInv ==
  ASSUME IInv, "second" \notin Env, NEW d \in Devices, NEW over, Check(d, over) PROVE IInv'
<1>1. UNCHANGED <<rows, disk, next, sync, local, held>>
  BY DEF Check
<1>2. CASE req' = req
  BY <1>1, <1>2, Untouched DEF IInv, Shape
<1>3. CASE req' # req
  <2>1. PICK tag \in Tags, seen \in Passed(d, over) :
          req' = [req EXCEPT ![d] = [NoReq EXCEPT !.pc = "checked", !.tag = tag, !.over = over,
                    !.seen = seen, !.row = Max({0} \cup {r.id : r \in Named(tag)})]]
    BY <1>3 DEF Check
  <2>2. /\ tag \in Nat /\ FileAt(tag, disk) = {} /\ Named(tag) = {}
        /\ \A e \in Devices : Active(e) => req[e].tag # tag
    BY TagFresh
  <2>3. Max({0} \cup {r.id : r \in Named(tag)}) = 0
    BY <2>2, MaxOfOne, {r.id : r \in Named(tag)} = {}
  <2>4. /\ req'[d].pc = "checked" /\ req'[d].tag = tag /\ req'[d].row = 0
        /\ {"pc", "doomed"} \subseteq DOMAIN req'[d]
        /\ DOMAIN req' = Devices
        /\ \A e \in Devices \ {d} : req'[e] = req[e]
    BY <2>1, <2>3 DEF NoReq, IInv, Shape
  <2>5. Shape' /\ RowsApart'
    BY <1>1, <2>4 DEF IInv, Shape, RowsApart
  <2>6. UploadsApart'
    BY <1>1, <2>2, <2>4 DEF IInv, UploadsApart, Active, Named
  <2> QED BY <2>5, <2>6 DEF IInv
<1> QED BY <1>2, <1>3

LEMMA WriteInv == ASSUME IInv, NEW d \in Devices, Write(d) PROVE IInv'
<1> DEFINE tag == req[d].tag
           new == File(tag, local[d].data)
<1>1. /\ req[d].pc = "checked" /\ Active(d)
      /\ UNCHANGED <<rows, next, sync, local, held>>
      /\ req' = [req EXCEPT ![d].pc = "written"]
      /\ disk' = Written(tag, local[d].data, disk)
  BY DEF Write, Active
<1>2. disk' = disk \cup {new}
  BY <1>1 DEF Written, IInv, UploadsApart, File
<1>3. \A t : FileAt(t, disk') = IF t = tag THEN {new} ELSE FileAt(t, disk)
  BY <1>1, <1>2 DEF FileAt, IInv, UploadsApart, File
<1>4. /\ req'[d].pc = "written" /\ req'[d].tag = tag /\ req'[d].row = req[d].row
      /\ DOMAIN req' = Devices /\ {"pc", "doomed"} \subseteq DOMAIN req'[d]
      /\ \A e \in Devices \ {d} : req'[e] = req[e]
  BY <1>1 DEF IInv, Shape
<1>5. Shape'
  <2>1. IsFiniteSet(disk')
    BY <1>2, FS_AddElement DEF IInv, Shape
  <2>2. new = File(new.tag, new.data)
    BY DEF File
  <2> HIDE DEF new
  <2>3. \A f \in disk' : f = File(f.tag, f.data)
    BY <1>2, <2>2 DEF IInv, Shape
  <2> QED BY <1>1, <1>4, <2>1, <2>3 DEF IInv, Shape
<1>6. RowsApart'
  BY <1>1, <1>3 DEF IInv, RowsApart, UploadsApart
<1>7. UploadsApart'
  <2>1. \A e \in Devices : Active(e)' => Active(e) /\ req'[e].tag = req[e].tag
    BY <1>1, <1>4 DEF Active
  <2>2. \A e \in Devices \ {d} : Active(e) => req[e].tag # tag
    BY <1>1 DEF IInv, UploadsApart
  <2>3. \A e \in Devices \ {d} :
          Active(e) => FileAt(req'[e].tag, disk') = FileAt(req[e].tag, disk)
    BY <1>3, <1>4, <2>2
  <2>4. FileAt(req'[d].tag, disk') = {new} /\ local' = local
    BY <1>1, <1>3, <1>4
  <2>5. \A e \in Devices :
          /\ req'[e].pc = "checked" => FileAt(req'[e].tag, disk') = {}
          /\ req'[e].pc = "written" => FileAt(req'[e].tag, disk') = {File(req'[e].tag, local'[e].data)}
    BY <1>4, <2>3, <2>4 DEF IInv, UploadsApart, Active
  <2>6. \A e \in Devices : Active(e)' =>
          req'[e].row = 0 /\ req'[e].tag \in Nat /\ \A r \in rows' : r.tag # req'[e].tag
    BY <1>1, <1>4, <2>1 DEF IInv, UploadsApart
  <2>7. \A e, c \in Devices : Active(e)' /\ Active(c)' /\ req'[e].tag = req'[c].tag => e = c
    BY <2>1 DEF IInv, UploadsApart
  <2> QED BY <2>5, <2>6, <2>7 DEF UploadsApart
<1> QED BY <1>5, <1>6, <1>7 DEF IInv

LEMMA CleanInv == ASSUME IInv, NEW d \in Devices, Clean(d) PROVE IInv'
<1> DEFINE gone == {r \in rows : r.id \in req[d].doomed}
<1>1. /\ rows' = rows \ gone /\ disk' = {f \in disk : \A r \in gone : f.tag # r.tag}
      /\ UNCHANGED <<next, local, held>> /\ req' = [req EXCEPT ![d] = NoReq]
      /\ DOMAIN sync' = Devices
  BY DEF Clean, Quit, Forget
<1>2. gone \in SUBSET rows
  OBVIOUS
<1> HIDE DEF gone
<1>3. NoReq.pc = "idle" /\ {"pc", "doomed"} \subseteq DOMAIN NoReq
  BY DEF NoReq
<1>4. /\ \A e \in Devices : {"pc", "doomed"} \subseteq DOMAIN req'[e]
      /\ \A e \in Devices : Active(e)' => req'[e] = req[e]
      /\ DOMAIN req' = Devices
  BY <1>1, <1>3 DEF Active, IInv, Shape
<1> QED BY <1>1, <1>2, <1>4, Removed DEF IInv, Shape

\* What an upload does at its end: its content is the slot's already and its file goes,
\* or a row of its own is added.
LEMMA StoreCases ==
  ASSUME IInv, NEW d \in Devices, Store(d)
  PROVE  /\ req[d].pc = "written" /\ UNCHANGED <<local, held>>
         /\ \/ /\ disk' = disk \ FileAt(req[d].tag, disk) /\ Quit(d)
               /\ UNCHANGED <<rows, next, sync>>
            \/ /\ rows' = rows \cup {[id |-> next, data |-> local[d].data, at |-> clock',
                                      tag |-> req[d].tag]}
               /\ sync' = Upserted(d, next, clock')
               /\ next' = next + 1 /\ disk' = disk
               /\ \E S : req' = [req EXCEPT ![d].pc = "cleaning", ![d].doomed = S]
<1> DEFINE q    == req[d]
           file == FileAt(q.tag, disk)
           data == (CHOOSE f \in file : TRUE).data
           mine == IF q.row # 0 THEN Row(q.row) ELSE {r \in Named(q.tag) : r.data # data}
           gone == q.row # 0 /\ mine = {}
<1>1. q.pc = "written" /\ UNCHANGED <<local, held>>
  BY DEF Store
<1>2. /\ file = {File(q.tag, local[d].data)} /\ q.row = 0 /\ Named(q.tag) = {}
  BY <1>1 DEF IInv, UploadsApart, Active, Named
<1>3. data = local[d].data /\ mine = {} /\ ~gone /\ file # {}
  <2>1. (CHOOSE f \in file : TRUE) = File(q.tag, local[d].data)
    BY <1>2
  <2>2. data = local[d].data
    <3>1. File(q.tag, local[d].data).data = local[d].data
      BY DEF File
    <3> QED BY Zenon, <2>1, <3>1
  <2>3. mine = {}
    BY <1>2
  <2> QED BY <1>2, <2>2, <2>3
<1>4. Row(next) = {}
  BY DEF Row, IInv, Shape
<1>5. \/ /\ (file = {} \/ gone) /\ Quit(d)
         /\ UNCHANGED <<clock, rows, next, disk, sync>>
      \/ /\ file # {} /\ ~q.over /\ \E r \in rows : r.data = data
         /\ disk' = disk \ file
         /\ Quit(d)
         /\ UNCHANGED <<clock, rows, next, sync>>
      \/ /\ \E id \in IF mine = {} THEN {next} ELSE {r.id : r \in mine} :
              /\ rows' = (rows \ Row(id)) \cup {[id |-> id, data |-> data, at |-> clock', tag |-> q.tag]}
              /\ sync' = Upserted(d, id, clock')
         /\ next' = IF mine = {} THEN next + 1 ELSE next
         /\ \E S : req' = [req EXCEPT ![d].pc = "cleaning", ![d].doomed = S]
         /\ UNCHANGED disk
  BY DEF Store
<1> HIDE DEF data, mine, gone
<1> QED BY <1>1, <1>3, <1>4, <1>5

LEMMA StoreInv == ASSUME IInv, NEW d \in Devices, Store(d) PROVE IInv'
<1> DEFINE tag == req[d].tag
           new == [id |-> next, data |-> local[d].data, at |-> clock', tag |-> tag]
<1>1. req[d].pc = "written" /\ Active(d) /\ UNCHANGED <<local, held>>
  BY StoreCases DEF Active
<1>2. /\ FileAt(tag, disk) = {File(tag, local[d].data)} /\ tag \in Nat
      /\ \A r \in rows : r.tag # tag
      /\ \A e \in Devices \ {d} : Active(e) => req[e].tag # tag
  BY <1>1 DEF IInv, UploadsApart
<1>3. CASE /\ disk' = disk \ FileAt(tag, disk) /\ Quit(d)
           /\ UNCHANGED <<rows, next, sync>>
  <2>1. \A t : t # tag => FileAt(t, disk') = FileAt(t, disk)
    BY <1>3 DEF FileAt
  <2>2. NoReq.pc = "idle" /\ {"pc", "doomed"} \subseteq DOMAIN NoReq
    BY DEF NoReq
  <2>3. req' = [req EXCEPT ![d] = NoReq]
    BY <1>3 DEF Quit
  <2>4. /\ DOMAIN req' = Devices /\ \A e \in Devices : {"pc", "doomed"} \subseteq DOMAIN req'[e]
        /\ \A e \in Devices : Active(e)' => e # d /\ Active(e) /\ req'[e] = req[e]
    BY <2>2, <2>3 DEF Active, IInv, Shape
  <2>5. disk' \in SUBSET disk
    BY <1>3
  <2>6. Shape'
    BY <1>1, <1>3, <2>4, <2>5, FS_Subset DEF IInv, Shape
  <2>7. RowsApart'
    BY <1>2, <1>3, <2>1 DEF IInv, RowsApart
  <2>8. UploadsApart'
    <3>1. \A e \in Devices : Active(e)' => FileAt(req'[e].tag, disk') = FileAt(req[e].tag, disk)
      BY <1>2, <2>1, <2>4
    <3>2. \A e \in Devices :
            /\ req'[e].pc = "checked" => FileAt(req'[e].tag, disk') = {}
            /\ req'[e].pc = "written" => FileAt(req'[e].tag, disk') = {File(req'[e].tag, local'[e].data)}
      BY <1>1, <2>4, <3>1 DEF IInv, UploadsApart, Active
    <3>3. \A e \in Devices : Active(e)' =>
            req'[e].row = 0 /\ req'[e].tag \in Nat /\ \A r \in rows' : r.tag # req'[e].tag
      BY <1>3, <2>4 DEF IInv, UploadsApart
    <3>4. \A e, c \in Devices : Active(e)' /\ Active(c)' /\ req'[e].tag = req'[c].tag => e = c
      BY <2>4 DEF IInv, UploadsApart
    <3> QED BY <3>2, <3>3, <3>4 DEF UploadsApart
  <2> QED BY <2>6, <2>7, <2>8 DEF IInv
<1>4. CASE /\ rows' = rows \cup {new}
           /\ sync' = Upserted(d, next, clock')
           /\ next' = next + 1 /\ disk' = disk
           /\ \E S : req' = [req EXCEPT ![d].pc = "cleaning", ![d].doomed = S]
  <2>1. PICK S : req' = [req EXCEPT ![d].pc = "cleaning", ![d].doomed = S]
    BY <1>4
  <2>2. /\ DOMAIN req' = Devices /\ \A e \in Devices : {"pc", "doomed"} \subseteq DOMAIN req'[e]
        /\ \A e \in Devices : Active(e)' => e # d /\ Active(e) /\ req'[e] = req[e]
    BY <2>1 DEF Active, IInv, Shape
  <2>3. DOMAIN sync' = Devices
    BY <1>4 DEF Upserted, IInv, Shape
  <2>4. IsFiniteSet(rows')
    BY <1>4, FS_AddElement DEF IInv, Shape
  <2>5. Shape'
    BY <1>1, <1>2, <1>4, <2>2, <2>3, <2>4 DEF IInv, Shape
  <2>6. RowsApart'
    <3>1. \A r \in rows : r.id # new.id /\ r.tag # new.tag
      BY <1>2 DEF IInv, Shape
    <3>2. FileAt(new.tag, disk') = {File(new.tag, new.data)}
      BY <1>2, <1>4
    <3> HIDE DEF new
    <3> QED BY <1>4, <3>1, <3>2 DEF IInv, RowsApart
  <2>7. UploadsApart'
    <3>1. \A e \in Devices : Active(e)' => req'[e].tag # tag
      BY <1>2, <2>2
    <3>2. \A r \in rows' : r \in rows \/ r.tag = tag
      BY <1>4
    <3>3. \A e \in Devices : Active(e)' =>
            req'[e].row = 0 /\ req'[e].tag \in Nat /\ \A r \in rows' : r.tag # req'[e].tag
      BY <2>2, <3>1, <3>2 DEF IInv, UploadsApart
    <3>4. \A e, c \in Devices : Active(e)' /\ Active(c)' /\ req'[e].tag = req'[c].tag => e = c
      BY <2>2 DEF IInv, UploadsApart
    <3>5. \A e \in Devices :
            /\ req'[e].pc = "checked" => FileAt(req'[e].tag, disk') = {}
            /\ req'[e].pc = "written" => FileAt(req'[e].tag, disk') = {File(req'[e].tag, local'[e].data)}
      BY <1>1, <1>4, <2>2 DEF IInv, UploadsApart, Active
    <3> QED BY <3>3, <3>4, <3>5 DEF UploadsApart
  <2> QED BY <2>5, <2>6, <2>7 DEF IInv
<1> QED BY <1>3, <1>4, StoreCases

LEMMA NextInv == ASSUME IInv, "second" \notin Env, [Next]_vars PROVE IInv'
<1>1. ASSUME NEW d \in Devices, Exchange(d) PROVE IInv'
  BY <1>1, CheckInv, WriteInv, StoreInv, CleanInv, DownloadInv DEF Exchange
<1>2. CASE UNCHANGED vars
  BY <1>2, Untouched DEF vars, IInv, Shape
<1> QED BY <1>1, <1>2, PlayInv, NegotiateInv, DeleteInv DEF Next

-----------------------------------------------------------------------------
\* Rows, files and uploads under way keep apart, however uploads, deduplication,
\* autocleanup and deletions interleave, as long as no two uploads to the slot share a
\* second and so a file name.
THEOREM SaveInvariance == ASSUME "second" \notin Env PROVE Spec => []IInv
<1>1. IInv /\ [Next]_vars => IInv'
  BY NextInv
<1> QED BY <1>1, InitInv, PTL DEF Spec

\* Every row has its file.  (add_save 252-323, delete_saves)
THEOREM SavesHaveFiles == ASSUME "second" \notin Env PROVE Spec => []RowHasFile
<1>1. IInv => RowHasFile
  BY DEF IInv, RowsApart, RowHasFile, FileAt, File
<1> QED BY <1>1, SaveInvariance, PTL

-----------------------------------------------------------------------------
(* What a device is on record for. *)

Had(d) == held[d] \cup {None}

\* A row with that id holds what the device has had.
Known(d, id) == id \in 0..(next - 1) /\ \A r \in rows : r.id = id => r.data \in Had(d)

\* A device has had what it holds, what it is on record for, and what it is about to
\* confirm.
OnRecord ==
  /\ \A d \in Devices : local[d].data \in Had(d)
  /\ \A d \in Devices : \A s \in sync[d] : Known(d, s.id)
  /\ \A d \in Devices : req[d].pc = "got" => Known(d, req[d].row)
  /\ SeenBeforeReplaced

LEMMA StillBelow ==
  ASSUME NEW n \in Nat, NEW m \in {n, n + 1}, NEW id \in 0..(n - 1)
  PROVE  id \in 0..(m - 1) /\ id # n
OBVIOUS

\* Rows are added only under new ids and nothing a device has had is forgotten: what was
\* known stays known.
LEMMA RecordKept ==
  ASSUME Shape, OnRecord,
         next' \in {next, next + 1}, \A r \in rows' : r \in rows \/ r.id = next,
         \A d \in Devices : held[d] \subseteq held'[d],
         \A d \in Devices : local'[d].data \in Had(d)',
         \A d \in Devices : \A s \in sync'[d] : s \in sync[d] \/ Known(d, s.id)',
         \A d \in Devices : req'[d].pc = "got" => req'[d] = req[d] \/ Known(d, req[d].row)',
         \A d \in Devices : req'[d].pc # "idle" /\ req'[d].seen # None =>
           \/ req[d].pc # "idle" /\ req'[d].seen = req[d].seen
           \/ req'[d].seen \in held'[d]
  PROVE  OnRecord'
<1>1. \A d \in Devices : Had(d) \subseteq Had(d)'
  BY DEF Had
<1>2. ASSUME NEW d \in Devices, NEW id, Known(d, id) PROVE Known(d, id)'
  <2>1. id \in 0..(next' - 1) /\ id # next
    <3>1. id \in 0..(next - 1) /\ next \in Nat
      BY <1>2 DEF Known, Shape
    <3> QED BY Zenon, <3>1, StillBelow
  <2>2. \A r \in rows' : r.id = id => r.data \in Had(d)'
    BY <1>1, <1>2, <2>1 DEF Known
  <2> QED BY <2>1, <2>2 DEF Known
<1>3. \A d \in Devices : \A s \in sync'[d] : Known(d, s.id)'
  BY <1>2 DEF OnRecord
<1>4. \A d \in Devices : req'[d].pc = "got" => Known(d, req[d].row)'
  BY <1>2 DEF OnRecord
<1>5. SeenBeforeReplaced'
  BY DEF OnRecord, SeenBeforeReplaced
<1> QED BY <1>3, <1>4, <1>5 DEF OnRecord

LEMMA InitRecord == Init => OnRecord
BY DEF Init, OnRecord, Had, SeenBeforeReplaced, NoReq

LEMMA PlayRecord == ASSUME Shape, OnRecord, NEW d \in Devices, Play(d) PROVE OnRecord'
<1>1. /\ UNCHANGED <<rows, next, sync, req>>
      /\ \E m : local' = [local EXCEPT ![d] = [data |-> <<d, plays'[d]>>, mtime |-> m]]
      /\ held' = [held EXCEPT ![d] = @ \cup {<<d, plays'[d]>>}]
  BY DEF Play
<1>2. \A e \in Devices : held[e] \subseteq held'[e] /\ local'[e].data \in Had(e)'
  BY <1>1 DEF OnRecord, Had, Shape
<1> QED BY <1>1, <1>2, RecordKept

\* Deleted rows take their records along.
LEMMA RemovedRecord ==
  ASSUME Shape, OnRecord, rows' \in SUBSET rows, UNCHANGED <<next, local, held>>,
         NEW ids, sync' = Forget(ids, sync),
         \A d \in Devices : req'[d].pc # "idle" => req'[d] = req[d]
  PROVE  OnRecord'
<1>1. \A d \in Devices : \A s \in sync'[d] : s \in sync[d]
  BY DEF Forget
<1>2. \A d \in Devices : held[d] \subseteq held'[d] /\ local'[d].data \in Had(d)'
  BY DEF OnRecord, Had
<1> QED BY <1>1, <1>2, RecordKept

LEMMA DeleteRecord == ASSUME Shape, OnRecord, NEW r \in rows, Delete(r) PROVE OnRecord'
BY RemovedRecord DEF Delete

LEMMA CleanRecord == ASSUME Shape, OnRecord, NEW d \in Devices, Clean(d) PROVE OnRecord'
<1>1. /\ rows' \in SUBSET rows /\ UNCHANGED <<next, local, held>>
      /\ sync' = Forget(req[d].doomed, sync) /\ req' = [req EXCEPT ![d] = NoReq]
  BY DEF Clean, Quit
<1>2. \A e \in Devices : req'[e].pc # "idle" => req'[e] = req[e]
  BY <1>1 DEF NoReq, Shape
<1> QED BY <1>1, <1>2, RemovedRecord

\* The device has had what its upload is checked against: it is on record for it.
LEMMA CheckRecord ==
  ASSUME Shape, OnRecord, NEW d \in Devices, NEW over, Check(d, over) PROVE OnRecord'
<1>1. UNCHANGED <<rows, next, sync, local, held>>
  BY DEF Check
<1>2. \A e \in Devices : held[e] \subseteq held'[e] /\ local'[e].data \in Had(e)'
  BY <1>1 DEF OnRecord, Had
<1>3. CASE req' = req
  BY <1>1, <1>2, <1>3, RecordKept
<1>4. CASE req' # req
  <2>1. PICK seen \in Passed(d, over) : \E tag, row :
          req' = [req EXCEPT ![d] = [NoReq EXCEPT !.pc = "checked", !.tag = tag, !.over = over,
                    !.seen = seen, !.row = row]]
    <3>1. PICK tag \in Tags, seen \in Passed(d, over) :
            req' = [req EXCEPT ![d] = [NoReq EXCEPT !.pc = "checked", !.tag = tag, !.over = over,
                      !.seen = seen, !.row = Max({0} \cup {r.id : r \in Named(tag)})]]
      BY <1>4 DEF Check
    <3> QED BY Zenon, <3>1
  <2>2. seen = None \/ seen \in held'[d]
    <3>1. ASSUME NEW r \in rows, ~Refused(d, r) PROVE r.data \in Had(d)
      BY <3>1 DEF Refused, LastSynced, OnRecord, Known
    <3>2. Newest(rows) \in SUBSET rows
      BY DEF Newest
    <3> QED BY <1>1, <3>1, <3>2 DEF Passed, Had
  <2>3. /\ req'[d].pc = "checked" /\ req'[d].seen = seen
        /\ \A e \in Devices \ {d} : req'[e] = req[e]
    BY <2>1 DEF NoReq, Shape
  <2> QED BY <1>1, <1>2, <2>2, <2>3, RecordKept
<1> QED BY <1>3, <1>4

LEMMA WriteRecord == ASSUME Shape, OnRecord, NEW d \in Devices, Write(d) PROVE OnRecord'
<1>1. /\ UNCHANGED <<rows, next, sync, local, held>>
      /\ req[d].pc = "checked" /\ req' = [req EXCEPT ![d].pc = "written"]
  BY DEF Write
<1>2. /\ req'[d].pc = "written" /\ req'[d].seen = req[d].seen
      /\ \A e \in Devices \ {d} : req'[e] = req[e]
  BY <1>1 DEF Shape
<1>3. \A e \in Devices : held[e] \subseteq held'[e] /\ local'[e].data \in Had(e)'
  BY <1>1 DEF OnRecord, Had
<1> QED BY <1>1, <1>2, <1>3, RecordKept

\* A record that is brought up to date.
LEMMA UpsertedRecords ==
  ASSUME Shape, NEW d \in Devices, NEW id, NEW at, sync' = Upserted(d, id, at)
  PROVE  /\ \A e \in Devices \ {d} : sync'[e] = sync[e]
         /\ \A s \in sync'[d] : s \in sync[d] \/ s.id = id
BY DEF Upserted, Shape

LEMMA StoreRecord == ASSUME IInv, OnRecord, NEW d \in Devices, Store(d) PROVE OnRecord'
<1> DEFINE new == [id |-> next, data |-> local[d].data, at |-> clock', tag |-> req[d].tag]
<1>1. req[d].pc = "written" /\ UNCHANGED <<local, held>>
  BY StoreCases
<1>2. \A e \in Devices : held[e] \subseteq held'[e] /\ local'[e].data \in Had(e)'
  BY <1>1 DEF OnRecord, Had
<1>3. CASE Quit(d) /\ UNCHANGED <<rows, next, sync>>
  <2>1. \A e \in Devices : req'[e].pc # "idle" => req'[e] = req[e]
    BY <1>3 DEF Quit, NoReq, IInv, Shape
  <2> QED BY <1>1, <1>2, <1>3, <2>1, RecordKept DEF IInv
<1>4. CASE /\ rows' = rows \cup {new} /\ sync' = Upserted(d, next, clock')
           /\ next' = next + 1
           /\ \E S : req' = [req EXCEPT ![d].pc = "cleaning", ![d].doomed = S]
  <2>0. PICK id \in Nat : id = next
    BY DEF IInv, Shape
  <2>1. new.id = id /\ new.data \in Had(d)'
    BY <1>1, <2>0 DEF OnRecord, Had
  <2> HIDE DEF new
  <2>2. \A r \in rows' : r.id = id => r = new
    BY <1>4, <2>0 DEF IInv, Shape
  <2>3. Known(d, id)'
    BY <1>4, <2>0, <2>1, <2>2 DEF Known
  <2>4. /\ req'[d].pc = "cleaning" /\ req'[d].seen = req[d].seen
        /\ \A e \in Devices \ {d} : req'[e] = req[e]
    BY <1>4 DEF IInv, Shape
  <2>5. \A e \in Devices : \A s \in sync'[e] : s \in sync[e] \/ Known(e, s.id)'
    BY <1>4, <2>0, <2>3, UpsertedRecords DEF IInv
  <2> QED BY <1>1, <1>2, <1>4, <2>0, <2>1, <2>4, <2>5, RecordKept DEF IInv
<1> QED BY <1>3, <1>4, StoreCases

\* What the device receives is what the row says: it has had the row's content.
LEMMA InstallHad ==
  ASSUME IInv, OnRecord, NEW d \in Devices, NEW r \in rows, NEW f \in FileAt(r.tag, disk),
         Install(d, r, f.data), UNCHANGED <<rows, next>>
  PROVE  /\ \A e \in Devices : held[e] \subseteq held'[e] /\ local'[e].data \in Had(e)'
         /\ Known(d, r.id)'
<1>1. f.data = r.data
  BY DEF IInv, RowsApart, File
<1>2. /\ \E m : local' = [local EXCEPT ![d] = [data |-> f.data, mtime |-> m]]
      /\ held' = [held EXCEPT ![d] = @ \cup {f.data}]
  BY DEF Install
<1>3. \A e \in Devices : held[e] \subseteq held'[e] /\ local'[e].data \in Had(e)'
  BY <1>2 DEF OnRecord, Had, IInv, Shape
<1>4. r.id \in 0..(next - 1) /\ \A o \in rows : o.id = r.id => o = r
  BY DEF IInv, Shape, RowsApart
<1>5. r.data \in Had(d)'
  BY <1>1, <1>2 DEF Had, IInv, Shape
<1> QED BY <1>3, <1>4, <1>5 DEF Known

LEMMA DownloadRecord ==
  ASSUME IInv, OnRecord, NEW d \in Devices, Download(d) PROVE OnRecord'
<1>1. UNCHANGED <<rows, next, sync>> /\ Wanted(d) \in SUBSET rows
  BY DEF Download, Wanted, Newest
<1>2. CASE UNCHANGED <<local, held, req>>
  <2>1. \A e \in Devices : held[e] \subseteq held'[e] /\ local'[e].data \in Had(e)'
    BY <1>2 DEF OnRecord, Had
  <2> QED BY <1>1, <1>2, <2>1, RecordKept DEF IInv
<1>3. CASE \E r \in Wanted(d) : \E f \in FileAt(r.tag, disk) :
             /\ Install(d, r, f.data)
             /\ req' = [req EXCEPT ![d] = [NoReq EXCEPT !.pc = "got", !.row = r.id]]
  <2>1. PICK r \in rows : \E f \in FileAt(r.tag, disk) :
          /\ Install(d, r, f.data)
          /\ req' = [req EXCEPT ![d] = [NoReq EXCEPT !.pc = "got", !.row = r.id]]
    BY <1>1, <1>3
  <2>2. /\ \A e \in Devices : held[e] \subseteq held'[e] /\ local'[e].data \in Had(e)'
        /\ Known(d, r.id)'
    BY <1>1, <2>1, InstallHad
  <2>3. /\ req'[d].row = r.id /\ req'[d].seen = None
        /\ \A e \in Devices \ {d} : req'[e] = req[e]
    BY <2>1 DEF NoReq, IInv, Shape
  <2>5. \A e \in Devices : \A s \in sync'[e] : Known(e, s.id)'
    BY <1>1, <2>2 DEF OnRecord, Known, Had
  <2>6. \A e \in Devices : (req[e].pc = "got" => Known(e, req[e].row))'
    BY <1>1, <2>2, <2>3 DEF OnRecord, Known, Had
  <2>7. SeenBeforeReplaced'
    BY <2>2, <2>3 DEF OnRecord, SeenBeforeReplaced
  <2> QED BY <2>2, <2>5, <2>6, <2>7 DEF OnRecord
<1> QED BY <1>2, <1>3 DEF Download

LEMMA OptimisticRecord ==
  ASSUME IInv, OnRecord, "early" \notin Env, NEW d \in Devices, DownloadOptimistic(d)
  PROVE  OnRecord'
<1>1. UNCHANGED <<rows, next, req>> /\ Wanted(d) \in SUBSET rows
  BY DEF DownloadOptimistic, Wanted, Newest
<1>2. PICK r \in rows : \E f \in FileAt(r.tag, disk) :
        sync' = Upserted(d, r.id, r.at) /\ Install(d, r, f.data)
  BY <1>1 DEF DownloadOptimistic
<1>3. /\ \A e \in Devices : held[e] \subseteq held'[e] /\ local'[e].data \in Had(e)'
      /\ Known(d, r.id)'
  BY <1>1, <1>2, InstallHad
<1>4. \A e \in Devices : \A s \in sync'[e] : s \in sync[e] \/ Known(e, s.id)'
  BY <1>2, <1>3, UpsertedRecords DEF IInv
<1> QED BY <1>1, <1>3, <1>4, RecordKept DEF IInv

LEMMA ConfirmRecord ==
  ASSUME Shape, OnRecord, NEW d \in Devices, Confirm(d) PROVE OnRecord'
<1>1. /\ UNCHANGED <<rows, next, local, held>>
      /\ req[d].pc = "got" /\ req' = [req EXCEPT ![d] = NoReq]
      /\ sync' = sync \/ \E at : sync' = Upserted(d, req[d].row, at)
  BY DEF Confirm, Quit
<1>2. \A e \in Devices : held[e] \subseteq held'[e] /\ local'[e].data \in Had(e)'
  BY <1>1 DEF OnRecord, Had
<1>3. \A e \in Devices : req'[e].pc # "idle" => req'[e] = req[e]
  BY <1>1 DEF NoReq, Shape
<1>4. PICK id : id = req[d].row
  OBVIOUS
<1>5. Known(d, id)'
  BY <1>1, <1>4 DEF OnRecord, Known, Had
<1>6. \A e \in Devices : \A s \in sync'[e] : s \in sync[e] \/ Known(e, s.id)'
  BY <1>1, <1>4, <1>5, UpsertedRecords
<1> QED BY <1>1, <1>2, <1>3, <1>6, RecordKept

LEMMA NextRecord ==
  ASSUME IInv, OnRecord, "early" \notin Env, [Next]_vars PROVE OnRecord'
<1>1. Shape
  BY DEF IInv
<1>2. ASSUME UNCHANGED <<rows, next, sync, local, held, req>> PROVE OnRecord'
  BY <1>2 DEF OnRecord, Known, Had, SeenBeforeReplaced
<1>3. ASSUME NEW d \in Devices, Exchange(d) PROVE OnRecord'
  <2>1. DownloadMissing(d) => UNCHANGED <<rows, next, sync, local, held, req>>
    BY DEF DownloadMissing
  <2> QED BY <1>1, <1>2, <1>3, <2>1, CheckRecord, WriteRecord, StoreRecord, CleanRecord,
             DownloadRecord, OptimisticRecord, ConfirmRecord DEF Exchange
<1>4. ASSUME NEW d \in Devices, Negotiate(d) PROVE OnRecord'
  BY <1>2, <1>4 DEF Negotiate
<1>5. CASE UNCHANGED vars
  BY <1>2, <1>5 DEF vars
<1> QED BY <1>1, <1>3, <1>4, <1>5, PlayRecord, DeleteRecord DEF Next

\* No device uploads over a save it has not had: whatever an upload was checked against,
\* the device had, as long as no answer to an optimistic download is lost.
\* (add_save 219-237, download_save 534-541, confirm_download)
THEOREM SavesSeenBeforeReplaced ==
  ASSUME "second" \notin Env, "early" \notin Env PROVE Spec => []SeenBeforeReplaced
<1>1. Init => IInv /\ OnRecord
  BY InitInv, InitRecord
<1>2. IInv /\ OnRecord /\ [Next]_vars => (IInv /\ OnRecord)'
  BY NextInv, NextRecord
<1>3. IInv /\ OnRecord => SeenBeforeReplaced
  BY DEF OnRecord
<1> QED BY <1>1, <1>2, <1>3, PTL DEF Spec
-----------------------------------------------------------------------------
(* What autocleanup leaves. *)

\* An upload is about to delete r; the later rows that nobody is about to delete.
Fades(r) == \E d \in Devices : req[d].pc = "cleaning" /\ r.id \in req[d].doomed
Outlasting(r) == {o \in rows : o.at > r.at /\ ~Fades(o)}

\* Rows are told apart by their times, the clock is past them, and what is to be deleted
\* has been there.
Dated ==
  /\ clock \in Nat /\ mishaps \in Nat
  /\ \A r \in rows : r.at \in Nat /\ r.at =< clock
  /\ \A r, o \in rows : r.at = o.at => r = o
  /\ \A d \in Devices : req[d].pc = "cleaning" => req[d].doomed \subseteq 0..(next - 1)

\* A row that is about to go leaves as many later ones as the limit says, but for those
\* the user deleted.
Outlasted == \A r \in rows : Fades(r) => Cardinality(Outlasting(r)) + mishaps >= Limit

LEMMA InitDated == Init => Dated /\ Outlasted
BY DEF Init, Dated, Outlasted, NoReq

\* Of the rows there are, one is the latest.
LEMMA LatestRow ==
  ASSUME Dated, rows # {}
  PROVE  \E r \in rows : \A o \in rows : o.at =< r.at
<1> DEFINE ages == {clock - r.at : r \in rows}
<1>1. ages \in SUBSET Nat /\ ages # {}
  BY DEF Dated
<1>2. PICK x \in ages : \A y \in ages : x =< y
  BY <1>1, LeastExists
<1>3. PICK r \in rows : x = clock - r.at
  BY <1>2
<1>4. ASSUME NEW o \in rows PROVE o.at =< r.at
  <2>1. clock - r.at =< clock - o.at
    BY <1>2, <1>3
  <2>2. clock \in Nat /\ r.at \in Nat /\ o.at \in Nat
    BY DEF Dated
  <2> QED BY <2>1, <2>2
<1> QED BY <1>4

\* Rows go that were to go, or one the user deletes, and no more are about to.
LEMMA FewerLeft ==
  ASSUME IInv, Dated, Outlasted, rows' \in SUBSET rows, next' = next, clock' \in Nat,
         clock' >= clock,
         \A d \in Devices : req'[d].pc = "cleaning" => req'[d] = req[d],
         \/ mishaps' \in {mishaps, mishaps + 1} /\ \A r \in rows \ rows' : Fades(r)
         \/ mishaps' = mishaps + 1 /\ \E r : rows' = rows \ {r}
  PROVE  Dated' /\ Outlasted'
<1>1. Dated'
  BY DEF Dated
<1>2. \A r \in rows' : Fades(r)' => Fades(r)
  BY DEF Fades
<1>3. ASSUME NEW r \in rows', Fades(r)'
      PROVE  Cardinality(Outlasting(r)') + mishaps' >= Limit
  <2> DEFINE was == Outlasting(r)
             is  == Outlasting(r)'
  <2>1. is \in SUBSET rows' /\ was \in SUBSET rows
    BY DEF Outlasting
  <2>2. IsFiniteSet(is) /\ IsFiniteSet(was)
    BY <2>1, FS_Subset DEF IInv, Shape
  <2>3. Cardinality(was) \in Nat /\ Cardinality(is) \in Nat
    BY <2>2, FS_CardinalityType
  <2>4. Cardinality(was) + mishaps >= Limit /\ mishaps \in Nat /\ Limit \in Nat
    BY <1>2, <1>3, BoundsAssumption DEF Outlasted, Dated
  <2>5. \A o \in was : o \in rows' => o \in is
    BY <1>2 DEF Outlasting
  <2>6. CASE mishaps' \in {mishaps, mishaps + 1} /\ \A o \in rows \ rows' : Fades(o)
    <3>1. was \in SUBSET is
      BY <2>5, <2>6 DEF Outlasting
    <3>2. Cardinality(was) =< Cardinality(is)
      BY <2>2, <3>1, FS_Subset
    <3> HIDE DEF was, is
    <3>3. Cardinality(is) + mishaps' >= Limit
      BY <2>3, <2>4, <2>6, <3>2
    <3> QED BY <3>3 DEF is
  <2>7. ASSUME mishaps' = mishaps + 1, NEW o, rows' = rows \ {o}
        PROVE  Cardinality(is) + mishaps' >= Limit
    <3>1. was \ {o} \in SUBSET is
      BY <2>1, <2>5, <2>7
    <3>2. Cardinality(was \ {o}) =< Cardinality(is)
      BY <2>2, <3>1, FS_Subset
    <3>3. Cardinality(was \ {o}) >= Cardinality(was) - 1 /\ Cardinality(was \ {o}) \in Nat
      <4>1. IsFiniteSet(was \ {o})
        BY <2>2, FS_RemoveElement
      <4>2. Cardinality(was \ {o}) \in Nat
        BY <4>1, FS_CardinalityType
      <4>3. Cardinality(was \ {o}) \in {Cardinality(was), Cardinality(was) - 1}
        BY <2>2, FS_RemoveElement
      <4> HIDE DEF was
      <4> QED BY <2>3, <4>2, <4>3
    <3> HIDE DEF was, is
    <3> QED BY <2>3, <2>4, <2>7, <3>2, <3>3
  <2> QED BY <2>6, <2>7
<1> QED BY <1>1, <1>3 DEF Outlasted

\* What a stored upload adds, and what it is about to delete.
LEMMA StoreAdds ==
  ASSUME IInv, "second" \notin Env, NEW d \in Devices, Store(d)
  PROVE  /\ mishaps' = mishaps
         /\ \/ UNCHANGED <<clock, rows, next>> /\ req' = [req EXCEPT ![d] = NoReq]
            \/ /\ clock' = clock + 1 /\ next' = next + 1
               /\ rows' = rows \cup {[id |-> next, data |-> local[d].data, at |-> clock',
                                      tag |-> req[d].tag]}
               /\ \E S \in Surplus(rows') :
                    req' = [req EXCEPT ![d].pc = "cleaning", ![d].doomed = {r.id : r \in S}]
<1>1. mishaps' = mishaps
  BY DEF Store
<1>2. CASE Quit(d) /\ UNCHANGED <<clock, rows, next>>
  BY <1>1, <1>2 DEF Quit
<1>3. CASE /\ Tick
           /\ \E S \in Surplus(rows') :
                req' = [req EXCEPT ![d].pc = "cleaning", ![d].doomed = {r.id : r \in S}]
  <2>1. clock' = clock + 1
    BY <1>3 DEF Tick
  <2>2. req'[d].pc = "cleaning"
    BY <1>3 DEF IInv, Shape
  <2>3. ~Quit(d)
    BY <2>2 DEF Quit, NoReq, IInv, Shape
  <2> QED BY <1>1, <1>3, <2>1, <2>3, StoreCases
<1> QED BY <1>2, <1>3 DEF Store

\* A row is added, and nothing the limit keeps is among what its upload deletes.
LEMMA StoreDated ==
  ASSUME IInv, Dated, Outlasted, "second" \notin Env, NEW d \in Devices, Store(d)
  PROVE  Dated' /\ Outlasted'
<1>0. IInv' /\ mishaps' = mishaps /\ clock \in Nat /\ mishaps \in Nat /\ Limit \in Nat \ {0}
  BY StoreInv, StoreAdds, BoundsAssumption DEF Dated
<1>1. CASE UNCHANGED <<clock, rows, next>> /\ req' = [req EXCEPT ![d] = NoReq]
  <2>1. \A e \in Devices : req'[e].pc = "cleaning" => req'[e] = req[e]
    BY <1>1 DEF NoReq, IInv, Shape
  <2> QED BY <1>0, <1>1, <2>1, FewerLeft
<1>2. ASSUME clock' = clock + 1, next' = next + 1,
             NEW new, new.id = next, new.at = clock', rows' = rows \cup {new},
             NEW S \in Surplus(rows'), NEW ids, ids = {r.id : r \in S},
             req' = [req EXCEPT ![d].pc = "cleaning", ![d].doomed = ids]
      PROVE  Dated' /\ Outlasted'
  <2>1. PICK K \in SUBSET rows' :
          /\ S = rows' \ K
          /\ Cardinality(K) = IF Cardinality(rows') < Limit THEN Cardinality(rows') ELSE Limit
          /\ \A k \in K, o \in rows' \ K : o.at =< k.at
    BY <1>2 DEF Surplus
  <2>2. /\ IsFiniteSet(rows') /\ Cardinality(rows') \in Nat
        /\ IsFiniteSet(K) /\ Cardinality(K) \in Nat
    BY <1>0, <2>1, FS_Subset, FS_CardinalityType DEF IInv, Shape
  <2>3. \A r, o \in rows' : r.at = o.at => r = o
    BY <1>2 DEF Dated
  <2>4. \A r \in rows' : r.at \in Nat /\ r.at =< clock'
    BY <1>2 DEF Dated
  <2>5. \A k \in K, o \in S : o.at < k.at
    BY <2>1, <2>3, <2>4
  <2>6. S # {} => Cardinality(K) = Limit
    <3>1. Cardinality(K) = Cardinality(rows') => K = rows'
      BY <2>1, <2>2, FS_Subset
    <3> QED BY <2>1, <3>1
  <2>7. new \notin S
    <3> SUFFICES ASSUME new \in S PROVE FALSE
      OBVIOUS
    <3>1. Cardinality(K) # 0
      BY <1>0, <2>6
    <3>2. PICK k \in K : TRUE
      BY <2>2, <3>1, FS_EmptySet
    <3> QED BY <1>2, <2>1, <2>4, <2>5, <3>2
  <2>8. \A r \in rows' : r.id \in ids => r \in S
    <3>1. \A r, o \in rows' : r.id = o.id => r = o
      BY <1>0 DEF IInv, RowsApart
    <3> QED BY <1>2, <2>1, <3>1
  <2>9. /\ req'[d].pc = "cleaning" /\ req'[d].doomed = ids
        /\ \A e \in Devices \ {d} : req'[e] = req[e]
    BY <1>2 DEF IInv, Shape
  <2>10. \A r \in rows' : Fades(r)' => r \in S \/ (r \in rows /\ Fades(r))
    <3>1. \A e \in Devices : req[e].pc = "cleaning" => new.id \notin req[e].doomed
      BY <1>2 DEF Dated, IInv, Shape
    <3> QED BY <1>2, <2>7, <2>8, <2>9, <3>1 DEF Fades
  <2>11. Dated'
    <3>1. ids \subseteq 0..(next' - 1)
      BY <1>0, <1>2, <2>1 DEF IInv, Shape
    <3>2. 0..(next - 1) \subseteq 0..(next' - 1)
      BY <1>2 DEF IInv, Shape
    <3>3. ASSUME NEW e \in Devices, req'[e].pc = "cleaning"
          PROVE  req'[e].doomed \subseteq 0..(next' - 1)
      <4>1. CASE e = d
        BY <2>9, <3>1, <4>1
      <4>2. CASE e # d
        <5>1. req'[e] = req[e] /\ req[e].doomed \subseteq 0..(next - 1)
          BY <2>9, <3>3, <4>2 DEF Dated
        <5> QED BY <3>2, <5>1
      <4> QED BY <4>1, <4>2
    <3>4. clock' \in Nat /\ mishaps' \in Nat
      BY <1>0, <1>2
    <3> QED BY <2>3, <2>4, <3>3, <3>4 DEF Dated
  <2>12. ASSUME NEW r \in rows', NEW T, T \in SUBSET Outlasting(r)',
                Cardinality(T) + mishaps >= Limit
         PROVE  Cardinality(Outlasting(r)') + mishaps' >= Limit
    <3> DEFINE is == Outlasting(r)'
    <3>1. is \in SUBSET rows'
      BY DEF Outlasting
    <3>2. IsFiniteSet(is)
      BY <2>2, <3>1, FS_Subset
    <3>3. IsFiniteSet(T) /\ Cardinality(T) =< Cardinality(is)
      BY <2>12, <3>2, FS_Subset
    <3>4. Cardinality(T) \in Nat /\ Cardinality(is) \in Nat
      BY <3>2, <3>3, FS_CardinalityType
    <3> HIDE DEF is
    <3>5. Cardinality(is) + mishaps' >= Limit
      BY <1>0, <2>12, <3>3, <3>4
    <3> QED BY <3>5 DEF is
  <2>13. ASSUME NEW r \in S
         PROVE  \E T \in SUBSET Outlasting(r)' : Cardinality(T) + mishaps >= Limit
    <3>1. CASE \A k \in K : ~Fades(k)'
      <4>1. K \in SUBSET Outlasting(r)'
        BY <2>1, <2>5, <3>1 DEF Outlasting
      <4>2. Cardinality(K) + mishaps >= Limit
        BY <1>0, <2>2, <2>6, <2>13
      <4> QED BY <4>1, <4>2
    <3>2. ASSUME NEW k \in K, Fades(k)'
          PROVE  \E T \in SUBSET Outlasting(r)' : Cardinality(T) + mishaps >= Limit
      <4>1. k \in rows /\ Fades(k)
        BY <2>1, <2>10, <3>2
      <4>2. Cardinality(Outlasting(k)) + mishaps >= Limit
        BY <4>1 DEF Outlasted
      <4>3. ASSUME NEW o \in Outlasting(k) PROVE o \in Outlasting(r)'
        <5>1. o \in rows' /\ o.at > k.at /\ ~Fades(o)
          BY <1>2 DEF Outlasting
        <5>2. o \notin S
          BY <2>1, <2>4, <2>5, <3>2, <5>1
        <5>3. ~Fades(o)'
          BY <2>10, <5>1, <5>2
        <5>4. o.at > r.at
          BY <2>1, <2>4, <2>5, <3>2, <5>1
        <5> QED BY <5>1, <5>3, <5>4 DEF Outlasting
      <4> QED BY <4>2, <4>3
    <3> QED BY <3>1, <3>2
  <2>14. ASSUME NEW r \in rows, Fades(r)
         PROVE  \E T \in SUBSET Outlasting(r)' : Cardinality(T) + mishaps >= Limit
    <3>1. CASE \A o \in Outlasting(r) : o \notin S
      <4>1. \A o \in Outlasting(r) : o \in Outlasting(r)'
        BY <1>2, <2>10, <3>1 DEF Outlasting
      <4> QED BY <2>14, <4>1 DEF Outlasted
    <3>2. ASSUME NEW o \in Outlasting(r), o \in S
          PROVE  \E T \in SUBSET Outlasting(r)' : Cardinality(T) + mishaps >= Limit
      <4>1. PICK T \in SUBSET Outlasting(o)' : Cardinality(T) + mishaps >= Limit
        BY <2>13, <3>2
      <4>2. o.at > r.at /\ o \in rows' /\ r \in rows'
        BY <1>2 DEF Outlasting
      <4>3. \A x \in Outlasting(o)' : x \in Outlasting(r)'
        BY <2>4, <4>2 DEF Outlasting
      <4> QED BY <4>1, <4>3
    <3> QED BY <3>1, <3>2
  <2>15. ASSUME NEW r \in rows', Fades(r)'
         PROVE  Cardinality(Outlasting(r)') + mishaps' >= Limit
    <3>1. PICK T \in SUBSET Outlasting(r)' : Cardinality(T) + mishaps >= Limit
      BY <2>10, <2>13, <2>14, <2>15
    <3> QED BY <2>12, <3>1
  <2> QED BY <2>11, <2>15 DEF Outlasted
<1>3. CASE /\ clock' = clock + 1 /\ next' = next + 1
           /\ rows' = rows \cup {[id |-> next, data |-> local[d].data, at |-> clock',
                                  tag |-> req[d].tag]}
           /\ \E S \in Surplus(rows') :
                req' = [req EXCEPT ![d].pc = "cleaning", ![d].doomed = {r.id : r \in S}]
  <2> DEFINE new == [id |-> next, data |-> local[d].data, at |-> clock', tag |-> req[d].tag]
  <2>1. new.id = next /\ new.at = clock'
    OBVIOUS
  <2> HIDE DEF new
  <2>2. rows' = rows \cup {new}
    BY <1>3 DEF new
  <2>3. PICK S \in Surplus(rows') :
          req' = [req EXCEPT ![d].pc = "cleaning", ![d].doomed = {r.id : r \in S}]
    BY <1>3
  <2> QED BY <1>2, <1>3, <2>1, <2>2, <2>3
<1> QED BY <1>1, <1>3, StoreAdds

\* No other step has more rows about to go.
LEMMA NextDated ==
  ASSUME IInv, Dated, Outlasted, "second" \notin Env, [Next]_vars
  PROVE  Dated' /\ Outlasted'
<1>0. clock \in Nat /\ mishaps \in Nat
  BY DEF Dated
<1>1. Tick => clock' = clock + 1
  BY DEF Tick
<1>2. ASSUME rows' = rows, next' = next, clock' \in {clock, clock + 1},
             mishaps' \in {mishaps, mishaps + 1},
             \A d \in Devices : req'[d].pc = "cleaning" => req'[d] = req[d]
      PROVE  Dated' /\ Outlasted'
  BY <1>0, <1>2, FewerLeft
<1>3. ASSUME NEW d \in Devices, Play(d) \/ Negotiate(d)
      PROVE  Dated' /\ Outlasted'
  BY <1>1, <1>2, <1>3 DEF Play, Negotiate
<1>4. ASSUME NEW d \in Devices, NEW over, Check(d, over)
      PROVE  Dated' /\ Outlasted'
  <2>1. req' = req \/ \E tag, seen, row :
          req' = [req EXCEPT ![d] = [NoReq EXCEPT !.pc = "checked", !.tag = tag, !.over = over,
                    !.seen = seen, !.row = row]]
    <3>1. req' = req \/ \E tag \in Tags, seen \in Passed(d, over) :
            req' = [req EXCEPT ![d] = [NoReq EXCEPT !.pc = "checked", !.tag = tag, !.over = over,
                      !.seen = seen, !.row = Max({0} \cup {r.id : r \in Named(tag)})]]
      BY <1>4 DEF Check
    <3> QED BY Zenon, <3>1
  <2>2. \A e \in Devices : req'[e].pc = "cleaning" => req'[e] = req[e]
    BY <2>1 DEF NoReq, IInv, Shape
  <2>3. UNCHANGED <<rows, next, clock, mishaps>>
    BY <1>4 DEF Check
  <2> QED BY <1>2, <2>2, <2>3
<1>5. ASSUME NEW d \in Devices, Write(d)
      PROVE  Dated' /\ Outlasted'
  BY <1>2, <1>5 DEF Write, IInv, Shape
<1>6. ASSUME NEW d \in Devices,
             DownloadMissing(d) \/ DownloadOptimistic(d) \/ Download(d) \/ Confirm(d)
      PROVE  Dated' /\ Outlasted'
  <2>1. req' = req \/ \E q : req' = [req EXCEPT ![d] = q] /\ q.pc \in {"idle", "got"}
    BY <1>6 DEF DownloadMissing, DownloadOptimistic, Download, Confirm, Quit, NoReq
  <2>2. \A e \in Devices : req'[e].pc = "cleaning" => req'[e] = req[e]
    BY <2>1 DEF IInv, Shape
  <2>3. /\ UNCHANGED <<rows, next>> /\ clock' \in {clock, clock + 1}
        /\ mishaps' \in {mishaps, mishaps + 1}
    BY <1>1, <1>6 DEF DownloadMissing, DownloadOptimistic, Download, Confirm, Install, Lose
  <2> QED BY <1>2, <2>2, <2>3
<1>7. ASSUME NEW d \in Devices, Clean(d)
      PROVE  Dated' /\ Outlasted'
  <2>1. /\ rows' = rows \ {r \in rows : r.id \in req[d].doomed} /\ req[d].pc = "cleaning"
        /\ req' = [req EXCEPT ![d] = NoReq] /\ UNCHANGED <<clock, next, mishaps>>
    BY <1>7 DEF Clean, Quit
  <2>2. \A r \in rows \ rows' : Fades(r)
    BY <2>1 DEF Fades
  <2>3. \A e \in Devices : req'[e].pc = "cleaning" => req'[e] = req[e]
    BY <2>1 DEF NoReq, IInv, Shape
  <2> QED BY <1>0, <2>1, <2>2, <2>3, FewerLeft
<1>8. ASSUME NEW r \in rows, Delete(r)
      PROVE  Dated' /\ Outlasted'
  BY <1>0, <1>8, FewerLeft DEF Delete
<1>9. CASE UNCHANGED vars
  BY <1>0, <1>2, <1>9 DEF vars
<1> QED BY <1>3, <1>4, <1>5, <1>6, <1>7, <1>8, <1>9, StoreDated DEF Next, Exchange

\* The latest row stays, or one that is later still comes.
LEMMA LatestStays ==
  ASSUME IInv, Dated, Outlasted, "second" \notin Env, mishaps < Limit, Next,
         mishaps' = mishaps, rows # {}
  PROVE  \E r \in rows' : \A o \in rows : o.at =< r.at
<1>1. PICK r \in rows : \A o \in rows : o.at =< r.at
  BY LatestRow
<1>2. ~Fades(r)
  <2> SUFFICES ASSUME Fades(r) PROVE FALSE
    OBVIOUS
  <2>1. Outlasting(r) = {}
    BY <1>1 DEF Outlasting, Dated
  <2>2. Cardinality(Outlasting(r)) = 0
    BY <2>1, FS_EmptySet
  <2> QED BY <2>2, BoundsAssumption DEF Outlasted, Dated
<1>3. rows \subseteq rows' \/ \E d \in Devices : Clean(d)
  <2>1. \A o \in rows : ~Delete(o)
    BY DEF Delete, Dated
  <2>2. \A d \in Devices : Store(d) => rows \subseteq rows'
    BY StoreAdds
  <2>3. ASSUME NEW d \in Devices, Play(d) \/ Negotiate(d) \/ (\E over \in BOOLEAN : Check(d, over))
                 \/ Write(d) \/ DownloadMissing(d) \/ DownloadOptimistic(d) \/ Download(d) \/ Confirm(d)
        PROVE  rows' = rows
    BY <2>3 DEF Play, Negotiate, Check, Write, DownloadMissing, DownloadOptimistic, Download, Confirm
  <2> QED BY <2>1, <2>2, <2>3 DEF Next, Exchange
<1>4. \A d \in Devices : Clean(d) => r \in rows'
  BY <1>2 DEF Clean, Fades
<1> QED BY <1>1, <1>3, <1>4

\* Autocleanup never takes a slot's current save, however many uploads decide at once
\* what is surplus, unless the user has deleted as many saves as the limit keeps or two
\* uploads share a second.  (_cleanup, endpoints/saves.py 176-190)
THEOREM NewestSaveStays ==
  ASSUME "second" \notin Env PROVE Spec /\ [](mishaps < Limit) => NewestStays
<1> DEFINE Stay == mishaps' = mishaps /\ rows # {} =>
                     \E r \in rows' : \A o \in rows : o.at =< r.at
<1>1. Init => IInv /\ Dated /\ Outlasted
  BY InitInv, InitDated
<1>2. IInv /\ Dated /\ Outlasted /\ [Next]_vars => (IInv /\ Dated /\ Outlasted)'
  BY NextInv, NextDated
<1>3. IInv /\ Dated /\ Outlasted /\ mishaps < Limit /\ [Next]_vars => [Stay]_vars
  BY LatestStays
<1> QED BY <1>1, <1>2, <1>3, PTL DEF Spec, NewestStays
=============================================================================
