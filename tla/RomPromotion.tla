---------------------------- MODULE RomPromotion ----------------------------
(***************************************************************************)
(* Turning a game that is one file into a folder with that file in it.     *)
(* Uploads to the same game each ask for it, in one backend process one    *)
(* at a time, in two processes at once.  A step that fails is undone.      *)
(*   handler/rom_conversion.py, handler/filesystem/base_handler.py         *)
(* "name" is the file's entry in the platform's folder, "folder" that of   *)
(* the new folder, the same entry if the file has no extension; "tmp" is   *)
(* where such a file waits while the folder is made.                       *)
(***************************************************************************)
EXTENDS Integers, FiniteSets

CONSTANTS
  Requests,
  Situations,   \* the situations to look at, see Situation
  MaxFailures   \* bounds the steps that fail and the crashes

(* bare: the file has no extension; two: the requests come to different processes;
   fails: a step may fail or the process may end; shared: somebody else may put a game
   into a folder of that name. *)
Situation == [bare : BOOLEAN, two : BOOLEAN, fails : BOOLEAN, shared : BOOLEAN]

ASSUME RequestsAssumption   == IsFiniteSet(Requests)
ASSUME SituationsAssumption == Situations \subseteq Situation /\ MaxFailures \in Nat

VARIABLES
  now,       \* the situation
  fs,        \* the entries: name, folder and tmp
  db,        \* what the row says: "file" or "folder"
  pc,        \* each request's step
  moved,     \* the requests that moved the file
  stranger,  \* somebody else's game was put into the folder
  failures

promotionVars == <<now, fs, db, pc, moved, stranger, failures>>

\* An entry is a file, or a folder and what is in it: the file under its own name or
\* that of the staged one, a folder of that name with the file in it, another's game.
Absent    == [kind |-> "none", in |-> {}]
File      == [kind |-> "file", in |-> {}]
Dir(in)   == [kind |-> "dir",  in |-> in]
Insides   == {"rom", "nested", "tmp", "other"}
Entry     == {Absent, File} \cup {Dir(in) : in \in SUBSET Insides}

Folder == IF now.bare THEN "name" ELSE "folder"
Steps  == {"idle", "stage", "make", "move", "convert", "undo", "look", "remove",
           "return", "failed", "done", "gone"}

PromotionTypeOK ==
  /\ now \in Situations
  /\ fs \in [{"name", "folder", "tmp"} -> Entry]
  /\ db \in {"file", "folder"}
  /\ pc \in [Requests -> Steps] /\ moved \subseteq Requests
  /\ stranger \in BOOLEAN /\ failures \in 0..MaxFailures

PromotionInit ==
  /\ now \in Situations
  /\ fs = [name |-> File, folder |-> Absent, tmp |-> Absent]
  /\ db = "file"
  /\ pc = [q \in Requests |-> "idle"] /\ moved = {}
  /\ stranger = FALSE /\ failures = 0

-----------------------------------------------------------------------------
(* The file system: what an operation leaves, nothing if it raises. *)

InFolder == fs[Folder].in
IsFolder == fs[Folder].kind = "dir"

\* Into the folder, under the file's own name.
MoveIn(src) ==
  LET what == IF fs[src].kind = "file" THEN "rom" ELSE "nested"
  IN IF fs[src].kind = "none" \/ fs[Folder].kind = "file" THEN {}
     ELSE {[fs EXCEPT ![src] = Absent, ![Folder] = Dir(@.in \cup {what})]}

\* Out of the folder, to a free entry.
MoveOut(dst) ==
  LET what == IF "rom" \in InFolder THEN File ELSE Dir({"rom"})
  IN IF InFolder \cap {"rom", "nested"} = {} \/ fs[dst].kind # "none" THEN {}
     ELSE {[fs EXCEPT ![Folder] = Dir(@.in \ {"rom", "nested"}), ![dst] = what]}

\* From one entry to another, into it if that is a folder.
MoveTo(src, dst) ==
  IF fs[src].kind = "none" \/ fs[dst].kind = "file" THEN {}
  ELSE IF fs[dst].kind = "none" THEN {[fs EXCEPT ![src] = Absent, ![dst] = fs[src]]}
  ELSE {[fs EXCEPT ![src] = Absent, ![dst] = Dir(@.in \cup {"tmp"})]}

MakeFolder ==
  CASE fs[Folder].kind = "none" -> {[fs EXCEPT ![Folder] = Dir({})]}
    [] fs[Folder].kind = "dir"  -> {fs}
    [] OTHER -> {}

Goes(q, step) == pc' = [pc EXCEPT ![q] = step]

Failing == now.fails /\ failures < MaxFailures /\ failures' = failures + 1

\* On to the next step with what the operation leaves, elsewhere if it raises or fails.
Try(q, results, next, otherwise) ==
  \/ \E f \in results : fs' = f /\ Goes(q, next) /\ UNCHANGED failures
  \/ results = {} /\ Goes(q, otherwise) /\ UNCHANGED <<fs, failures>>
  \/ Failing /\ Goes(q, otherwise) /\ UNCHANGED fs

-----------------------------------------------------------------------------
(* _promote *)

Working(q) == pc[q] \notin {"idle", "failed", "done", "gone"}

\* One process promotes one game at a time.
Enter(q) ==
  /\ pc[q] = "idle"
  /\ now.two \/ \A p \in Requests : ~Working(p)
  /\ Goes(q, CASE db = "folder" -> "done"
               [] db = "file" /\ (IF now.bare THEN IsFolder ELSE fs[Folder].kind # "none") -> "failed"
               [] OTHER -> IF now.bare THEN "stage" ELSE "make")
  /\ UNCHANGED <<now, fs, db, moved, stranger, failures>>

Stage(q) ==
  /\ pc[q] = "stage"
  /\ Try(q, MoveTo("name", "tmp"), "make", "undo")
  /\ moved' = IF pc'[q] = "make" THEN moved \cup {q} ELSE moved
  /\ UNCHANGED <<now, db, stranger>>

Make(q) ==
  /\ pc[q] = "make"
  /\ Try(q, MakeFolder, "move", "undo")
  /\ UNCHANGED <<now, db, moved, stranger>>

Move(q) ==
  /\ pc[q] = "move"
  /\ Try(q, MoveIn(IF now.bare THEN "tmp" ELSE "name"), "convert", "undo")
  /\ moved' = IF pc'[q] = "convert" THEN moved \cup {q} ELSE moved
  /\ UNCHANGED <<now, db, stranger>>

\* convert_rom_to_folder
Convert(q) ==
  /\ pc[q] = "convert"
  /\ \/ Goes(q, "done") /\ db' = "folder" /\ UNCHANGED failures
     \/ Failing /\ Goes(q, "undo") /\ UNCHANGED db
  /\ UNCHANGED <<now, fs, moved, stranger>>

-----------------------------------------------------------------------------
(* _restore: only what this request moved goes back, and only an empty folder goes. *)

IsMoved(q) == q \in moved
InFinal    == InFolder \cap {"rom", "nested"} # {}
Dropped(q) == IF now.bare /\ q \in moved THEN "return" ELSE "failed"

\* Mutant: a file without extension goes back before the folder is dropped.
UndoInOrder(q) ==
  /\ pc[q] = "undo"
  /\ LET then == IF now.bare THEN "return" ELSE "look"
     IN IF IsMoved(q) /\ InFinal
        THEN Try(q, MoveOut(IF now.bare THEN "tmp" ELSE "name"), then, "failed") /\ UNCHANGED moved
        ELSE Goes(q, then) /\ UNCHANGED <<fs, moved, failures>>
  /\ UNCHANGED <<now, db, stranger>>

Undo(q) ==
  /\ pc[q] = "undo"
  /\ IF IsMoved(q) /\ InFinal
     THEN Try(q, MoveOut(IF now.bare THEN "tmp" ELSE "name"), "look", "failed") /\ UNCHANGED moved
     ELSE /\ Goes(q, "look")
          /\ moved' = IF fs["tmp"].kind = "none" THEN moved \ {q} ELSE moved
          /\ UNCHANGED <<fs, failures>>
  /\ UNCHANGED <<now, db, stranger>>

\* Mutant: the folder is dropped whatever is in it.
LookNot(q) ==
  /\ pc[q] = "look"
  /\ Goes(q, IF IsFolder THEN "remove" ELSE Dropped(q))
  /\ UNCHANGED <<now, fs, db, moved, stranger, failures>>

Look(q) ==
  /\ pc[q] = "look"
  /\ Goes(q, IF IsFolder /\ InFolder = {} THEN "remove" ELSE Dropped(q))
  /\ UNCHANGED <<now, fs, db, moved, stranger, failures>>

\* remove_directory, with all that is in it by now.
Remove(q) ==
  /\ pc[q] = "remove"
  /\ Try(q, IF IsFolder THEN {[fs EXCEPT ![Folder] = Absent]} ELSE {}, Dropped(q), "failed")
  /\ UNCHANGED <<now, db, moved, stranger>>

Return(q) ==
  /\ pc[q] = "return"
  /\ Try(q, MoveTo("tmp", "name"), "failed", "failed")
  /\ UNCHANGED <<now, db, moved, stranger>>

-----------------------------------------------------------------------------

\* The process ends.
Die(q) ==
  /\ Working(q) /\ Failing
  /\ Goes(q, "gone")
  /\ UNCHANGED <<now, fs, db, moved, stranger>>

\* Somebody else's game of that name is uploaded or copied into the library.
Intrude ==
  /\ now.shared /\ ~stranger /\ fs[Folder].kind # "file"
  /\ now.bare => IsFolder
  /\ fs' = [fs EXCEPT ![Folder] = Dir(@.in \cup {"other"})]
  /\ stranger' = TRUE
  /\ UNCHANGED <<now, db, pc, moved, failures>>

Promote(q) ==
  \/ Enter(q) \/ Stage(q) \/ Make(q) \/ Move(q) \/ Convert(q)
  \/ Undo(q) \/ Look(q) \/ Remove(q) \/ Return(q)

PromotionNext == Intrude \/ \E q \in Requests : Promote(q) \/ Die(q)

PromotionSpec == PromotionInit /\ [][PromotionNext]_promotionVars

-----------------------------------------------------------------------------
(* Properties. *)

\* The game's file is somewhere, and so is the other game: nothing is removed along with
\* a folder ("a folder with anything left in it holds someone else's ROM",
\* rom_conversion.py 46-47).
Holds(e) == e.kind = "file" \/ e.in \cap {"rom", "nested", "tmp"} # {}
NothingLost ==
  /\ \E e \in {"name", "folder", "tmp"} : Holds(fs[e])
  /\ stranger => \E e \in {"name", "folder", "tmp"} : "other" \in fs[e].in

\* When no request is at work and none was cut short, the row says where the file is: a
\* promotion is done or undone (rom_conversion.py 55-92).
RowMatchesDisk ==
  (\A q \in Requests : pc[q] \in {"idle", "failed", "done"}) =>
    IF db = "folder" THEN "rom" \in InFolder /\ fs["tmp"] = Absent
    ELSE fs["name"] = File /\ fs["tmp"] = Absent /\ (IsFolder => InFolder = {"other"})
=============================================================================
