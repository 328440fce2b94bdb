---------------------------- MODULE LibraryPaths ----------------------------
(***************************************************************************)
(* What chunked uploads promise about the paths of the library, however    *)
(* often a chunk or a completion is sent and whichever worker dies: an     *)
(* upload gets at most one go at its path, and only while nothing stands   *)
(* there; it holds the path with an empty file, which it alone replaces,   *)
(* by its content at full length, or takes away; content stays.            *)
(***************************************************************************)
CONSTANTS Uploads, Target, None

VARIABLES content,  \* path -> None, or whose file stands there and what is in it
          entitled  \* the uploads that may still get their path

pathVars == <<content, entitled>>

Held(u) == [by |-> u, data |-> "empty"]

PathsInit ==
  /\ content = [p \in {Target[u] : u \in Uploads} |-> None]
  /\ entitled = Uploads

GiveUp(u) ==
  /\ u \in entitled
  /\ entitled' = entitled \ {u}
  /\ UNCHANGED content

Reserve(u) ==
  /\ u \in entitled /\ content[Target[u]] = None
  /\ entitled' = entitled \ {u}
  /\ content' = [content EXCEPT ![Target[u]] = Held(u)]

\* "holed" is of the right length.
Publish(u) ==
  /\ content[Target[u]] = Held(u)
  /\ \E data \in {"holed", "whole"} :
       content' = [content EXCEPT ![Target[u]] = [by |-> u, data |-> data]]
  /\ UNCHANGED entitled

Withdraw(u) ==
  /\ content[Target[u]] = Held(u)
  /\ content' = [content EXCEPT ![Target[u]] = None]
  /\ UNCHANGED entitled

PathsNext == \E u \in Uploads : GiveUp(u) \/ Reserve(u) \/ Publish(u) \/ Withdraw(u)

PathsSpec == PathsInit /\ [][PathsNext]_pathVars
=============================================================================
