------------------------------ MODULE FileMap ------------------------------
(***************************************************************************)
(* What the file system of p3 promises: a path that a file was copied to   *)
(* keeps that file.  Putting is atomic, and a path has at most one file.   *)
(***************************************************************************)
CONSTANTS Paths, Contents

VARIABLE files             \* of each path: the set of its one file, or {}

FMInit == files = [p \in Paths |-> {}]

PutNew(p, content) ==
    /\ files[p] = {}
    /\ files' = [files EXCEPT ![p] = {content}]

FMNext == \E p \in Paths, content \in Contents : PutNew(p, content)

FMSpec == FMInit /\ [][FMNext]_files
=============================================================================
