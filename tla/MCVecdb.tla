------------------------------ MODULE MCVecdb ------------------------------
(* Instances of the store for TLC.  Three records make a capacity grow     *)
(* twice from FirstCap = 1, and leave a record on either side of the one   *)
(* that fails; three faults let a retry fail as well.                     *)
EXTENDS Vecdb
=============================================================================
