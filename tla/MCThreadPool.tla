---------------------------- MODULE MCThreadPool ----------------------------
(* An instance of the pool for TLC.  Three workers and three tasks let a     *)
(* worker claim two tasks, stay idle through a batch, or be overtaken; the *)
(* second batch reuses every field of the first.                           *)
EXTENDS ThreadPool
=============================================================================
