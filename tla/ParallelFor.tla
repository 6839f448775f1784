---------------------------- MODULE ParallelFor ----------------------------
(***************************************************************************)
(* What vecdb/src/pool.h promises of a pool, with no thread in sight:      *)
(* "Run count tasks -- fn(args[0]) .. fn(args[count-1]) -- across the      *)
(* pool's workers and block until all of them have finished."  A call      *)
(* starts a batch, the tasks of the batch are executed in any order and    *)
(* each one once, and the call returns when none is left.                  *)
(***************************************************************************)
EXTENDS Integers

CONSTANT MaxTasks          \* largest batch a caller ever posts

VARIABLES
    phase,                 \* "idle", or "busy" inside a call of pool_run
    todo                   \* tasks of the current batch not executed yet

pfvars == <<phase, todo>>

PFInit == phase = "idle" /\ todo = {}

Start == /\ phase = "idle"
         /\ phase' = "busy"
         /\ \E n \in 1..MaxTasks : todo' = 0..(n - 1)

Execute(i) == /\ i \in todo
              /\ todo' = todo \ {i}
              /\ UNCHANGED phase

Return == /\ phase = "busy"
          /\ todo = {}
          /\ phase' = "idle"
          /\ UNCHANGED todo

PFNext == Start \/ Return \/ \E i \in 0..(MaxTasks - 1) : Execute(i)

PFSafe == PFInit /\ [][PFNext]_pfvars

(* A batch that was started is worked off and the call returns.  Nothing  *)
(* obliges a caller to start one.                                          *)
PFSpec == /\ PFSafe
          /\ WF_pfvars(Return)
          /\ \A i \in 0..(MaxTasks - 1) : WF_pfvars(Execute(i))
============================================================================
