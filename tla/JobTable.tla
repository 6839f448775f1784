------------------------------ MODULE JobTable ------------------------------
(***************************************************************************)
(* What the shell of p1 promises about background jobs: a job that was     *)
(* started runs until it terminates, and the user is told so once, after   *)
(* it has.                                                                 *)
(***************************************************************************)
CONSTANT Jobs

VARIABLE state             \* of each job

JTInit == state = [j \in Jobs |-> "unborn"]

Step(j, from, to) == state[j] = from /\ state' = [state EXCEPT ![j] = to]

Begin(j)    == Step(j, "unborn", "running")
Announce(j) == Step(j, "terminated", "announced")

(* Jobs terminate by themselves, or several at once.                       *)
Terminate(set) ==
    /\ set # {} /\ \A j \in set : state[j] = "running"
    /\ state' = [j \in Jobs |-> IF j \in set THEN "terminated" ELSE state[j]]

JTNext == \/ \E j \in Jobs : Begin(j) \/ Announce(j)
          \/ \E set \in SUBSET Jobs : Terminate(set)

JTSafe == JTInit /\ [][JTNext]_state

(* Every termination is announced.                                         *)
JTLive == \A j \in Jobs : state[j] = "terminated" ~> state[j] = "announced"
=============================================================================
