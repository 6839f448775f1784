---------------------------- MODULE SingleTrack ----------------------------
(***************************************************************************)
(* What the train simulation of p2 has to be: trains become ready in any   *)
(* order, cross a single main track one at a time, and every train that    *)
(* became ready gets across.  Nothing is said about who goes first.        *)
(***************************************************************************)
CONSTANT Trains

VARIABLES
    ready,                 \* trains waiting for the track
    track,                 \* the trains on the track: never two
    over                   \* trains that have crossed

stvars == <<ready, track, over>>

STInit == ready = {} /\ track = {} /\ over = {}

Ready(t) == /\ t \notin ready \cup track \cup over
            /\ ready' = ready \cup {t}
            /\ UNCHANGED <<track, over>>

Enter(t) == /\ t \in ready
            /\ track = {}
            /\ ready' = ready \ {t}
            /\ track' = {t}
            /\ UNCHANGED over

LeaveTrack(t) == /\ track = {t}
                 /\ track' = {}
                 /\ over' = over \cup {t}
                 /\ UNCHANGED ready

STNext == \E t \in Trains : Ready(t) \/ Enter(t) \/ LeaveTrack(t)

STSafe == STInit /\ [][STNext]_stvars

(* No train is left waiting.                                               *)
STLive == \A t \in Trains : (t \in ready) ~> (t \in over)
============================================================================
