-------------------------------- MODULE MTS --------------------------------
(***************************************************************************)
(* The multi-thread scheduler of p2/mts.c: one thread per train, and the   *)
(* main thread as the dispatcher of a single main track.  All shared       *)
(* fields are read and written under threadmutex, so what a thread does    *)
(* from taking the mutex to releasing it, or to handing it back in         *)
(* pthread_cond_wait, is one action.  Loading and crossing times are       *)
(* abstracted: a train may take any time over either.                      *)
(***************************************************************************)
EXTENDS Integers, Sequences, FiniteSets

CONSTANTS
    NTrains,               \* lines of the input file
    MaxCreateFailures      \* how many pthread_create calls may fail

ASSUME TrainsAssumption == NTrains \in Nat /\ MaxCreateFailures \in Nat

Trains     == 0..(NTrains - 1)
EAST       == 0
WEST       == 1
Directions == {EAST, WEST}
LOW        == 0
HIGH       == 1
Priorities == {LOW, HIGH}
Nobody     == -1           \* last_direction before the first grant

VARIABLES
    dpc,             \* where the main thread is
    created,         \* trains pthread_create was called for: 0..created-1
    direction,       \* t->direction
    priority,        \* t->priority
    tpc,             \* where each train's thread is
    may_cross,       \* t->may_cross
    queues,          \* queues[direction * 2 + priority], the linked list as a sequence
    track_busy,
    crossed,
    last_direction,
    same_dir_count,
    passed           \* history: grants to the other direction while a direction waits

input      == <<direction, priority>>
dispatcher == <<last_direction, same_dir_count, passed>>
vars == <<dpc, created, input, tpc, may_cross, queues, track_busy, crossed, dispatcher>>

(* parse_input: the letter's case is the priority, "e" or "E" is east and  *)
(* everything else is west.                                                *)
Letters == {"e", "E", "w", "W"}
DirectionOf(c) == IF c \in {"e", "E"} THEN EAST ELSE WEST
PriorityOf(c)  == IF c \in {"E", "W"} THEN HIGH ELSE LOW

Init == /\ dpc = "creating"
        /\ created = 0
        /\ \E line \in [Trains -> Letters] :
              /\ direction = [t \in Trains |-> DirectionOf(line[t])]
              /\ priority = [t \in Trains |-> PriorityOf(line[t])]
        /\ tpc = [t \in Trains |-> "none"]
        /\ may_cross = [t \in Trains |-> FALSE]
        /\ queues = [d \in Directions |-> [p \in Priorities |-> <<>>]]
        /\ track_busy = FALSE
        /\ crossed = 0
        /\ last_direction = Nobody
        /\ same_dir_count = 0
        /\ passed = [d \in Directions |-> 0]

----------------------------------------------------------------------------
(* The queues and the choice of the next train.                            *)

Enqueue(t) ==
    queues' = [queues EXCEPT ![direction[t]][priority[t]] = Append(@, t)]

DequeueNothing(t) == UNCHANGED queues
Dequeue(t) ==
    queues' = [queues EXCEPT ![direction[t]][priority[t]] = Tail(@)]

Waiting(d) == \E p \in Priorities : queues[d][p] # <<>>

LowFirst(d) ==
    IF queues[d][LOW] # <<>> THEN Head(queues[d][LOW]) ELSE Head(queues[d][HIGH])
BestInDirection(d) ==
    IF queues[d][HIGH] # <<>> THEN Head(queues[d][HIGH]) ELSE Head(queues[d][LOW])

Opposite(d) == 1 - d

(* Of two equal candidates the one from the other side than the last, and  *)
(* the one from the west when there was none yet.                          *)
Alternate == IF last_direction = WEST THEN EAST ELSE WEST

(* Two trains in a row from one side are enough while the other waits.     *)
TurnIsDueLate == same_dir_count >= 3
TurnIsDue == same_dir_count >= 2

NextDirection ==
    LET east == priority[BestInDirection(EAST)]
        west == priority[BestInDirection(WEST)]
    IN  CASE ~Waiting(EAST) -> WEST
          [] ~Waiting(WEST) -> EAST
          [] Waiting(EAST) /\ Waiting(WEST) ->
                IF TurnIsDue \/ east = west THEN Alternate
                ELSE IF east > west THEN EAST ELSE WEST

SelectNext == BestInDirection(NextDirection)
SomebodyWaits == \E d \in Directions : Waiting(d)

----------------------------------------------------------------------------
(* The main thread.                                                        *)

CreateTrain ==
    /\ dpc = "creating"
    /\ created < NTrains
    /\ tpc' = [tpc EXCEPT ![created] = "loading"]
    /\ created' = created + 1
    /\ UNCHANGED <<dpc, input, may_cross, queues, track_busy, crossed, dispatcher>>

(* The result of pthread_create is not looked at: the train has no thread. *)
CreateTrainFails ==
    /\ dpc = "creating"
    /\ created < NTrains
    /\ Cardinality({t \in Trains : tpc[t] = "failed"}) < MaxCreateFailures
    /\ tpc' = [tpc EXCEPT ![created] = "failed"]
    /\ created' = created + 1
    /\ UNCHANGED <<dpc, input, may_cross, queues, track_busy, crossed, dispatcher>>

StartDispatching ==
    /\ dpc = "creating"
    /\ created = NTrains
    /\ dpc' = "lock"
    /\ UNCHANGED <<created, input, tpc, may_cross, queues, track_busy, crossed, dispatcher>>

(* The test of the dispatcher's loop, negated.                             *)
OneShort == crossed >= NTrains - 1
OneOver == crossed >= NTrains + 1
AllCrossed == crossed >= NTrains

(* The dispatcher has the mutex: it grants the free track to the chosen    *)
(* train.  The next round of its loop finds the track busy and waits, in   *)
(* the same critical section.                                              *)
Grant ==
    LET t == SelectNext
        d == direction[t]
    IN  /\ dpc = "lock"
        /\ ~AllCrossed
        /\ ~track_busy
        /\ SomebodyWaits
        /\ Dequeue(t)
        /\ track_busy' = TRUE
        /\ same_dir_count' = IF d = last_direction THEN same_dir_count + 1 ELSE 1
        /\ last_direction' = d
        /\ may_cross' = [may_cross EXCEPT ![t] = TRUE]
        /\ tpc' = [tpc EXCEPT ![t] = "woken"]
        /\ passed' = [passed EXCEPT ![d] = 0,
                                    ![Opposite(d)] = IF Waiting(Opposite(d)) THEN @ + 1 ELSE 0]
        /\ dpc' = "waiting"
        /\ UNCHANGED <<created, input, crossed>>

NothingToGrant == track_busy \/ ~SomebodyWaits

DispatcherWaits ==
    /\ dpc = "lock"
    /\ ~AllCrossed
    /\ NothingToGrant
    /\ dpc' = "waiting"
    /\ UNCHANGED <<created, input, tpc, may_cross, queues, track_busy, crossed, dispatcher>>

DispatcherEnds ==
    /\ dpc = "lock"
    /\ AllCrossed
    /\ dpc' = "joining"
    /\ UNCHANGED <<created, input, tpc, may_cross, queues, track_busy, crossed, dispatcher>>

(* All threads are joined; the trains and the output file go.              *)
Join ==
    /\ dpc = "joining"
    /\ \A t \in Trains : tpc[t] = "done"
    /\ dpc' = "done"
    /\ UNCHANGED <<created, input, tpc, may_cross, queues, track_busy, crossed, dispatcher>>

SpuriousDispatcherWakeup ==
    /\ dpc = "waiting"
    /\ dpc' = "lock"
    /\ UNCHANGED <<created, input, tpc, may_cross, queues, track_busy, crossed, dispatcher>>

----------------------------------------------------------------------------
(* A train.                                                                *)

(* pthread_cond_signal(&dispatcher_cond): lost unless the dispatcher waits. *)
Unsignalled == dpc' = dpc
SignalDispatcher == dpc' = IF dpc = "waiting" THEN "lock" ELSE dpc

(* The train is loaded, queues itself and waits.                           *)
ReadyToGo(t) ==
    /\ tpc[t] = "loading"
    /\ Enqueue(t)
    /\ SignalDispatcher
    /\ tpc' = [tpc EXCEPT ![t] = "queued"]
    /\ UNCHANGED <<created, input, may_cross, track_busy, crossed, dispatcher>>

(* Woken, it tests may_cross with the mutex held.                          *)
MayCrossUntested(t) == TRUE
MayCross(t) == may_cross[t]

Board(t) ==
    /\ tpc[t] = "woken"
    /\ MayCross(t)
    /\ tpc' = [tpc EXCEPT ![t] = "crossing"]
    /\ UNCHANGED <<dpc, created, input, may_cross, queues, track_busy, crossed, dispatcher>>

WaitOn(t) ==
    /\ tpc[t] = "woken"
    /\ ~MayCross(t)
    /\ tpc' = [tpc EXCEPT ![t] = "queued"]
    /\ UNCHANGED <<dpc, created, input, may_cross, queues, track_busy, crossed, dispatcher>>

OffTrack(t) ==
    /\ tpc[t] = "crossing"
    /\ track_busy' = FALSE
    /\ crossed' = crossed + 1
    /\ SignalDispatcher
    /\ tpc' = [tpc EXCEPT ![t] = "done"]
    /\ UNCHANGED <<created, input, may_cross, queues, dispatcher>>

SpuriousTrainWakeup(t) ==
    /\ tpc[t] = "queued"
    /\ tpc' = [tpc EXCEPT ![t] = "woken"]
    /\ UNCHANGED <<dpc, created, input, may_cross, queues, track_busy, crossed, dispatcher>>

----------------------------------------------------------------------------
Dispatch == Grant \/ DispatcherWaits \/ DispatcherEnds
Creation == CreateTrain \/ CreateTrainFails \/ StartDispatching
TrainStep(t) == ReadyToGo(t) \/ Board(t) \/ WaitOn(t) \/ OffTrack(t)

(* The program has ended.                                                  *)
Finished == dpc = "done" /\ UNCHANGED vars

Next == \/ Creation \/ Dispatch \/ Join \/ SpuriousDispatcherWakeup \/ Finished
        \/ \E t \in Trains : TrainStep(t) \/ SpuriousTrainWakeup(t)

Spec == Init /\ [][Next]_vars

(* Every runnable thread is scheduled, and gets the mutex, eventually.     *)
FairSpec == /\ Spec
            /\ WF_vars(Creation) /\ WF_vars(Dispatch) /\ WF_vars(Join)
            /\ \A t \in Trains : WF_vars(TrainStep(t))

----------------------------------------------------------------------------
(* What must hold of the simulation.                                       *)

MainStates  == {"creating", "lock", "waiting", "joining", "done"}
TrainStates == {"none", "failed", "loading", "queued", "woken", "crossing", "done"}

(* Types and ranges; the count of crossed trains stays within the file.    *)
TypeOK == /\ dpc \in MainStates
          /\ created \in 0..NTrains
          /\ direction \in [Trains -> Directions]
          /\ priority \in [Trains -> Priorities]
          /\ tpc \in [Trains -> TrainStates]
          /\ may_cross \in [Trains -> BOOLEAN]
          /\ queues \in [Directions -> [Priorities -> Seq(Trains)]]
          /\ track_busy \in BOOLEAN
          /\ crossed \in 0..NTrains
          /\ last_direction \in Directions \cup {Nobody}
          /\ same_dir_count \in Nat
          /\ passed \in [Directions -> Nat]

(* The trains the track was given to and that are not off it again.        *)
Granted == {t \in Trains : may_cross[t] /\ tpc[t] # "done"}

(* The track is given to one train at a time: no two are ever on it or     *)
(* told to enter it, a train on it was told to, and track_busy says so.    *)
TrackExclusive == /\ \A s, t \in Granted : s = t
                  /\ \A t \in Trains : tpc[t] = "crossing" => t \in Granted
                  /\ track_busy <=> Granted # {}

Queue(t) == queues[direction[t]][priority[t]]
IsQueued(t) == tpc[t] \in {"queued", "woken"} /\ ~may_cross[t]

(* The four lists hold, each once and in the list of its direction and     *)
(* priority, exactly the trains that are ready and were not let go.        *)
QueuesExact ==
    /\ \A t \in Trains : IsQueued(t) <=> \E i \in DOMAIN Queue(t) : Queue(t)[i] = t
    /\ \A d \in Directions, p \in Priorities :
          /\ \A i, j \in DOMAIN queues[d][p] : queues[d][p][i] = queues[d][p][j] => i = j
          /\ \A i \in DOMAIN queues[d][p] :
                direction[queues[d][p][i]] = d /\ priority[queues[d][p][i]] = p

(* The dispatcher sleeps only when a train on the track, or none ready,    *)
(* means another signal will come, and a train that was let go is awake.   *)
NoLostWakeup == /\ dpc = "waiting" => NothingToGrant /\ ~AllCrossed
                /\ \A t \in Trains : tpc[t] = "queued" => ~may_cross[t]

(* "Anti-starvation" (mts.c:331): while a side has a train waiting, the    *)
(* other side is let go at most twice before it.                           *)
BoundedOvertaking == \A d \in Directions : passed[d] <= 2

(* The main thread leaves its loop, and frees the trains, only when every  *)
(* train is across; with a train that got no thread it never does.         *)
EndsWhenAllCrossed == dpc \in {"joining", "done"} => \A t \in Trains : tpc[t] = "done"

LetGo(t) == ~may_cross[t] /\ may_cross'[t]
Ahead(s, t) ==
    \E i, j \in DOMAIN Queue(t) : i < j /\ Queue(t)[i] = s /\ Queue(t)[j] = t

(* A train goes before another of its side only by priority or by having   *)
(* been ready first; a side with the better train is passed over only when *)
(* the anti-starvation rule gives the other its turn.                      *)
PriorityRespected ==
    [][\A t \in Trains : LetGo(t) =>
          /\ \A s \in Trains : ~Ahead(s, t)
          /\ priority[t] = LOW => queues[direction[t]][HIGH] = <<>>
          /\ priority[t] = LOW /\ queues[Opposite(direction[t])][HIGH] # <<>> =>
                same_dir_count >= 2 /\ last_direction = Opposite(direction[t])]_vars

(* The single track, with the threads and the queues hidden.               *)
Track == INSTANCE SingleTrack WITH
            ready <- {t \in Trains : IsQueued(t)},
            track <- Granted,
            over  <- {t \in Trains : tpc[t] = "done"}

(* Every step of the simulation is one of the track: a train that is ready *)
(* enters it when it is free, leaves it once and never comes back.         *)
SingleTrackSafe == Track!STSafe

(* Every train that is ready gets across, with or without other trains     *)
(* failing to start.                                                       *)
ReadyTrainsCross == Track!STLive

(* If every thread could be created the program ends.                      *)
Terminates == [](\A t \in Trains : tpc[t] # "failed") => <>(dpc = "done")
============================================================================
