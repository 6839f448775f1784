----------------------------- MODULE MTSProofs -----------------------------
(***************************************************************************)
(* The train simulation's safety, for any number of trains and any input   *)
(* file.  That the track is exclusive rests on the queues: the dispatcher  *)
(* may let a queued train go only because a queued train was never let go  *)
(* before, so QueuesExact is part of the invariant of everything else.     *)
(***************************************************************************)
EXTENDS MTS, TLAPS, FiniteSetTheorems, SequenceTheorems

Crossed == {t \in Trains : tpc[t] = "done"}

(* passed counts what same_dir_count counts, from where a side waits.      *)
Overtaking ==
    \A d \in Directions :
       /\ passed[d] <= 2
       /\ passed[d] > 0 => last_direction = Opposite(d) /\ passed[d] <= same_dir_count
       /\ last_direction = Nobody => same_dir_count = 0

(* crossed counts the trains that are across.                              *)
CrossedCount == crossed = Cardinality(Crossed)

IInv == /\ TypeOK
        /\ TrackExclusive
        /\ QueuesExact
        /\ NoLostWakeup
        /\ Overtaking
        /\ CrossedCount
        /\ dpc \in {"joining", "done"} => AllCrossed
        /\ \A t \in Trains : tpc[t] = "none" <=> t >= created
        /\ \A t \in Trains : tpc[t] \in {"none", "failed", "loading"} => ~may_cross[t]
        /\ \A t \in Trains : tpc[t] = "done" => may_cross[t]

----------------------------------------------------------------------------
(* Taking the head off a list.                                             *)
LEMMA TailFacts ==
    ASSUME NEW S, NEW q \in Seq(S), q # <<>>
    PROVE  /\ Len(q) \in Nat \ {0}
           /\ Head(q) = q[1] /\ Head(q) \in S
           /\ Tail(q) \in Seq(S) /\ Len(Tail(q)) = Len(q) - 1
           /\ DOMAIN q = 1..Len(q) /\ DOMAIN Tail(q) = 1..(Len(q) - 1)
           /\ \A i \in 1..(Len(q) - 1) : Tail(q)[i] = q[i + 1]
<1>1. Len(q) \in Nat \ {0}
  BY EmptySeq
<1>2. Tail(q) \in Seq(S) /\ Len(Tail(q)) = Len(q) - 1
  BY <1>1
<1> QED
  BY <1>1, <1>2

(* Adding to the end of a list.                                            *)
LEMMA AppendFacts ==
    ASSUME NEW S, NEW q \in Seq(S), NEW e \in S
    PROVE  /\ Len(q) \in Nat /\ DOMAIN q = 1..Len(q)
           /\ Append(q, e) \in Seq(S) /\ DOMAIN Append(q, e) = 1..(Len(q) + 1)
           /\ Append(q, e)[Len(q) + 1] = e
           /\ \A i \in 1..Len(q) : Append(q, e)[i] = q[i]
OBVIOUS

LEMMA TrainsFinite == IsFiniteSet(Trains) /\ Cardinality(Trains) = NTrains
<1>1. NTrains - 1 - 0 + 1 = NTrains
  BY TrainsAssumption
<1> QED
  BY <1>1, FS_Interval, TrainsAssumption DEF Trains

LEMMA CrossedFinite ==
    /\ IsFiniteSet(Crossed)
    /\ Cardinality(Crossed) \in 0..NTrains
    /\ Cardinality(Crossed) = NTrains => Crossed = Trains
<1>1. Crossed \subseteq Trains
  BY DEF Crossed
<1> QED
  BY <1>1, TrainsFinite, FS_Subset, FS_CardinalityType

(* The chosen train is the first of its own list.                          *)
LEMMA SelectNextHeadsQueue ==
    ASSUME TypeOK, QueuesExact, SomebodyWaits
    PROVE  /\ SelectNext \in Trains
           /\ Queue(SelectNext) # <<>>
           /\ SelectNext = Head(Queue(SelectNext))
           /\ NextDirection \in Directions
           /\ direction[SelectNext] = NextDirection
           /\ Waiting(NextDirection)
<1>1. NextDirection \in Directions /\ Waiting(NextDirection)
  BY DEF NextDirection, SomebodyWaits, Directions, Alternate, Waiting, EAST, WEST
<1>2. PICK p \in Priorities :
         /\ queues[NextDirection][p] # <<>>
         /\ SelectNext = Head(queues[NextDirection][p])
  BY <1>1 DEF Waiting, SelectNext, BestInDirection, Priorities, LOW, HIGH
<1> DEFINE q == queues[NextDirection][p]
<1>3. q \in Seq(Trains)
  BY <1>1 DEF TypeOK
<1>4. SelectNext = q[1] /\ 1 \in DOMAIN q /\ SelectNext \in Trains
  BY <1>2, <1>3, TailFacts
<1>5. direction[SelectNext] = NextDirection /\ priority[SelectNext] = p
  BY <1>1, <1>4 DEF QueuesExact
<1> QED
  BY <1>1, <1>2, <1>4, <1>5 DEF Queue

----------------------------------------------------------------------------
LEMMA InitIInv == Init => IInv
<1> SUFFICES ASSUME Init PROVE IInv
  OBVIOUS
<1>1. Crossed = {}
  BY DEF Init, Crossed
<1>2. CrossedCount
  BY <1>1, FS_EmptySet DEF Init, CrossedCount
<1>3. TypeOK
  <2>1. PICK line \in [Trains -> Letters] :
          /\ direction = [t \in Trains |-> DirectionOf(line[t])]
          /\ priority = [t \in Trains |-> PriorityOf(line[t])]
    BY DEF Init
  <2>2. direction \in [Trains -> Directions] /\ priority \in [Trains -> Priorities]
    BY <2>1 DEF DirectionOf, PriorityOf, Directions, Priorities
  <2>3. queues \in [Directions -> [Priorities -> Seq(Trains)]]
    BY DEF Init
  <2>4. tpc \in [Trains -> TrainStates] /\ dpc \in MainStates
    BY DEF Init, TrainStates, MainStates
  <2>5. /\ created \in 0..NTrains /\ crossed \in 0..NTrains
        /\ last_direction \in Directions \cup {Nobody} /\ same_dir_count \in Nat
    BY TrainsAssumption DEF Init
  <2>6. passed \in [Directions -> Nat] /\ may_cross \in [Trains -> BOOLEAN] /\ track_busy \in BOOLEAN
    BY DEF Init
  <2> QED
    BY <2>2, <2>3, <2>4, <2>5, <2>6 DEF TypeOK
<1>4. TrackExclusive /\ NoLostWakeup
  BY DEF Init, TrackExclusive, Granted, NoLostWakeup
<1>5. QueuesExact
  <2>1. \A d \in Directions, p \in Priorities : queues[d][p] = <<>>
    BY DEF Init
  <2>2. \A t \in Trains : Queue(t) = <<>> /\ ~IsQueued(t)
    BY <1>3, <2>1 DEF Init, Queue, IsQueued, TypeOK
  <2> QED
    BY <2>1, <2>2 DEF QueuesExact
<1>6. Overtaking
  BY DEF Init, Overtaking
<1> QED
  BY <1>2, <1>3, <1>4, <1>5, <1>6 DEF Init, IInv, Trains

(* A step that changes no list, and not who is in one, keeps the lists.    *)
LEMMA QueuesKept ==
    ASSUME QueuesExact, UNCHANGED <<queues, input>>,
           \A t \in Trains : IsQueued(t)' <=> IsQueued(t)
    PROVE  QueuesExact'
BY DEF QueuesExact, Queue, input

LEMMA CrossedKept ==
    ASSUME CrossedCount, crossed' = crossed,
           \A t \in Trains : tpc'[t] = "done" <=> tpc[t] = "done"
    PROVE  CrossedCount'
<1>1. Crossed' = Crossed
  BY DEF Crossed, Trains
<1> QED
  BY <1>1 DEF CrossedCount

LEMMA CreationStep ==
    ASSUME IInv, Creation
    PROVE  IInv'
<1>1. /\ dpc = "creating" /\ dpc' \in {"creating", "lock"}
      /\ UNCHANGED <<input, may_cross, queues, track_busy, crossed, dispatcher>>
  BY DEF Creation, CreateTrain, CreateTrainFails, StartDispatching
<1>2. \A t \in Trains : tpc'[t] # tpc[t] =>
         t = created /\ tpc[t] = "none" /\ tpc'[t] \in {"loading", "failed"} /\ ~may_cross[t]
  BY DEF Creation, CreateTrain, CreateTrainFails, StartDispatching, IInv, TypeOK
<1>3. TypeOK'
  <2>1. tpc' \in [Trains -> TrainStates]
    BY DEF Creation, CreateTrain, CreateTrainFails, StartDispatching, IInv, TypeOK, TrainStates
  <2>2. created' \in 0..NTrains
    BY TrainsAssumption
    DEF Creation, CreateTrain, CreateTrainFails, StartDispatching, IInv, TypeOK
  <2> QED
    BY <1>1, <2>1, <2>2 DEF IInv, TypeOK, MainStates, input, dispatcher
<1>4. TrackExclusive'
  BY <1>1, <1>2 DEF IInv, TrackExclusive, Granted
<1>5. QueuesExact'
  BY <1>1, <1>2, QueuesKept DEF IInv, IsQueued
<1>6. NoLostWakeup' /\ Overtaking'
  BY <1>1, <1>2 DEF IInv, NoLostWakeup, Overtaking, dispatcher
<1>7. CrossedCount'
  BY <1>1, <1>2, CrossedKept DEF IInv
<1>8. \A t \in Trains : tpc'[t] = "none" <=> t >= created'
  <2>1. CASE StartDispatching
    BY <2>1 DEF StartDispatching, IInv
  <2>2. CASE CreateTrain \/ CreateTrainFails
    <3>1. created' = created + 1 /\ created \in Nat
      BY <2>2 DEF CreateTrain, CreateTrainFails, IInv, TypeOK
    <3>2. \A t \in Trains : t = created => tpc'[t] # "none"
      BY <2>2 DEF CreateTrain, CreateTrainFails, IInv, TypeOK
    <3>3. \A t \in Trains : t # created => tpc'[t] = tpc[t]
      BY <1>2
    <3> QED
      BY <3>1, <3>2, <3>3 DEF IInv, Trains
  <2> QED
    BY <2>1, <2>2 DEF Creation
<1> QED
  BY <1>1, <1>2, <1>3, <1>4, <1>5, <1>6, <1>7, <1>8 DEF IInv

(* Steps of the main thread alone: it sleeps, wakes or ends.               *)
LEMMA MainStep ==
    ASSUME IInv, DispatcherWaits \/ DispatcherEnds \/ Join \/ SpuriousDispatcherWakeup
    PROVE  IInv'
<1>1. /\ UNCHANGED <<created, input, tpc, may_cross, queues, track_busy, crossed, dispatcher>>
      /\ dpc' \in {"lock", "waiting", "joining", "done"}
      /\ dpc' = "waiting" => NothingToGrant /\ ~AllCrossed
      /\ dpc' \in {"joining", "done"} => AllCrossed
  BY DEF DispatcherWaits, DispatcherEnds, Join, SpuriousDispatcherWakeup, IInv
<1>2. TypeOK'
  BY <1>1 DEF IInv, TypeOK, MainStates, input, dispatcher
<1>3. TrackExclusive' /\ Overtaking'
  BY <1>1 DEF IInv, TrackExclusive, Granted, Overtaking, dispatcher
<1>4. QueuesExact'
  BY <1>1, QueuesKept DEF IInv, IsQueued
<1>5. NoLostWakeup'
  BY <1>1 DEF IInv, NoLostWakeup, NothingToGrant, SomebodyWaits, Waiting, AllCrossed
<1>6. CrossedCount'
  BY <1>1, CrossedKept DEF IInv
<1> QED
  BY <1>1, <1>2, <1>3, <1>4, <1>5, <1>6 DEF IInv, AllCrossed

(* Steps of one train that waits or boards.                                *)
LEMMA WaitingTrainStep ==
    ASSUME IInv, NEW t \in Trains, Board(t) \/ WaitOn(t) \/ SpuriousTrainWakeup(t)
    PROVE  IInv'
<1>1. /\ UNCHANGED <<dpc, created, input, may_cross, queues, track_busy, crossed, dispatcher>>
      /\ tpc[t] \in {"queued", "woken"}
      /\ \/ tpc'[t] = "crossing" /\ may_cross[t]
         \/ tpc'[t] = "queued" /\ ~may_cross[t]
         \/ tpc'[t] = "woken" /\ ~may_cross[t]
      /\ tpc' = [tpc EXCEPT ![t] = tpc'[t]]
  BY DEF Board, WaitOn, SpuriousTrainWakeup, MayCross, IInv, TypeOK, NoLostWakeup
<1>2. TypeOK'
  <2>1. tpc' \in [Trains -> TrainStates]
    BY <1>1 DEF IInv, TypeOK, TrainStates
  <2> QED
    BY <1>1, <2>1 DEF IInv, TypeOK, input, dispatcher
<1>3. TrackExclusive' /\ Overtaking'
  <2>1. Granted' = Granted
    BY <1>1 DEF IInv, TypeOK, Granted, Trains
  <2>2. \A s \in Trains : tpc'[s] = "crossing" => s \in Granted
    BY <1>1 DEF IInv, TypeOK, TrackExclusive, Granted
  <2> QED
    BY <1>1, <2>1, <2>2 DEF IInv, TrackExclusive, Overtaking, dispatcher
<1>4. QueuesExact'
  <2>1. \A s \in Trains : IsQueued(s)' <=> IsQueued(s)
    BY <1>1 DEF IInv, TypeOK, IsQueued
  <2> QED
    BY <1>1, <2>1, QueuesKept DEF IInv
<1>5. NoLostWakeup'
  BY <1>1 DEF IInv, TypeOK, NoLostWakeup, NothingToGrant, SomebodyWaits, Waiting, AllCrossed
<1>6. CrossedCount'
  <2>1. \A s \in Trains : tpc'[s] = "done" <=> tpc[s] = "done"
    BY <1>1 DEF IInv, TypeOK
  <2> QED
    BY <1>1, <2>1, CrossedKept DEF IInv
<1> QED
  BY <1>1, <1>2, <1>3, <1>4, <1>5, <1>6 DEF IInv, TypeOK, AllCrossed

(* A train that finished loading joins the end of its list.                *)
LEMMA ReadyToGoStep ==
    ASSUME IInv, NEW t \in Trains, ReadyToGo(t)
    PROVE  IInv'
<1> DEFINE d == direction[t]
           p == priority[t]
<1>1. /\ tpc[t] = "loading" /\ ~may_cross[t] /\ dpc' = IF dpc = "waiting" THEN "lock" ELSE dpc
      /\ tpc' = [tpc EXCEPT ![t] = "queued"]
      /\ UNCHANGED <<created, input, may_cross, track_busy, crossed, dispatcher>>
      /\ d \in Directions /\ p \in Priorities
  BY DEF ReadyToGo, SignalDispatcher, IInv, TypeOK
<1>2. /\ queues'[d][p] = Append(queues[d][p], t)
      /\ \A e \in Directions, r \in Priorities :
            e # d \/ r # p => queues'[e][r] = queues[e][r]
      /\ queues' \in [Directions -> [Priorities -> Seq(Trains)]]
  BY <1>1 DEF ReadyToGo, Enqueue, IInv, TypeOK
<1>3. TypeOK'
  <2>1. tpc' \in [Trains -> TrainStates] /\ dpc' \in MainStates
    BY <1>1 DEF IInv, TypeOK, TrainStates, MainStates
  <2> QED
    BY <1>1, <1>2, <2>1 DEF IInv, TypeOK, input, dispatcher
<1>4. TrackExclusive' /\ Overtaking'
  BY <1>1 DEF IInv, TypeOK, TrackExclusive, Granted, Overtaking, dispatcher
<1>5. QueuesExact'
  <2>1. ~IsQueued(t) /\ IsQueued(t)' /\ \A s \in Trains \ {t} : IsQueued(s)' <=> IsQueued(s)
    BY <1>1 DEF IInv, TypeOK, IsQueued
  <2>2. /\ queues[d][p] \in Seq(Trains) /\ Len(queues[d][p]) \in Nat
        /\ DOMAIN queues'[d][p] = 1..(Len(queues[d][p]) + 1)
        /\ queues'[d][p][Len(queues[d][p]) + 1] = t
        /\ \A i \in 1..Len(queues[d][p]) : queues'[d][p][i] = queues[d][p][i]
    <3>1. queues[d][p] \in Seq(Trains)
      BY <1>1 DEF IInv, TypeOK
    <3> QED
      BY <1>2, <3>1, AppendFacts
  <2>3. \A i \in DOMAIN queues[d][p] : queues[d][p][i] # t
    BY <2>1 DEF IInv, QueuesExact, Queue
  <2>4. \A s \in Trains : IsQueued(s)' <=> \E i \in DOMAIN Queue(s)' : Queue(s)'[i] = s
    <3> SUFFICES ASSUME NEW s \in Trains
                 PROVE  IsQueued(s)' <=> \E i \in DOMAIN Queue(s)' : Queue(s)'[i] = s
      OBVIOUS
    <3>0. direction[s] \in Directions /\ priority[s] \in Priorities
          /\ direction'[s] = direction[s] /\ priority'[s] = priority[s]
      BY <1>1 DEF IInv, TypeOK, input
    <3>1. CASE direction[s] # d \/ priority[s] # p
      <4>1. Queue(s)' = Queue(s) /\ s # t
        BY <1>2, <3>0, <3>1 DEF Queue
      <4> QED
        BY <2>1, <4>1 DEF IInv, QueuesExact
    <3>2. CASE direction[s] = d /\ priority[s] = p
      <4>1. Queue(s) = queues[d][p] /\ Queue(s)' = queues'[d][p]
        BY <3>0, <3>2 DEF Queue
      <4>2. CASE s = t
        BY <2>1, <2>2, <4>1, <4>2
      <4>3. CASE s # t
        <5>1. (\E i \in DOMAIN queues'[d][p] : queues'[d][p][i] = s)
              <=> (\E i \in DOMAIN queues[d][p] : queues[d][p][i] = s)
          <6>1. DOMAIN queues[d][p] = 1..Len(queues[d][p])
            BY <2>2, AppendFacts
          <6>2. ASSUME NEW i \in DOMAIN queues'[d][p], queues'[d][p][i] = s
                PROVE  \E j \in DOMAIN queues[d][p] : queues[d][p][j] = s
            <7>1. i \in 1..Len(queues[d][p])
              BY <2>2, <4>3, <6>2
            <7> QED
              BY <2>2, <6>1, <6>2, <7>1
          <6>3. ASSUME NEW i \in DOMAIN queues[d][p], queues[d][p][i] = s
                PROVE  \E j \in DOMAIN queues'[d][p] : queues'[d][p][j] = s
            <7>1. i \in 1..(Len(queues[d][p]) + 1) /\ queues'[d][p][i] = s
              BY <2>2, <6>1, <6>3
            <7> QED
              BY <2>2, <7>1
          <6> QED
            BY <6>2, <6>3
        <5> QED
          BY <2>1, <4>1, <4>3, <5>1 DEF IInv, QueuesExact
      <4> QED
        BY <4>2, <4>3
    <3> QED
      BY <3>1, <3>2
  <2>5. ASSUME NEW e \in Directions, NEW r \in Priorities
        PROVE  /\ \A i, j \in DOMAIN queues'[e][r] :
                      queues'[e][r][i] = queues'[e][r][j] => i = j
               /\ \A i \in DOMAIN queues'[e][r] :
                      direction'[queues'[e][r][i]] = e /\ priority'[queues'[e][r][i]] = r
    <3>1. CASE e # d \/ r # p
      <4>1. queues'[e][r] = queues[e][r] /\ direction' = direction /\ priority' = priority
        BY <1>1, <1>2, <3>1 DEF input
      <4> QED
        BY <4>1 DEF IInv, QueuesExact
    <3>2. CASE e = d /\ r = p
      <4>1. direction' = direction /\ priority' = priority
        BY <1>1 DEF input
      <4>2. DOMAIN queues[d][p] = 1..Len(queues[d][p])
        BY <2>2, AppendFacts
      <4>3. /\ \A i, j \in 1..Len(queues[d][p]) : queues[d][p][i] = queues[d][p][j] => i = j
            /\ \A i \in 1..Len(queues[d][p]) :
                  direction[queues[d][p][i]] = d /\ priority[queues[d][p][i]] = p
        BY <1>1, <4>2 DEF IInv, QueuesExact
      <4>4. \A i \in 1..(Len(queues[d][p]) + 1) :
               i \in 1..Len(queues[d][p]) \/ i = Len(queues[d][p]) + 1
        BY <2>2
      <4>5. \A i, j \in DOMAIN queues'[d][p] : queues'[d][p][i] = queues'[d][p][j] => i = j
        BY <2>2, <2>3, <4>2, <4>3, <4>4
      <4>6. \A i \in DOMAIN queues'[d][p] :
               direction[queues'[d][p][i]] = d /\ priority[queues'[d][p][i]] = p
        BY <2>2, <4>3, <4>4
      <4> QED
        BY <3>2, <4>1, <4>5, <4>6
    <3> QED
      BY <3>1, <3>2
  <2> QED
    BY <2>4, <2>5 DEF QueuesExact
<1>6. NoLostWakeup'
  BY <1>1 DEF IInv, TypeOK, NoLostWakeup
<1>7. CrossedCount'
  <2>1. \A s \in Trains : tpc'[s] = "done" <=> tpc[s] = "done"
    BY <1>1 DEF IInv, TypeOK
  <2> QED
    BY <1>1, <2>1, CrossedKept DEF IInv
<1> QED
  BY <1>1, <1>3, <1>4, <1>5, <1>6, <1>7 DEF IInv, TypeOK, AllCrossed

(* The train on the track leaves it.                                       *)
LEMMA OffTrackStep ==
    ASSUME IInv, NEW t \in Trains, OffTrack(t)
    PROVE  IInv'
<1>1. /\ tpc[t] = "crossing" /\ dpc' = IF dpc = "waiting" THEN "lock" ELSE dpc
      /\ tpc' = [tpc EXCEPT ![t] = "done"]
      /\ track_busy' = FALSE /\ crossed' = crossed + 1
      /\ UNCHANGED <<created, input, may_cross, queues, dispatcher>>
      /\ t \in Granted /\ may_cross[t]
  BY DEF OffTrack, SignalDispatcher, IInv, TypeOK, TrackExclusive, Granted
<1>2. CrossedCount' /\ crossed' \in 0..NTrains
  <2>1. Crossed' = Crossed \cup {t} /\ t \notin Crossed /\ t \notin Crossed
    BY <1>1 DEF Crossed, IInv, TypeOK, Trains
  <2>2. Cardinality(Crossed') = Cardinality(Crossed) + 1
    BY <2>1, CrossedFinite, FS_AddElement
  <2>3. Cardinality(Crossed') <= NTrains
    <3>1. Crossed' \subseteq Trains
      BY DEF Crossed, Trains
    <3> QED
      BY <3>1, TrainsFinite, FS_Subset
  <2> QED
    BY <1>1, <2>2, <2>3, CrossedFinite, TrainsAssumption DEF IInv, CrossedCount
<1>3. TypeOK'
  <2>1. tpc' \in [Trains -> TrainStates] /\ dpc' \in MainStates
    BY <1>1 DEF IInv, TypeOK, TrainStates, MainStates
  <2> QED
    BY <1>1, <1>2, <2>1 DEF IInv, TypeOK, input, dispatcher
<1>4. TrackExclusive'
  <2>1. Granted' = {}
    BY <1>1 DEF IInv, TypeOK, TrackExclusive, Granted
  <2>2. \A s \in Trains : tpc'[s] # "crossing"
    BY <1>1 DEF IInv, TypeOK, TrackExclusive
  <2> QED
    BY <1>1, <2>1, <2>2 DEF TrackExclusive
<1>5. QueuesExact'
  <2>1. \A s \in Trains : IsQueued(s)' <=> IsQueued(s)
    BY <1>1 DEF IInv, TypeOK, IsQueued
  <2> QED
    BY <1>1, <2>1, QueuesKept DEF IInv
<1>6. NoLostWakeup' /\ Overtaking'
  BY <1>1 DEF IInv, TypeOK, NoLostWakeup, Overtaking, dispatcher
<1>7. dpc' \in {"joining", "done"} => AllCrossed'
  BY <1>1, TrainsAssumption DEF IInv, TypeOK, AllCrossed
<1>8. /\ \A s \in Trains : tpc'[s] = "none" <=> s >= created'
      /\ \A s \in Trains : tpc'[s] \in {"none", "failed", "loading"} => ~may_cross'[s]
      /\ \A s \in Trains : tpc'[s] = "done" => may_cross'[s]
  BY <1>1 DEF IInv, TypeOK
<1> QED
  BY <1>2, <1>3, <1>4, <1>5, <1>6, <1>7, <1>8 DEF IInv

(* The dispatcher lets the chosen train go.                                *)
LEMMA GrantStep ==
    ASSUME IInv, Grant
    PROVE  IInv'
<1>0. /\ SelectNext \in Trains /\ Queue(SelectNext) \in Seq(Trains)
      /\ direction[SelectNext] \in Directions /\ priority[SelectNext] \in Priorities
  BY SelectNextHeadsQueue DEF Grant, IInv, TypeOK, Queue
<1>t. PICK t \in Trains, d \in Directions, p \in Priorities, q \in Seq(Trains) :
       t = SelectNext /\ d = direction[t] /\ p = priority[t] /\ q = queues[d][p]
  BY <1>0 DEF Queue
<1>1. /\ d = NextDirection /\ q # <<>> /\ t = Head(q) /\ Waiting(d)
  BY <1>t, SelectNextHeadsQueue DEF Grant, IInv, Queue
<1>2. /\ dpc = "lock" /\ dpc' = "waiting" /\ ~AllCrossed /\ ~track_busy /\ track_busy' = TRUE
      /\ may_cross' = [may_cross EXCEPT ![t] = TRUE]
      /\ tpc' = [tpc EXCEPT ![t] = "woken"]
      /\ UNCHANGED <<created, input, crossed>>
  BY <1>t DEF Grant
<1>3. /\ queues'[d][p] = Tail(q)
      /\ \A e \in Directions, r \in Priorities : e # d \/ r # p => queues'[e][r] = queues[e][r]
      /\ queues' \in [Directions -> [Priorities -> Seq(Trains)]]
  <2>1. Tail(q) \in Seq(Trains)
    BY <1>1, TailFacts
  <2>2. queues' = [queues EXCEPT ![d][p] = Tail(@)]
    BY <1>t DEF Grant, Dequeue
  <2> QED
    BY <1>1, <1>t, <2>1, <2>2 DEF IInv, TypeOK
<1>4. /\ Len(q) \in Nat \ {0} /\ DOMAIN q = 1..Len(q) /\ t = q[1]
      /\ DOMAIN Tail(q) = 1..(Len(q) - 1)
      /\ \A i \in 1..(Len(q) - 1) : Tail(q)[i] = q[i + 1]
  BY <1>1, TailFacts
<1>5. /\ \A i, j \in 1..Len(q) : q[i] = q[j] => i = j
      /\ \A i \in 1..Len(q) : direction[q[i]] = d /\ priority[q[i]] = p
  <2>1. /\ \A i, j \in DOMAIN queues[d][p] : queues[d][p][i] = queues[d][p][j] => i = j
        /\ \A i \in DOMAIN queues[d][p] :
              direction[queues[d][p][i]] = d /\ priority[queues[d][p][i]] = p
    BY DEF IInv, QueuesExact
  <2>2. q = queues[d][p]
    BY <1>t
  <2>3. /\ \A i, j \in DOMAIN q : q[i] = q[j] => i = j
        /\ \A i \in DOMAIN q : direction[q[i]] = d /\ priority[q[i]] = p
    BY <2>1, <2>2, Zenon
  <2> QED
    BY <1>4, <2>3, Zenon
<1>5a. direction[t] = d /\ priority[t] = p /\ Queue(t) = q
  BY <1>t DEF Queue
<1>6. IsQueued(t)
  <2>1. 1 \in DOMAIN Queue(t) /\ Queue(t)[1] = t
    BY <1>4, <1>5a
  <2> QED
    BY <2>1 DEF IInv, QueuesExact
<1>7. Granted = {} /\ Granted' = {t}
  <2>1. Granted = {}
    BY <1>2 DEF IInv, TrackExclusive
  <2>2. tpc[t] # "done" /\ ~may_cross[t]
    BY <1>6 DEF IsQueued
  <2> QED
    BY <1>1, <1>2, <2>1, <2>2 DEF Granted, Trains, IInv, TypeOK
<1>8. TypeOK'
  <2>1. tpc' \in [Trains -> TrainStates] /\ dpc' \in MainStates
    BY <1>1, <1>2 DEF IInv, TypeOK, TrainStates, MainStates
  <2>2. /\ may_cross' \in [Trains -> BOOLEAN]
        /\ last_direction' \in Directions /\ same_dir_count' \in Nat
        /\ passed' \in [Directions -> Nat]
    <3>1. /\ last_direction' = d
          /\ same_dir_count' = IF d = last_direction THEN same_dir_count + 1 ELSE 1
          /\ passed' = [passed EXCEPT ![d] = 0,
                                      ![Opposite(d)] = IF Waiting(Opposite(d)) THEN @ + 1 ELSE 0]
      BY <1>t DEF Grant
    <3>2. Opposite(d) \in Directions /\ Opposite(d) # d
      BY DEF Directions, Opposite, EAST, WEST
    <3>3. passed' \in [Directions -> Nat]
      <4>1. passed \in [Directions -> Nat] /\ passed[Opposite(d)] + 1 \in Nat
        BY <3>2 DEF IInv, TypeOK
      <4> DEFINE x == IF Waiting(Opposite(d)) THEN passed[Opposite(d)] + 1 ELSE 0
      <4>2. x \in Nat
        BY <4>1
      <4>3. passed' = [passed EXCEPT ![d] = 0, ![Opposite(d)] = x]
        BY <3>1, <3>2, <4>1
      <4> HIDE DEF x
      <4> QED
        BY <3>2, <4>1, <4>2, <4>3
    <3>4. may_cross' \in [Trains -> BOOLEAN]
      BY <1>2, Zenon DEF IInv, TypeOK
    <3>5. same_dir_count' \in Nat
      BY <3>1 DEF IInv, TypeOK
    <3> QED
      BY <3>1, <3>3, <3>4, <3>5
  <2> QED
    BY <1>2, <1>3, <2>1, <2>2 DEF IInv, TypeOK, input
<1>9. TrackExclusive'
  <2>1. \A s \in Trains : tpc'[s] # "crossing"
    BY <1>1, <1>2, <1>7 DEF IInv, TypeOK, TrackExclusive
  <2> QED
    BY <1>2, <1>7, <2>1 DEF TrackExclusive
<1>10. QueuesExact'
  <2>1. ~IsQueued(t)' /\ \A s \in Trains \ {t} : IsQueued(s)' <=> IsQueued(s)
    BY <1>1, <1>2 DEF IInv, TypeOK, IsQueued
  <2>2. direction' = direction /\ priority' = priority
    BY <1>2 DEF input
  <2>3. \A s \in Trains : IsQueued(s)' <=> \E i \in DOMAIN Queue(s)' : Queue(s)'[i] = s
    <3> SUFFICES ASSUME NEW s \in Trains
                 PROVE  IsQueued(s)' <=> \E i \in DOMAIN Queue(s)' : Queue(s)'[i] = s
      OBVIOUS
    <3>1. direction[s] \in Directions /\ priority[s] \in Priorities
      BY DEF IInv, TypeOK
    <3>2. CASE direction[s] # d \/ priority[s] # p
      <4>1. Queue(s)' = Queue(s) /\ s # t
        BY <1>3, <1>5a, <2>2, <3>1, <3>2 DEF Queue
      <4> QED
        BY <2>1, <4>1 DEF IInv, QueuesExact
    <3>3. CASE direction[s] = d /\ priority[s] = p
      <4>1. Queue(s) = q /\ Queue(s)' = Tail(q)
        BY <1>3, <1>t, <2>2, <3>3 DEF Queue
      <4>2. (\E i \in 1..(Len(q) - 1) : Tail(q)[i] = s) => s # t /\ \E i \in 1..Len(q) : q[i] = s
        <5> SUFFICES ASSUME NEW i \in 1..(Len(q) - 1), Tail(q)[i] = s
                     PROVE  s # t /\ \E j \in 1..Len(q) : q[j] = s
          OBVIOUS
        <5>1. i + 1 \in 1..Len(q) /\ 1 \in 1..Len(q) /\ i + 1 # 1 /\ q[i + 1] = s
          BY <1>4
        <5> QED
          BY <1>4, <1>5, <5>1
      <4>3. s # t /\ (\E i \in 1..Len(q) : q[i] = s) => \E i \in 1..(Len(q) - 1) : Tail(q)[i] = s
        <5> SUFFICES ASSUME s # t, NEW i \in 1..Len(q), q[i] = s
                     PROVE  \E j \in 1..(Len(q) - 1) : Tail(q)[j] = s
          OBVIOUS
        <5>1. i - 1 \in 1..(Len(q) - 1) /\ (i - 1) + 1 = i
          BY <1>4
        <5>2. Tail(q)[i - 1] = s
          BY <1>4, <5>1
        <5> QED
          BY <5>1, <5>2
      <4>4. IsQueued(s) <=> \E i \in 1..Len(q) : q[i] = s
        BY <1>4, <4>1 DEF IInv, QueuesExact
      <4> QED
        BY <1>4, <2>1, <4>1, <4>2, <4>3, <4>4
    <3> QED
      BY <3>2, <3>3
  <2>4. ASSUME NEW e \in Directions, NEW r \in Priorities
        PROVE  /\ \A i, j \in DOMAIN queues'[e][r] :
                      queues'[e][r][i] = queues'[e][r][j] => i = j
               /\ \A i \in DOMAIN queues'[e][r] :
                      direction'[queues'[e][r][i]] = e /\ priority'[queues'[e][r][i]] = r
    <3>1. CASE e # d \/ r # p
      <4>1. queues'[e][r] = queues[e][r]
        BY <1>3, <3>1
      <4> QED
        BY <2>2, <4>1 DEF IInv, QueuesExact
    <3>2. CASE e = d /\ r = p
      <4>1. \A i \in 1..(Len(q) - 1) : i + 1 \in 1..Len(q) /\ Tail(q)[i] = q[i + 1]
        BY <1>4
      <4>2. \A i, j \in 1..(Len(q) - 1) : Tail(q)[i] = Tail(q)[j] => i = j
        <5> SUFFICES ASSUME NEW i \in 1..(Len(q) - 1), NEW j \in 1..(Len(q) - 1),
                            Tail(q)[i] = Tail(q)[j]
                     PROVE  i = j
          OBVIOUS
        <5>1. i + 1 = j + 1
          BY <1>5, <4>1
        <5> QED
          BY <5>1
      <4>3. \A i \in 1..(Len(q) - 1) : direction[Tail(q)[i]] = d /\ priority[Tail(q)[i]] = p
        BY <1>5, <4>1
      <4>4. queues'[e][r] = Tail(q) /\ DOMAIN Tail(q) = 1..(Len(q) - 1)
        BY <1>3, <1>4, <3>2
      <4> QED
        BY <2>2, <3>2, <4>2, <4>3, <4>4
    <3> QED
      BY <3>1, <3>2
  <2> QED
    BY <2>3, <2>4 DEF QueuesExact
<1>11. NoLostWakeup'
  BY <1>1, <1>2 DEF IInv, TypeOK, NoLostWakeup, NothingToGrant, AllCrossed
<1>12. Overtaking'
  <2>1. /\ last_direction' = d
        /\ same_dir_count' = IF d = last_direction THEN same_dir_count + 1 ELSE 1
        /\ passed'[d] = 0
        /\ passed'[Opposite(d)] = IF Waiting(Opposite(d)) THEN passed[Opposite(d)] + 1 ELSE 0
    <3>1. /\ last_direction' = d
          /\ same_dir_count' = IF d = last_direction THEN same_dir_count + 1 ELSE 1
          /\ passed' = [passed EXCEPT ![d] = 0,
                                      ![Opposite(d)] = IF Waiting(Opposite(d)) THEN @ + 1 ELSE 0]
      BY <1>t DEF Grant
    <3>2. Opposite(d) \in Directions /\ Opposite(d) # d
      BY DEF Directions, Opposite, EAST, WEST
    <3> QED
      BY <3>1, <3>2 DEF IInv, TypeOK
  <2>2. Opposite(d) \in Directions /\ Opposite(Opposite(d)) = d
        /\ \A e \in Directions : e = d \/ e = Opposite(d)
    BY <1>1 DEF Directions, Opposite, EAST, WEST
  <2>3. ASSUME Waiting(Opposite(d)), last_direction = d
        PROVE  same_dir_count < 2
    <3>1. Waiting(EAST) /\ Waiting(WEST)
      BY <1>1, <2>3, <2>2 DEF Directions, Opposite, EAST, WEST
    <3>2. TurnIsDue => NextDirection = Alternate
      BY <3>1 DEF NextDirection
    <3>3. Alternate # d
      BY <1>1, <2>3 DEF Alternate, Directions, EAST, WEST
    <3> QED
      BY <1>1, <3>2, <3>3 DEF TurnIsDue, IInv, TypeOK
  <2>4. /\ passed[Opposite(d)] \in Nat /\ same_dir_count \in Nat
        /\ passed[Opposite(d)] > 0 =>
              last_direction = d /\ passed[Opposite(d)] <= same_dir_count
    BY <2>2 DEF IInv, TypeOK, Overtaking
  <2>5. passed'[Opposite(d)] <= 2
        /\ passed'[Opposite(d)] <= same_dir_count'
    BY <2>1, <2>3, <2>4
  <2>6. d # Nobody
    BY DEF Directions, Nobody, EAST, WEST
  <2> QED
    BY <2>1, <2>2, <2>5, <2>6 DEF Overtaking
<1>13. CrossedCount'
  <2>1. \A s \in Trains : tpc'[s] = "done" <=> tpc[s] = "done"
    BY <1>1, <1>2, <1>6 DEF IInv, TypeOK, IsQueued
  <2> QED
    BY <1>2, <2>1, CrossedKept DEF IInv
<1>14. /\ \A s \in Trains : tpc'[s] = "none" <=> s >= created'
       /\ \A s \in Trains : tpc'[s] \in {"none", "failed", "loading"} => ~may_cross'[s]
       /\ \A s \in Trains : tpc'[s] = "done" => may_cross'[s]
  BY <1>1, <1>2, <1>6 DEF IInv, TypeOK, IsQueued
<1> QED
  BY <1>2, <1>8, <1>9, <1>10, <1>11, <1>12, <1>13, <1>14 DEF IInv

LEMMA StutterStep ==
    ASSUME IInv, UNCHANGED vars
    PROVE  IInv'
<1>1. Crossed' = Crossed /\ Granted' = Granted
  BY DEF Crossed, Granted, vars
<1>2. TypeOK' /\ TrackExclusive' /\ CrossedCount' /\ Overtaking'
  BY <1>1 DEF IInv, TypeOK, TrackExclusive, CrossedCount, Overtaking, vars, input, dispatcher
<1>3. QueuesExact'
  BY QueuesKept DEF IInv, IsQueued, vars
<1>4. NoLostWakeup'
  BY DEF IInv, NoLostWakeup, NothingToGrant, SomebodyWaits, Waiting, AllCrossed, vars
<1> QED
  BY <1>2, <1>3, <1>4 DEF IInv, AllCrossed, vars

LEMMA NextIInv == IInv /\ [Next]_vars => IInv'
<1> SUFFICES ASSUME IInv, [Next]_vars PROVE IInv'
  OBVIOUS
<1>1. CASE Creation \/ Dispatch \/ Join \/ SpuriousDispatcherWakeup
  BY <1>1, CreationStep, GrantStep, MainStep DEF Dispatch
<1>2. CASE Finished \/ UNCHANGED vars
  BY <1>2, StutterStep DEF Finished
<1>3. CASE \E t \in Trains : TrainStep(t) \/ SpuriousTrainWakeup(t)
  <2> SUFFICES ASSUME NEW t \in Trains, TrainStep(t) \/ SpuriousTrainWakeup(t) PROVE IInv'
    BY <1>3
  <2> QED
    BY ReadyToGoStep, WaitingTrainStep, OffTrackStep DEF TrainStep
<1> QED
  BY <1>1, <1>2, <1>3 DEF Next

(* The strengthened invariant holds in every reachable state.              *)
THEOREM Inductive == Spec => []IInv
BY InitIInv, NextIInv, PTL DEF Spec

(* Types, and no more trains counted across than there are.                *)
THEOREM TypeCorrect == Spec => []TypeOK
<1>1. IInv => TypeOK
  BY DEF IInv
<1> QED
  BY <1>1, Inductive, PTL

(* One train on the track at a time.                                       *)
THEOREM TrackExclusiveCorrect == Spec => []TrackExclusive
<1>1. IInv => TrackExclusive
  BY DEF IInv
<1> QED
  BY <1>1, Inductive, PTL

(* The lists hold the waiting trains, each once and where it belongs.      *)
THEOREM QueuesExactCorrect == Spec => []QueuesExact
<1>1. IInv => QueuesExact
  BY DEF IInv
<1> QED
  BY <1>1, Inductive, PTL

(* No thread sleeps through the signal it needs.                           *)
THEOREM NoLostWakeupCorrect == Spec => []NoLostWakeup
<1>1. IInv => NoLostWakeup
  BY DEF IInv
<1> QED
  BY <1>1, Inductive, PTL

(* A waiting side is passed over at most twice.                            *)
THEOREM BoundedOvertakingCorrect == Spec => []BoundedOvertaking
<1>1. IInv => BoundedOvertaking
  BY DEF IInv, Overtaking, BoundedOvertaking
<1> QED
  BY <1>1, Inductive, PTL

(* The dispatcher's loop ends with every train across.                     *)
THEOREM EndsWhenAllCrossedCorrect == Spec => []EndsWhenAllCrossed
<1>1. IInv => EndsWhenAllCrossed
  <2> SUFFICES ASSUME IInv, dpc \in {"joining", "done"}
               PROVE  \A t \in Trains : tpc[t] = "done"
    BY DEF EndsWhenAllCrossed
  <2>1. Crossed = Trains
    BY CrossedFinite, TrainsAssumption DEF IInv, CrossedCount, AllCrossed
  <2> QED
    BY <2>1 DEF Crossed
<1> QED
  BY <1>1, Inductive, PTL

----------------------------------------------------------------------------
(* A grant takes the chosen train, one that waits, and nothing else.       *)
LEMMA GrantFacts ==
    ASSUME IInv, Grant
    PROVE  /\ SelectNext \in Trains /\ IsQueued(SelectNext)
           /\ Granted = {}
           /\ may_cross' = [may_cross EXCEPT ![SelectNext] = TRUE]
           /\ tpc' = [tpc EXCEPT ![SelectNext] = "woken"]
<1>1. /\ SelectNext \in Trains /\ Queue(SelectNext) # <<>>
      /\ SelectNext = Head(Queue(SelectNext)) /\ Queue(SelectNext) \in Seq(Trains)
  BY SelectNextHeadsQueue DEF Grant, IInv, TypeOK, Queue
<1>2. 1 \in DOMAIN Queue(SelectNext) /\ Queue(SelectNext)[1] = SelectNext
  BY <1>1, TailFacts
<1>3. IsQueued(SelectNext)
  BY <1>1, <1>2 DEF IInv, QueuesExact
<1> QED
  BY <1>1, <1>3 DEF Grant, IInv, TrackExclusive

(* The simulation implements the single track: queueing is Ready, a grant  *)
(* is Enter, and leaving the track is LeaveTrack.                          *)
ReadyTrains == {t \in Trains : IsQueued(t)}

LEMMA HiddenStep ==
    ASSUME \A t \in Trains : /\ IsQueued(t)' <=> IsQueued(t)
                             /\ t \in Granted' <=> t \in Granted
                             /\ tpc'[t] = "done" <=> tpc[t] = "done"
    PROVE  UNCHANGED <<ReadyTrains, Granted, Crossed>>
<1>1. ReadyTrains' = ReadyTrains
  BY DEF ReadyTrains, Trains
<1>2. Granted' = Granted
  BY DEF Granted, Trains
<1>3. Crossed' = Crossed
  BY DEF Crossed, Trains
<1> QED
  BY <1>1, <1>2, <1>3

LEMMA ReadyStep ==
    ASSUME IInv, NEW t \in Trains, ReadyToGo(t)
    PROVE  /\ t \notin ReadyTrains \cup Granted \cup Crossed
           /\ ReadyTrains' = ReadyTrains \cup {t}
           /\ Granted' = Granted /\ Crossed' = Crossed
<1>1. tpc[t] = "loading" /\ tpc' = [tpc EXCEPT ![t] = "queued"] /\ may_cross' = may_cross
      /\ ~may_cross[t]
  BY DEF ReadyToGo, IInv
<1> QED
  BY <1>1 DEF ReadyTrains, Granted, Crossed, IsQueued, IInv, TypeOK, Trains

LEMMA EnterStep ==
    ASSUME IInv, Grant
    PROVE  \E t \in Trains : /\ t \in ReadyTrains /\ Granted = {}
                             /\ ReadyTrains' = ReadyTrains \ {t}
                             /\ Granted' = {t} /\ Crossed' = Crossed
<1>t. PICK t \in Trains : t = SelectNext
  BY GrantFacts
<1>1. /\ IsQueued(t) /\ Granted = {}
      /\ may_cross' = [may_cross EXCEPT ![t] = TRUE]
      /\ tpc' = [tpc EXCEPT ![t] = "woken"]
  BY <1>t, GrantFacts
<1>2. t \in ReadyTrains /\ ReadyTrains' = ReadyTrains \ {t}
  BY <1>1 DEF ReadyTrains, IsQueued, IInv, TypeOK, Trains
<1>3. Granted' = {t} /\ Crossed' = Crossed
  BY <1>1 DEF Granted, Crossed, IsQueued, IInv, TypeOK, Trains
<1> QED
  BY <1>1, <1>2, <1>3

LEMMA LeaveStep ==
    ASSUME IInv, NEW t \in Trains, OffTrack(t)
    PROVE  /\ Granted = {t} /\ Granted' = {}
           /\ Crossed' = Crossed \cup {t} /\ ReadyTrains' = ReadyTrains
<1>1. /\ tpc[t] = "crossing" /\ tpc' = [tpc EXCEPT ![t] = "done"] /\ may_cross' = may_cross
      /\ t \in Granted /\ may_cross[t]
  BY DEF OffTrack, IInv, TrackExclusive, Granted
<1>2. Granted = {t}
  BY <1>1 DEF IInv, TrackExclusive
<1>3. Granted' = {}
  BY <1>1, <1>2 DEF Granted, IInv, TypeOK, Trains
<1> QED
  BY <1>1, <1>2, <1>3 DEF ReadyTrains, Crossed, IsQueued, IInv, TypeOK, Trains

(* The dispatcher and the trains implement a single track.                 *)
THEOREM SingleTrackRefinement == Spec => SingleTrackSafe
<1>1. Init => Track!STInit
  BY DEF Init, Track!STInit, Granted, IsQueued
<1>2. IInv /\ [Next]_vars => [Track!STNext]_(Track!stvars)
  <2> SUFFICES ASSUME IInv, [Next]_vars PROVE [Track!STNext]_(Track!stvars)
    OBVIOUS
  <2>1. UNCHANGED <<ReadyTrains, Granted, Crossed>> => UNCHANGED Track!stvars
    BY DEF Track!stvars, ReadyTrains, Crossed
  <2>2. CASE \E t \in Trains : ReadyToGo(t)
    <3>1. \E t \in Trains : Track!Ready(t)
      <4> SUFFICES \E t \in Trains : /\ t \notin ReadyTrains \cup Granted \cup Crossed
                                     /\ ReadyTrains' = ReadyTrains \cup {t}
                                     /\ Granted' = Granted /\ Crossed' = Crossed
        BY DEF Track!Ready, ReadyTrains, Crossed
      <4> QED
        BY <2>2, ReadyStep
    <3> QED
      BY <3>1 DEF Track!STNext, Track!Ready
  <2>3. CASE Grant
    <3>1. \E t \in Trains : Track!Enter(t)
      <4> SUFFICES \E t \in Trains : /\ t \in ReadyTrains /\ Granted = {}
                                     /\ ReadyTrains' = ReadyTrains \ {t}
                                     /\ Granted' = {t} /\ Crossed' = Crossed
        BY DEF Track!Enter, ReadyTrains, Crossed
      <4> QED
        BY <2>3, EnterStep
    <3> QED
      BY <3>1 DEF Track!STNext, Track!Enter
  <2>4. CASE \E t \in Trains : OffTrack(t)
    <3>1. \E t \in Trains : Track!LeaveTrack(t)
      <4> SUFFICES \E t \in Trains : /\ Granted = {t} /\ Granted' = {}
                                     /\ Crossed' = Crossed \cup {t} /\ ReadyTrains' = ReadyTrains
        BY DEF Track!LeaveTrack, ReadyTrains, Crossed
      <4> QED
        BY <2>4, LeaveStep
    <3> QED
      BY <3>1 DEF Track!STNext, Track!LeaveTrack
  <2>5. CASE UNCHANGED vars \/ Finished \/ DispatcherWaits \/ DispatcherEnds \/ Join
             \/ SpuriousDispatcherWakeup
    BY <2>1, <2>5, HiddenStep DEF DispatcherWaits, DispatcherEnds, Join, Finished,
       SpuriousDispatcherWakeup, vars, Granted, IsQueued
  <2>6. CASE Creation
    <3>1. /\ may_cross' = may_cross
          /\ \A t \in Trains : tpc'[t] = tpc[t] \/
                (tpc[t] = "none" /\ tpc'[t] \in {"loading", "failed"} /\ ~may_cross[t])
      BY <2>6 DEF Creation, CreateTrain, CreateTrainFails, StartDispatching, IInv, TypeOK
    <3> QED
      BY <2>1, <3>1, HiddenStep DEF Granted, IsQueued
  <2>7. CASE \E t \in Trains : Board(t) \/ WaitOn(t) \/ SpuriousTrainWakeup(t)
    <3>1. /\ may_cross' = may_cross
          /\ \A t \in Trains : tpc'[t] = tpc[t] \/
                /\ tpc[t] \in {"queued", "woken"}
                /\ (tpc'[t] = "crossing" /\ may_cross[t]) \/ tpc'[t] \in {"queued", "woken"}
      BY <2>7 DEF Board, WaitOn, SpuriousTrainWakeup, MayCross, IInv, TypeOK
    <3> QED
      BY <2>1, <3>1, HiddenStep DEF Granted, IsQueued
  <2> QED
    BY <2>2, <2>3, <2>4, <2>5, <2>6, <2>7 DEF Next, Dispatch, TrainStep
<1> QED
  BY <1>1, <1>2, Inductive, PTL DEF Spec, SingleTrackSafe, Track!STSafe

----------------------------------------------------------------------------
(* Whoever is let go is first in the highest list of its side, and if a    *)
(* better train waits on the other side, its own side's turn was due.      *)
LEMMA GrantInOrder ==
    ASSUME IInv, Grant
    PROVE  LET t == SelectNext
               d == direction[t]
           IN  /\ \A s \in Trains : ~Ahead(s, t)
               /\ priority[t] = LOW => queues[d][HIGH] = <<>>
               /\ priority[t] = LOW /\ queues[Opposite(d)][HIGH] # <<>> =>
                     same_dir_count >= 2 /\ last_direction = Opposite(d)
<1>t. PICK t \in Trains : t = SelectNext
  BY GrantFacts
<1> DEFINE d == NextDirection
<1>1. /\ d \in Directions /\ direction[t] = d /\ Waiting(d)
      /\ Queue(t) # <<>> /\ Queue(t) \in Seq(Trains) /\ t = Head(Queue(t))
  BY <1>t, SelectNextHeadsQueue DEF Grant, IInv, TypeOK, Queue
<1> HIDE DEF d
<1>2. \A s \in Trains : ~Ahead(s, t)
  <2>1. /\ DOMAIN Queue(t) = 1..Len(Queue(t)) /\ Len(Queue(t)) \in Nat \ {0} /\ Queue(t)[1] = t
    BY <1>1, TailFacts
  <2>2. \A i, j \in DOMAIN Queue(t) : Queue(t)[i] = Queue(t)[j] => i = j
    BY DEF IInv, QueuesExact, Queue, TypeOK
  <2>3. \A j \in DOMAIN Queue(t) : Queue(t)[j] = t => j = 1
    BY <2>1, <2>2
  <2> QED
    BY <2>1, <2>3 DEF Ahead
<1>3. ASSUME NEW e \in Directions, queues[e][HIGH] # <<>>
      PROVE  priority[BestInDirection(e)] = HIGH /\ Waiting(e)
  <2>1. queues[e][HIGH] \in Seq(Trains)
    BY DEF IInv, TypeOK, Priorities
  <2>2. 1 \in DOMAIN queues[e][HIGH] /\ Head(queues[e][HIGH]) = queues[e][HIGH][1]
    BY <1>3, <2>1, TailFacts
  <2> QED
    BY <1>3, <2>2 DEF IInv, QueuesExact, BestInDirection, Waiting, Priorities
<1>4. t = BestInDirection(d)
  BY <1>t DEF SelectNext, d
<1>5. priority[t] = LOW => queues[d][HIGH] = <<>>
  BY <1>1, <1>3, <1>4 DEF LOW, HIGH
<1>6. ASSUME priority[t] = LOW, queues[Opposite(d)][HIGH] # <<>>
      PROVE  same_dir_count >= 2 /\ last_direction = Opposite(d)
  <2>1. Opposite(d) \in Directions /\ (d = EAST \/ d = WEST)
    BY <1>1 DEF Directions, Opposite, EAST, WEST
  <2>2. priority[BestInDirection(Opposite(d))] = HIGH /\ Waiting(Opposite(d))
    BY <1>3, <1>6, <2>1
  <2>3. Waiting(EAST) /\ Waiting(WEST)
    BY <1>1, <2>1, <2>2 DEF Opposite, EAST, WEST
  <2>4. TurnIsDue
    BY <1>4, <1>6, <2>1, <2>2, <2>3 DEF NextDirection, d, Opposite, EAST, WEST, LOW, HIGH
  <2>5. d = Alternate
    BY <2>3, <2>4 DEF NextDirection, d
  <2>6. last_direction \in Directions
    BY <2>4, <1>1 DEF TurnIsDue, IInv, TypeOK, Overtaking, Directions
  <2> QED
    BY <2>1, <2>4, <2>5, <2>6 DEF TurnIsDue, Alternate, Directions, Opposite, EAST, WEST
<1> QED
  BY <1>t, <1>1, <1>2, <1>5, <1>6

(* Only a grant lets a train go, and only the chosen one.                  *)
LEMMA LetGoIsGrant ==
    ASSUME IInv, [Next]_vars, NEW t \in Trains, LetGo(t)
    PROVE  Grant /\ t = SelectNext
<1>1. ~(UNCHANGED may_cross)
  BY DEF LetGo
<1>2. Grant
  BY <1>1 DEF Next, Creation, CreateTrain, CreateTrainFails, StartDispatching, Dispatch,
     DispatcherWaits, DispatcherEnds, Join, SpuriousDispatcherWakeup, Finished, TrainStep,
     ReadyToGo, Board, WaitOn, OffTrack, SpuriousTrainWakeup, vars
<1> QED
  BY <1>2, GrantFacts DEF LetGo, IInv, TypeOK

(* Priority and order of readiness decide, the anti-starvation rule apart. *)
THEOREM PriorityRespectedCorrect == Spec => PriorityRespected
<1> DEFINE InOrder(t) ==
       /\ \A s \in Trains : ~Ahead(s, t)
       /\ priority[t] = LOW => queues[direction[t]][HIGH] = <<>>
       /\ priority[t] = LOW /\ queues[Opposite(direction[t])][HIGH] # <<>> =>
             same_dir_count >= 2 /\ last_direction = Opposite(direction[t])
<1>1. IInv /\ [Next]_vars => [\A t \in Trains : LetGo(t) => InOrder(t)]_vars
  BY LetGoIsGrant, GrantInOrder
<1> QED
  BY <1>1, Inductive, PTL DEF Spec, PriorityRespected
===========================================================================
